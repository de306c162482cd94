---------------------------- MODULE Tools_proofs ----------------------------
(***************************************************************************)
(* What is proved of the tools of a session, of the ids and the saved      *)
(* outputs that are named with them, and of the events that tell of it all *)
(* (parts of MCSession), for any number of calls, ids, chunks, events,     *)
(* connections and sections of a patch.                                    *)
(***************************************************************************)
EXTENDS MCSession, SequenceTheorems, TLAPS

Numbers == INSTANCE MaxLemmas

-----------------------------------------------------------------------------
(* The parts move by themselves: a behaviour of all is one of each.        *)

PartsStart == Ids!Init /\ Editing!Init /\ Stream!Init /\ Shell!Init

PartsStep ==
    /\ [Ids!Next]_idVars /\ [Editing!Next]_editVars
    /\ [Stream!Next]_streamVars /\ [Shell!Next]_shellVars /\ [Patching!Next]_patchVars

LEMMA Starts == ASSUME SessionInit PROVE PartsStart
BY DEF SessionInit, PartsStart

LEMMA Steps == ASSUME [SessionNext]_sessionVars PROVE PartsStep
<1>1. CASE SessionNext
  BY <1>1 DEF SessionNext, PartsStep
<1>2. CASE UNCHANGED sessionVars
  BY <1>2 DEF sessionVars, PartsStep
<1> QED BY <1>1, <1>2

-----------------------------------------------------------------------------
(* The tools at one file *)

\* The calls are different ones, and none is no call.
FileCallsDiffer ==
    /\ NoCall \notin Editing!FileCalls
    /\ Edits \cap Creates = {} /\ Edits \cap Writes = {} /\ Creates \cap Writes = {}

\* Unless calls without the lock have come between, one call works at a time, and the
\* file is what it has read.
WorksAlone ==
    ~mixed =>
        /\ \A c, d \in Editing!FileCalls : edit[c].at \in Editing!Working /\ edit[d].at \in Editing!Working => c = d
        /\ \A c \in Editing!FileCalls : edit[c].at \in {"asking", "formatting"} => content = edit[c].old

\* Only the calls of edit wait for the lock.
EditsLock == \A c \in Editing!FileCalls : edit[c].at = "locking" => c \in Editing!Locking

EditInv == Editing!TypeOK /\ EditsLock /\ WorksAlone /\ Editing!EditsKept

LEMMA NextEditInv ==
  ASSUME FileCallsDiffer, EditInv, [Editing!Next]_editVars
  PROVE  EditInv' /\ (~mixed => \A c \in Editing!FileCalls : Editing!Allowed(c) => content = edit[c].old)
<1> USE DEF FileCallsDiffer, EditInv, Editing!TypeOK, EditsLock, WorksAlone, Editing!EditsKept, Editing!Working, Editing!At,
            Editing!FileCalls, Editing!Locking
<1>0. ~mixed => \A c \in Editing!FileCalls : Editing!Allowed(c) => content = edit[c].old
  BY DEF Editing!Allowed
<1>1. ASSUME NEW c \in Editing!FileCalls, Editing!Lock(c) PROVE EditInv'
  BY <1>1 DEF Editing!Lock
<1>2. ASSUME NEW c \in Editing!FileCalls, Editing!EditStarts(c) PROVE EditInv'
  <2>1. /\ edit[c].at = "locking" /\ holder = NoCall /\ UNCHANGED content
        /\ mixed' = (mixed \/ Editing!Others(c) \cap Writes # {})
    BY <1>2 DEF Editing!EditStarts, Editing!LockFree
  <2>2. ASSUME ~mixed' PROVE ~mixed /\ \A d \in Editing!FileCalls : d # c => edit[d].at \notin Editing!Working
    BY <2>1, <2>2 DEF Editing!Others
  <2>3. CASE Editing!Found(c)
    <3>1. edit' = [edit EXCEPT ![c] = [at |-> "asking", old |-> content]] /\ holder' = c
      BY <1>2, <2>3 DEF Editing!EditStarts, Editing!Start
    <3>2. Editing!TypeOK'
      BY <2>1, <3>1
    <3>3. EditsLock' /\ Editing!EditsKept'
      BY <2>1, <2>2, <3>1
    <3>4. WorksAlone'
      BY <2>1, <2>2, <3>1
    <3> QED BY <3>2, <3>3, <3>4
  <2>4. CASE ~Editing!Found(c)
    <3>1. edit' = [edit EXCEPT ![c].at = "failed"] /\ UNCHANGED holder
      BY <1>2, <2>4 DEF Editing!EditStarts
    <3>2. Editing!TypeOK'
      BY <2>1, <3>1
    <3>3. EditsLock' /\ Editing!EditsKept'
      BY <2>1, <2>2, <3>1
    <3>4. WorksAlone'
      BY <2>1, <2>2, <3>1
    <3> QED BY <3>2, <3>3, <3>4
  <2> QED BY <2>3, <2>4
<1>3. ASSUME NEW c \in Editing!FileCalls, Editing!WriteStarts(c) PROVE EditInv'
  BY <1>3 DEF Editing!WriteStarts, Editing!Start, Editing!Others
<1>4. ASSUME NEW c \in Editing!FileCalls, Editing!Allowed(c) PROVE EditInv'
  BY <1>4 DEF Editing!Allowed, Editing!New, Editing!Contents
<1>5. ASSUME NEW c \in Editing!FileCalls, Editing!Rejected(c) PROVE EditInv'
  BY <1>5 DEF Editing!Rejected, Editing!Release
<1>6. ASSUME NEW c \in Editing!FileCalls, Editing!FormatReads(c) PROVE EditInv'
  BY <1>6 DEF Editing!FormatReads
<1>7. ASSUME NEW c \in Editing!FileCalls, Editing!FormatWrites(c) PROVE EditInv'
  BY <1>7 DEF Editing!FormatWrites, Editing!Release
<1>8. ASSUME NEW c \in Editing!FileCalls, Editing!NoFormatter(c) PROVE EditInv'
  BY <1>8 DEF Editing!NoFormatter, Editing!Release
<1>9. ASSUME UNCHANGED editVars PROVE EditInv'
  BY <1>9 DEF editVars
<1> QED BY <1>0, <1>1, <1>2, <1>3, <1>4, <1>5, <1>6, <1>7, <1>8, <1>9 DEF Editing!Next, Editing!Answer

\* Edits of one file do not undo each other and write what the user has seen, whatever
\* is rejected or fails between; calls of write beside other calls left aside (the lock
\* of tool/edit.ts, and tool/write.ts without one).
THEOREM EditsOfFileAgree == ASSUME FileCallsDiffer PROVE SessionSpec => EditsAgree
<1> DEFINE Step == ~mixed => \A c \in Editing!FileCalls : Editing!Allowed(c) => content = edit[c].old
<1>1. ASSUME SessionInit PROVE EditInv
  <2>0. Editing!Init
    BY <1>1, Starts DEF PartsStart
  <2>1. Editing!Original \in Editing!Contents
    BY DEF Editing!Original, Editing!Contents
  <2>2. Editing!TypeOK
    BY <2>0, <2>1 DEF Editing!Init, FileCallsDiffer, Editing!TypeOK, Editing!Working, Editing!FileCalls
  <2>3. EditsLock /\ WorksAlone /\ Editing!EditsKept
    BY <2>0 DEF Editing!Init, EditsLock, WorksAlone, Editing!EditsKept, Editing!Working, Editing!FileCalls, Editing!Locking
  <2> QED BY <2>2, <2>3 DEF EditInv
<1>2. EditInv /\ [SessionNext]_sessionVars => EditInv' /\ Step
  BY NextEditInv, Steps DEF PartsStep
<1>3. EditInv => Editing!TypeOK /\ Editing!EditsKept
  BY DEF EditInv
<1>4. [][Step]_editVars => Editing!AgreedIsWritten
  BY PTL DEF Editing!AgreedIsWritten, Editing!fvars, editVars
<1> HIDE DEF Step
<1> QED BY <1>1, <1>2, <1>3, <1>4, PTL DEF SessionSpec, EditsAgree, Editing!EditsAgree

-----------------------------------------------------------------------------
(* Ids and the files that are named with them *)

IdConstants ==
    /\ PerMs \in Nat \ {0} /\ Wrap \in Nat \ {0}
    /\ Retention \in Nat /\ MaxNow \in Nat /\ MaxIds \in Nat /\ MaxBreaks \in Nat

IdRecords == [direction : {"ascending", "descending"}, at : 0..MaxNow, count : 1..MaxIds + MaxBreaks,
        breaks : 0..MaxBreaks, stamp : 0..Ids!Range - 1]

\* The clock and the counter, as far as ids and cleanups have brought it.
ClockTyped ==
    /\ now \in Retention..MaxNow /\ lastTimestamp \in 0..MaxNow
    /\ breaks \in 0..MaxBreaks /\ Len(made) <= MaxIds
    /\ counter \in 0..Len(made) + breaks
    /\ made \in Seq(IdRecords)

\* A stamp is what was encoded.
StampsEncode ==
    /\ \A i \in 1..Len(made) :
          LET stamp == Ids!Encode(made[i].at, made[i].count)
          IN  made[i].stamp = IF made[i].direction = "descending" THEN Ids!Complement(stamp) ELSE stamp
    /\ \A output \in outputs : output.direction = "ascending" /\ \E i \in 1..Len(made) : made[i] = output

\* The ids that were made since the clock was last set back or asked for another time.
SinceBreak ==
    \A i \in 1..Len(made) :
        /\ made[i].breaks <= breaks
        /\ made[i].breaks = breaks => made[i].at <= now
        /\ made[i].breaks = breaks /\ made[i].at = now => lastTimestamp = now /\ made[i].count <= counter

IdInv == ClockTyped /\ StampsEncode /\ SinceBreak

\* Arithmetic of the clock's bits.
LEMMA StampsOfLap ==
  ASSUME NEW x \in Nat, NEW y \in Nat, NEW r \in Nat \ {0}, x \div r = y \div r
  PROVE  /\ x % r \in 0..r - 1 /\ y % r \in 0..r - 1
         /\ (y % r) - (x % r) = y - x
<1>1. x = r * (x \div r) + (x % r) /\ y = r * (y \div r) + (y % r) /\ x % r \in 0..r - 1 /\ y % r \in 0..r - 1
  OBVIOUS
<1>2. r * (x \div r) = r * (y \div r) /\ r * (x \div r) \in Int /\ r * (y \div r) \in Int
  OBVIOUS
<1> QED BY <1>1, <1>2

LEMMA LaterEncodesMore ==
  ASSUME NEW s \in Nat, NEW t \in Nat, NEW p \in Nat \ {0}, NEW c \in 1..p, NEW d \in Nat \ {0}
  PROVE  /\ s * p + c \in Nat /\ t * p + d \in Nat
         /\ s < t => s * p + c < t * p + d
         /\ s + 1 < t => s * p + c + p <= t * p + d
<1>1. s * p + c \in Nat /\ t * p + d \in Nat
  OBVIOUS
<1>2. ASSUME s < t PROVE s * p + c < t * p + d
  <2>1. s * p + p <= t * p
    BY <1>2
  <2> QED BY <1>1, <2>1
<1>3. ASSUME s + 1 < t PROVE s * p + c + p <= t * p + d
  <2>1. s * p + p + p <= t * p
    BY <1>3
  <2> QED BY <1>1, <2>1
<1> QED BY <1>1, <1>2, <1>3

LEMMA TimesOfStamps ==
  ASSUME NEW a \in Nat, NEW b \in Nat, NEW p \in Nat \ {0}
  PROVE  /\ a <= b => a \div p <= b \div p
         /\ a + p <= b => a \div p < b \div p
OBVIOUS

LEMMA RangeIsPositive == ASSUME IdConstants PROVE Ids!Range \in Nat \ {0}
BY DEF IdConstants, Ids!Range

\* A stamp lies in its range, also the complement of one.
LEMMA EncodeTyped ==
  ASSUME IdConstants, NEW t \in Nat, NEW c \in Nat
  PROVE  /\ t * PerMs + c \in Nat
         /\ Ids!Encode(t, c) \in 0..Ids!Range - 1
         /\ Ids!Complement(Ids!Encode(t, c)) \in 0..Ids!Range - 1
<1>1. t * PerMs + c \in Nat
  BY DEF IdConstants
<1>2. \A x \in Nat, r \in Nat \ {0} : x % r \in 0..r - 1
  OBVIOUS
<1>3. Ids!Encode(t, c) \in 0..Ids!Range - 1
  BY <1>1, <1>2, RangeIsPositive DEF Ids!Encode
<1>4. Ids!Complement(Ids!Encode(t, c)) \in 0..Ids!Range - 1
  BY <1>3, RangeIsPositive DEF Ids!Complement
<1> QED BY <1>1, <1>3, <1>4

LEMMA InitIdInv == ASSUME IdConstants, Ids!Init PROVE IdInv
<1>1. ClockTyped
  BY DEF IdConstants, Ids!Init, ClockTyped
<1>2. StampsEncode /\ SinceBreak
  BY DEF Ids!Init, StampsEncode, SinceBreak
<1> QED BY <1>1, <1>2 DEF IdInv

\* What an id is when it is made.
LEMMA NewId ==
  ASSUME IdConstants, IdInv, NEW d \in {"ascending", "descending"}, Len(made) < MaxIds
  PROVE  /\ Ids!Id(d) \in IdRecords
         /\ Ids!Id(d).direction = d /\ Ids!Id(d).at = now /\ Ids!Id(d).breaks = breaks
         /\ Ids!Id(d).count = Ids!Count(now)
         /\ Ids!Id(d).stamp = IF d = "descending" THEN Ids!Complement(Ids!Encode(now, Ids!Count(now)))
                                 ELSE Ids!Encode(now, Ids!Count(now))
         /\ Ids!Count(now) \in 1..Len(made) + 1 + breaks
<1>1. now \in 0..MaxNow /\ breaks \in 0..MaxBreaks /\ Len(made) \in Nat /\ counter \in 0..Len(made) + breaks
  BY DEF IdInv, ClockTyped, IdConstants
<1>2. Ids!Count(now) \in 1..Len(made) + 1 + breaks /\ Ids!Count(now) \in 1..MaxIds + MaxBreaks
  BY <1>1 DEF Ids!Count, IdConstants
<1> DEFINE c == Ids!Count(now)
<1> DEFINE s == IF d = "descending" THEN Ids!Complement(Ids!Encode(now, c)) ELSE Ids!Encode(now, c)
<1>3. Ids!Id(d) = [direction |-> d, at |-> now, count |-> c, breaks |-> breaks, stamp |-> s]
  BY DEF Ids!Id
<1>4. s \in 0..Ids!Range - 1
  <2>1. now \in Nat /\ c \in Nat
    BY <1>1, <1>2
  <2> QED BY <2>1, EncodeTyped
<1>5. Ids!Id(d).stamp = s
  BY <1>3
<1> HIDE DEF c, s
<1>6. Ids!Id(d) \in IdRecords
  BY <1>1, <1>2, <1>3, <1>4 DEF IdRecords, c
<1>7. Ids!Id(d).direction = d /\ Ids!Id(d).at = now /\ Ids!Id(d).breaks = breaks /\ Ids!Id(d).count = c
  BY <1>3
<1> QED BY <1>2, <1>5, <1>6, <1>7 DEF c, s

LEMMA NextIdInv == ASSUME IdConstants, IdInv, [Ids!Next]_idVars PROVE IdInv'
<1>0. /\ now \in Retention..MaxNow /\ lastTimestamp \in 0..MaxNow /\ breaks \in 0..MaxBreaks
      /\ Len(made) \in Nat /\ Len(made) <= MaxIds /\ counter \in 0..Len(made) + breaks /\ made \in Seq(IdRecords)
      /\ Retention \in Nat /\ MaxNow \in Nat /\ MaxIds \in Nat /\ MaxBreaks \in Nat
  BY DEF IdInv, ClockTyped, IdConstants
<1>1. ASSUME NEW d \in {"ascending", "descending"}, Len(made) < MaxIds, Ids!Create(now),
             made' = Append(made, Ids!Id(d)), UNCHANGED <<now, breaks>>,
             outputs' = outputs \/ (d = "ascending" /\ outputs' = outputs \cup {Ids!Id(d)})
      PROVE  IdInv'
  <2>x. PICK id : id = Ids!Id(d)
    OBVIOUS
  <2>y. PICK c : c = Ids!Count(now)
    OBVIOUS
  <2>1. /\ id \in IdRecords /\ id.direction = d /\ id.at = now /\ id.breaks = breaks /\ id.count = c
        /\ id.stamp = IF d = "descending" THEN Ids!Complement(Ids!Encode(now, c)) ELSE Ids!Encode(now, c)
        /\ c \in 1..Len(made) + 1 + breaks
    BY <1>1, <2>x, <2>y, NewId
  <2>2. lastTimestamp' = now /\ counter' = c /\ made' = Append(made, id)
    BY <1>1, <2>x, <2>y DEF Ids!Create
  <2>3. /\ made' \in Seq(IdRecords) /\ Len(made') = Len(made) + 1 /\ made'[Len(made) + 1] = id
        /\ \A i \in 1..Len(made) : made'[i] = made[i]
    BY <1>0, <2>1, <2>2
  <2>4. \A i \in 1..Len(made') : i \in 1..Len(made) \/ i = Len(made) + 1
    BY <1>0, <2>3
  <2>5. ClockTyped'
    <3>1. now' = now /\ breaks' = breaks
      BY <1>1
    <3>2. now' \in Retention..MaxNow /\ lastTimestamp' \in 0..MaxNow /\ breaks' \in 0..MaxBreaks
      BY <1>0, <2>2, <3>1
    <3>3. Len(made') <= MaxIds /\ counter' \in 0..Len(made') + breaks'
      BY <1>0, <1>1, <2>1, <2>2, <2>3, <3>1
    <3> QED BY <2>3, <3>2, <3>3 DEF ClockTyped, IdRecords, Ids!Range
  <2>6. StampsEncode'
    <3>1. ASSUME NEW i \in 1..Len(made')
          PROVE  made'[i].stamp = IF made'[i].direction = "descending" THEN Ids!Complement(Ids!Encode(made'[i].at, made'[i].count))
                                  ELSE Ids!Encode(made'[i].at, made'[i].count)
      <4>1. CASE i \in 1..Len(made)
        BY <2>3, <4>1 DEF IdInv, StampsEncode
      <4>2. CASE i = Len(made) + 1
        BY <2>1, <2>3, <4>2
      <4> QED BY <2>4, <4>1, <4>2
    <3>2. ASSUME NEW output \in outputs' PROVE output.direction = "ascending" /\ \E i \in 1..Len(made') : made'[i] = output
      <4>1. CASE output \in outputs
        <5>1. PICK i \in 1..Len(made) : made[i] = output
          BY <4>1 DEF IdInv, StampsEncode
        <5>2. i \in 1..Len(made')
          BY <1>0, <2>3
        <5> QED BY <2>3, <4>1, <5>1, <5>2 DEF IdInv, StampsEncode
      <4>2. CASE output = id /\ d = "ascending"
        <5>1. Len(made) + 1 \in 1..Len(made')
          BY <1>0, <2>3
        <5> QED BY <2>1, <2>3, <4>2, <5>1
      <4> QED BY <1>1, <2>x, <3>2, <4>1, <4>2
    <3> QED BY <3>1, <3>2 DEF StampsEncode, Ids!Encode, Ids!Complement, Ids!Range
  <2>7. SinceBreak'
    <3>1. ASSUME NEW i \in 1..Len(made')
          PROVE  /\ made'[i].breaks <= breaks'
                 /\ made'[i].breaks = breaks' => made'[i].at <= now'
                 /\ made'[i].breaks = breaks' /\ made'[i].at = now' => lastTimestamp' = now' /\ made'[i].count <= counter'
      <4>0. now' = now /\ breaks' = breaks
        BY <1>1
      <4>1. CASE i \in 1..Len(made)
        <5>1. made'[i] = made[i]
          BY <2>3, <4>1
        <5>2. made[i] \in IdRecords
          BY <1>0, <4>1
        <5>3. /\ made[i].breaks <= breaks
              /\ made[i].breaks = breaks => made[i].at <= now
              /\ made[i].breaks = breaks /\ made[i].at = now => lastTimestamp = now /\ made[i].count <= counter
          BY <4>1 DEF IdInv, SinceBreak
        <5>4. lastTimestamp = now => c = counter + 1
          BY <2>y DEF Ids!Count
        <5>5. made[i].count \in Int
          BY <5>2 DEF IdRecords
        <5>6. lastTimestamp' = now' /\ counter' = c
          BY <2>2, <4>0
        <5>7. made[i].count <= counter /\ lastTimestamp = now => made[i].count <= c
          BY <1>0, <5>4, <5>5
        <5> QED BY <4>0, <5>1, <5>3, <5>6, <5>7
      <4>2. CASE i = Len(made) + 1
        <5>1. made'[i] = id
          BY <2>3, <4>2
        <5> QED BY <1>0, <2>1, <2>2, <4>0, <5>1
      <4> QED BY <2>4, <4>1, <4>2
    <3> QED BY <3>1 DEF SinceBreak
  <2> QED BY <2>5, <2>6, <2>7 DEF IdInv
<1>2. ASSUME NEW d \in {"ascending", "descending"}, Ids!Generate(d) PROVE IdInv'
  BY <1>1, <1>2 DEF Ids!Generate
<1>3. CASE Ids!Write
  BY <1>1, <1>3 DEF Ids!Write
\* What makes no id.
<1>4. ASSUME made' = made, outputs' \in SUBSET outputs, ClockTyped', SinceBreak' PROVE IdInv'
  BY <1>4 DEF IdInv, StampsEncode, Ids!Encode, Ids!Complement, Ids!Range
<1>5. CASE Ids!Cleanup
  <2>1. /\ breaks < MaxBreaks /\ breaks' = breaks + 1 /\ now' = now /\ made' = made /\ outputs' \in SUBSET outputs
        /\ lastTimestamp' = now - Retention /\ counter' = Ids!Count(now - Retention)
    BY <1>5 DEF Ids!Cleanup, Ids!Create
  <2>2. ClockTyped'
    <3>1. counter' \in 0..Len(made) + breaks + 1
      BY <1>0, <2>1 DEF Ids!Count
    <3>2. lastTimestamp' \in 0..MaxNow /\ breaks' \in 0..MaxBreaks
      BY <1>0, <2>1
    <3> QED BY <1>0, <2>1, <3>1, <3>2 DEF ClockTyped, IdRecords, Ids!Range
  <2>3. SinceBreak'
    <3>1. \A i \in 1..Len(made) : made[i] \in IdRecords /\ made[i].breaks <= breaks
      BY <1>0 DEF IdInv, SinceBreak
    <3>2. \A i \in 1..Len(made) : made[i].breaks \in Int
      BY <3>1 DEF IdRecords
    <3>3. \A i \in 1..Len(made) : made[i].breaks <= breaks' /\ made[i].breaks # breaks'
      BY <1>0, <2>1, <3>1, <3>2
    <3> QED BY <2>1, <3>3 DEF SinceBreak
  <2> QED BY <1>4, <2>1, <2>2, <2>3
<1>6. CASE Ids!Tick
  <2>1. now < MaxNow /\ now' = now + 1 /\ UNCHANGED <<lastTimestamp, counter, made, outputs, breaks>>
    BY <1>6 DEF Ids!Tick
  <2>2. ClockTyped'
    BY <1>0, <2>1 DEF ClockTyped, IdRecords, Ids!Range
  <2>3. SinceBreak'
    <3>1. \A i \in 1..Len(made) : made[i] \in IdRecords
      BY <1>0
    <3>2. \A i \in 1..Len(made) : made[i].at \in Int
      BY <3>1 DEF IdRecords
    <3>3. \A i \in 1..Len(made) : made[i].at <= now => made[i].at <= now' /\ made[i].at # now'
      BY <1>0, <2>1, <3>2
    <3>4. breaks' = breaks /\ made' = made
      BY <2>1
    <3> QED BY <3>3, <3>4 DEF IdInv, SinceBreak
  <2> QED BY <1>4, <2>1, <2>2, <2>3
<1>7. CASE Ids!SetBack
  <2>1. breaks < MaxBreaks /\ now > Retention /\ now' = now - 1 /\ breaks' = breaks + 1 /\ UNCHANGED <<lastTimestamp, counter, made, outputs>>
    BY <1>7 DEF Ids!SetBack
  <2>2. ClockTyped'
    BY <1>0, <2>1 DEF ClockTyped, IdRecords, Ids!Range
  <2>3. SinceBreak'
    <3>1. \A i \in 1..Len(made) : made[i] \in IdRecords /\ made[i].breaks <= breaks
      BY <1>0 DEF IdInv, SinceBreak
    <3>2. \A i \in 1..Len(made) : made[i].breaks \in Int
      BY <3>1 DEF IdRecords
    <3>3. \A i \in 1..Len(made) : made[i].breaks <= breaks' /\ made[i].breaks # breaks'
      BY <1>0, <2>1, <3>1, <3>2
    <3> QED BY <2>1, <3>3 DEF SinceBreak
  <2> QED BY <1>4, <2>1, <2>2, <2>3
<1>8. CASE UNCHANGED idVars
  BY <1>8 DEF idVars, IdInv, ClockTyped, StampsEncode, SinceBreak, IdRecords, Ids!Range, Ids!Encode, Ids!Complement
<1> QED BY <1>2, <1>3, <1>5, <1>6, <1>7, <1>8 DEF Ids!Next

\* A new id lies after the ids that it can be compared with.
LEMMA NewIdIsOrdered ==
  ASSUME IdConstants, IdInv, NEW d \in {"ascending", "descending"}, Len(made) < MaxIds,
         NEW i \in 1..Len(made), Ids!Comparable(made[i], Ids!Id(d))
  PROVE  IF d = "ascending" THEN made[i].stamp < Ids!Id(d).stamp ELSE made[i].stamp > Ids!Id(d).stamp
<1>x. PICK prior : prior = made[i]
  OBVIOUS
<1>y. PICK new : new = Ids!Id(d)
  OBVIOUS
<1>0. PerMs \in Nat \ {0} /\ Ids!Range \in Nat \ {0}
  BY RangeIsPositive DEF IdConstants
<1>1. prior \in IdRecords /\ new \in IdRecords
  BY <1>x, <1>y, NewId DEF IdInv, ClockTyped
<1>2. /\ prior.at \in Nat /\ prior.count \in Nat \ {0} /\ prior.breaks \in Nat
      /\ new.at \in Nat /\ new.count \in Nat \ {0} /\ new.breaks \in Nat
  BY <1>1 DEF IdRecords, IdConstants
<1>3. new.direction = d /\ new.at = now /\ new.breaks = breaks /\ new.count = Ids!Count(now)
  BY <1>y, NewId
<1>4. /\ prior.direction = d /\ prior.count <= PerMs
      /\ Ids!Lap(prior) = Ids!Lap(new)
      /\ prior.at < new.at \/ (prior.at = new.at /\ prior.breaks = new.breaks)
  BY <1>x, <1>y, <1>3 DEF Ids!Comparable
<1> DEFINE a == prior.at * PerMs + prior.count
<1> DEFINE b == new.at * PerMs + new.count
<1>5. a \in Nat /\ b \in Nat /\ a < b
  <2>1. prior.count \in 1..PerMs
    BY <1>0, <1>2, <1>4
  <2>2. CASE prior.at < new.at
    BY <1>0, <1>2, <2>1, <2>2, LaterEncodesMore
  <2>3. CASE prior.at = new.at /\ prior.breaks = new.breaks
    <3>1. lastTimestamp = now /\ prior.count <= counter
      BY <1>x, <1>3, <2>3 DEF IdInv, SinceBreak
    <3>2. new.count = counter + 1 /\ counter \in Nat
      BY <1>3, <3>1 DEF Ids!Count, IdInv, ClockTyped, IdConstants
    <3>3. prior.count < new.count
      BY <1>2, <3>1, <3>2
    <3>4. a \in Nat /\ b \in Nat
      BY <1>0, <1>2, <2>1, LaterEncodesMore
    <3>5. prior.at * PerMs = new.at * PerMs /\ new.at * PerMs \in Nat
      BY <1>0, <1>2, <2>3
    <3> QED BY <1>2, <3>3, <3>4, <3>5
  <2> QED BY <1>4, <2>2, <2>3
<1>6. a \div Ids!Range = b \div Ids!Range
  BY <1>4 DEF Ids!Lap
<1> DEFINE e == Ids!Encode(prior.at, prior.count)
<1> DEFINE f == Ids!Encode(new.at, new.count)
<1>7. e = a % Ids!Range /\ f = b % Ids!Range
  BY DEF Ids!Encode
<1> HIDE DEF a, b, e, f
<1>8. e \in Nat /\ f \in Nat /\ e < f
  <2>1. a % Ids!Range \in 0..Ids!Range - 1 /\ b % Ids!Range \in 0..Ids!Range - 1
    BY <1>0, <1>5, <1>6, StampsOfLap
  <2>2. (b % Ids!Range) - (a % Ids!Range) = b - a
    BY <1>0, <1>5, <1>6, StampsOfLap
  <2> QED BY <1>0, <1>5, <1>7, <2>1, <2>2
<1>9. prior.stamp = IF d = "descending" THEN Ids!Complement(e) ELSE e
  BY <1>x, <1>4 DEF IdInv, StampsEncode, e
<1>10. new.stamp = IF d = "descending" THEN Ids!Complement(f) ELSE f
  BY <1>y, <1>3, NewId DEF f
<1>11. Ids!Complement(e) > Ids!Complement(f)
  BY <1>0, <1>8 DEF Ids!Complement
<1> QED BY <1>x, <1>y, <1>8, <1>9, <1>10, <1>11

\* A file's time is compared with the cutoff's as the two stamps are.
LEMMA CleanupKeepsRecent ==
  ASSUME IdConstants, IdInv, NEW output \in outputs, NEW t \in Nat, NEW n \in Nat \ {0},
         Ids!Lap(output) = Ids!Lap([at |-> t, count |-> n]), output.count <= PerMs, n <= PerMs
  PROVE  /\ output.at > t => ~Ids!Expired(output, Ids!Timestamp(Ids!Encode(t, n)))
         /\ output.at + 1 < t => Ids!Expired(output, Ids!Timestamp(Ids!Encode(t, n)))
<1>0. PerMs \in Nat \ {0} /\ Ids!Range \in Nat \ {0}
  BY RangeIsPositive DEF IdConstants
<1>1. PICK i \in 1..Len(made) : made[i] = output
  BY DEF IdInv, StampsEncode
<1>2. output \in IdRecords
  BY <1>1 DEF IdInv, ClockTyped
<1>3. output.at \in Nat /\ output.count \in 1..PerMs /\ n \in 1..PerMs
  BY <1>0, <1>2 DEF IdRecords, IdConstants
<1> DEFINE a == output.at * PerMs + output.count
<1> DEFINE b == t * PerMs + n
<1> DEFINE e == Ids!Encode(output.at, output.count)
<1> DEFINE f == Ids!Encode(t, n)
<1>4. output.stamp = e
  BY <1>1 DEF IdInv, StampsEncode
<1>5. /\ a \in Nat /\ b \in Nat
      /\ t < output.at => b < a
      /\ output.at + 1 < t => a + PerMs <= b
  <2>1. a \in Nat /\ b \in Nat /\ (t < output.at => b < a)
    BY <1>0, <1>3, LaterEncodesMore
  <2>2. output.at + 1 < t => a + PerMs <= b
    BY <1>0, <1>3, LaterEncodesMore
  <2> QED BY <2>1, <2>2
<1>6. a \div Ids!Range = b \div Ids!Range
  BY DEF Ids!Lap
<1>7. e = a % Ids!Range /\ f = b % Ids!Range
  BY DEF Ids!Encode
<1> HIDE DEF a, b, e, f
<1>8. e \in Nat /\ f \in Nat /\ f - e = b - a
  <2>1. a % Ids!Range \in 0..Ids!Range - 1 /\ b % Ids!Range \in 0..Ids!Range - 1
    BY <1>0, <1>5, <1>6, StampsOfLap
  <2>2. (b % Ids!Range) - (a % Ids!Range) = b - a
    BY <1>0, <1>5, <1>6, StampsOfLap
  <2> QED BY <1>0, <1>7, <2>1, <2>2
<1>9. /\ t < output.at => f <= e
      /\ output.at + 1 < t => e + PerMs <= f
  BY <1>0, <1>3, <1>5, <1>8
<1>10. /\ f <= e => f \div PerMs <= e \div PerMs
       /\ e + PerMs <= f => e \div PerMs < f \div PerMs
       /\ e \div PerMs \in Int /\ f \div PerMs \in Int
  <2>1. f <= e => f \div PerMs <= e \div PerMs
    BY <1>0, <1>8, TimesOfStamps
  <2>2. e + PerMs <= f => e \div PerMs < f \div PerMs
    BY <1>0, <1>8, TimesOfStamps
  <2>3. e \div PerMs \in Int /\ f \div PerMs \in Int
    BY <1>0, <1>8
  <2> QED BY <2>1, <2>2, <2>3
<1>11. Ids!Expired(output, Ids!Timestamp(f)) <=> e \div PerMs < f \div PerMs
  BY <1>4 DEF Ids!Expired, Ids!Timestamp
<1> QED BY <1>3, <1>9, <1>10, <1>11 DEF f

(***************************************************************************)
(* The stamps of ids tell their order, over cleanups and a clock that is   *)
(* set back, and the age of the outputs that are named with them: cleanup  *)
(* removes those older than the retention and no others.                   *)
(***************************************************************************)
THEOREM StampsTellOrderAndAge == ASSUME IdConstants PROVE SessionSpec => StampsTell
<1>1. SessionInit => IdInv
  BY InitIdInv, Starts DEF PartsStart
<1>2. IdInv /\ [SessionNext]_sessionVars => IdInv'
  BY NextIdInv, Steps DEF PartsStep
<1>3. IdInv => Ids!TypeOK
  <2>1. ASSUME IdInv PROVE Ids!TypeOK
    <3>1. /\ now \in 0..MaxNow /\ lastTimestamp \in 0..MaxNow /\ counter \in 0..MaxIds + MaxBreaks
          /\ made \in Seq(IdRecords) /\ DOMAIN made = 1..Len(made)
      BY <2>1 DEF IdInv, ClockTyped, IdConstants
    <3>2. outputs \subseteq {made[i] : i \in DOMAIN made}
      BY <2>1, <3>1 DEF IdInv, StampsEncode
    <3> QED BY <3>1, <3>2 DEF Ids!TypeOK, IdRecords
  <2> QED BY <2>1
<1>4. ASSUME IdInv, [Ids!Next]_idVars
      PROVE  [\A i \in DOMAIN made :
                 LET new == made'[Len(made')]
                 IN  made' # made /\ Ids!Comparable(made[i], new) =>
                        IF new.direction = "ascending" THEN made[i].stamp < new.stamp
                        ELSE made[i].stamp > new.stamp]_idVars
  <2>1. SUFFICES ASSUME NEW i \in DOMAIN made, made' # made, Ids!Comparable(made[i], made'[Len(made')])
                 PROVE  IF made'[Len(made')].direction = "ascending"
                        THEN made[i].stamp < made'[Len(made')].stamp ELSE made[i].stamp > made'[Len(made')].stamp
    OBVIOUS
  <2>2. PICK d \in {"ascending", "descending"} : Len(made) < MaxIds /\ made' = Append(made, Ids!Id(d))
    BY <1>4, <2>1 DEF Ids!Next, Ids!Generate, Ids!Write, Ids!Cleanup, Ids!Tick, Ids!SetBack, idVars
  <2>3. made \in Seq(IdRecords) /\ i \in 1..Len(made)
    BY <1>4, <2>1 DEF IdInv, ClockTyped
  <2>4. Ids!Id(d) \in IdRecords /\ Ids!Id(d).direction = d
    BY <1>4, <2>2, NewId
  <2>5. made'[Len(made')] = Ids!Id(d)
    BY <2>2, <2>3, <2>4
  <2> QED BY <1>4, <2>1, <2>2, <2>3, <2>4, <2>5, NewIdIsOrdered
<1>5. ASSUME IdInv, [Ids!Next]_idVars
      PROVE  [LET limit == [at |-> now - Retention, count |-> Ids!Count(now - Retention)]
              IN  Ids!Cleanup => \A output \in outputs :
                     Ids!Lap(output) = Ids!Lap(limit) /\ output.count <= PerMs /\ limit.count <= PerMs =>
                         /\ output.at > limit.at => output \in outputs'
                         /\ output.at + 1 < limit.at => output \notin outputs']_idVars
  <2> DEFINE t == now - Retention
  <2> DEFINE n == Ids!Count(t)
  <2>1. SUFFICES ASSUME Ids!Cleanup, NEW output \in outputs, Ids!Lap(output) = Ids!Lap([at |-> t, count |-> n]),
                        output.count <= PerMs, n <= PerMs
                 PROVE  (output.at > t => output \in outputs') /\ (output.at + 1 < t => output \notin outputs')
    OBVIOUS
  <2>2. t \in Nat /\ n \in Nat \ {0}
    BY <1>5 DEF IdInv, ClockTyped, IdConstants, Ids!Count
  <2>3. outputs' = {x \in outputs : ~Ids!Expired(x, Ids!Timestamp(Ids!Encode(t, n)))}
    BY <2>1 DEF Ids!Cleanup
  <2> HIDE DEF t, n
  <2> QED BY <1>5, <2>1, <2>2, <2>3, CleanupKeepsRecent
<1>6. [SessionNext]_sessionVars => [Ids!Next]_idVars
  BY Steps DEF PartsStep
<1>7. SessionSpec => []IdInv
  BY <1>1, <1>2, PTL DEF SessionSpec
<1>8. SessionSpec => [][Ids!Next]_idVars
  BY <1>6, PTL DEF SessionSpec
<1>9. SessionSpec => []Ids!TypeOK
  BY <1>3, <1>7, PTL
<1>10. SessionSpec => Ids!IdsOrdered
  BY <1>4, <1>7, <1>8, PTL DEF Ids!IdsOrdered, Ids!idvars, idVars
<1>11. SessionSpec => Ids!RetentionKept
  BY <1>5, <1>7, <1>8, PTL DEF Ids!RetentionKept, Ids!idvars, idVars
<1> QED BY <1>9, <1>10, <1>11 DEF StampsTell, Ids!StampsTell

-----------------------------------------------------------------------------
(* The events of an instance, for any number of connections, events and    *)
(* heartbeats.  What a connection is still to be told waits in its queue,  *)
(* behind it in what its fiber has taken, and behind that in its           *)
(* subscription: the events in the three follow one another.               *)

StreamConstants ==
    /\ Connections \cap Globals = {}
    /\ MaxEvents \in Nat /\ MaxBeats \in Nat

Items ==
    [type : {"event", "server.instance.disposed", "server.connected", "server.heartbeat", "null"}, n : Nat]

Queues ==
    [at : {"none", "open", "closed"}, since : Nat, queue : Seq(Items), written : Seq(Items), beats : 0..MaxBeats,
     done : BOOLEAN, late : BOOLEAN]

Subscriptions == [at : {"none", "on", "last", "off"}, buffer : Seq(Items), chunk : Seq(Items)]

Has(line, x) == \E i \in DOMAIN line : line[i] = x

\* How far what was written goes, what is queued, and what the fiber has taken.
Marks(g, s, n, w, q, k) ==
    /\ w \in Nat /\ q \in Nat /\ k \in Nat
    /\ g.since <= w /\ w <= q /\ q <= k /\ k <= n
    /\ Stream!InOrder(g.written, g.since, w)
    /\ Has(g.written, Stream!Disposed) => w = n
    /\ g.at = "open" =>
        /\ Stream!InOrder(g.queue, w, q)
        /\ Has(g.queue, Stream!Disposed) => q = n
    /\ g.at = "open" /\ s.at \in {"on", "last"} =>
        /\ Stream!InOrder(s.chunk, q, k)
        /\ Has(s.chunk, Stream!Disposed) => k = n
    /\ g.at = "open" /\ s.at = "on" => Stream!InOrder(s.buffer, k, n)

\* One of /global/event is called back at once, as long as it listens.
Direct(g) == [at |-> IF g.done THEN "off" ELSE "on", buffer |-> <<>>, chunk |-> <<>>]

Sub(c) == IF c \in Connections THEN sub[c] ELSE Direct(conn[c])

\* The word that the instance is gone is the last of all.
GoneIsLast(g, s, b) ==
    /\ s.at = "on" => b = "up"
    /\ s.at = "last" => b = "down"
    /\ s.at # "on" => s.buffer = <<>>
    /\ s.at \in {"none", "off"} => s.chunk = <<>>
    /\ ~Has(s.buffer, Stream!Disposed)
    /\ ~Has(s.buffer, Stream!Null) /\ ~Has(s.chunk, Stream!Null)
    /\ Has(s.chunk, Stream!Disposed) => Len(s.chunk) = 1 /\ s.at = "last"
    /\ Has(g.written, Stream!Disposed) \/ Has(g.queue, Stream!Disposed) =>
          g.done /\ s.chunk = <<>> /\ s.at \in {"last", "off"} /\ b = "down"
    /\ \A i \in DOMAIN g.written : g.written[i] = Stream!Disposed => i = Len(g.written)
    /\ Has(g.written, Stream!Disposed) => \A i \in DOMAIN g.queue : g.queue[i] = Stream!Null
    /\ \A i \in DOMAIN g.queue : g.queue[i] = Stream!Disposed =>
          \A j \in i + 1..Len(g.queue) : g.queue[j] = Stream!Null

\* So is the one that it is connected the first, and null the end.
Begins(g) ==
    /\ g.written # <<>> => g.written[1] = Stream!Connected
    /\ g.at = "open" /\ g.written = <<>> => g.queue # <<>> /\ g.queue[1] = Stream!Connected
    /\ g.at = "none" => g.written = <<>> /\ ~g.done
    /\ g.at = "closed" \/ Has(g.queue, Stream!Null) => g.done

Unsaid(g) == ~Has(g.written, Stream!Disposed) /\ ~Has(g.queue, Stream!Disposed)

\* What holds of a connection whose subscription is s.
Served(c, g, s) ==
    /\ g \in Queues /\ s \in Subscriptions
    /\ g.since <= MaxEvents /\ Begins(g)
    /\ \E w, q, k \in Nat : Marks(g, s, published, w, q, k)
    /\ c \in Connections => GoneIsLast(g, s, bus) /\ (g.at = "none" => s.at = "none")
    /\ c \in Globals => Unsaid(g)

StreamInv ==
    /\ bus \in {"up", "down"} /\ published \in 0..MaxEvents
    /\ sub \in [Connections -> Subscriptions] /\ conn \in [Connections \cup Globals -> Queues]
    /\ \A c \in Connections \cup Globals : Served(c, conn[c], Sub(c))

LEMMA WordsAreItems ==
    /\ \A n \in Nat : Stream!Event(n) \in Items /\ Stream!Event(n).type = "event" /\ Stream!Event(n).n = n
    /\ \A x \in Items : x.type = "event" => x = Stream!Event(x.n)
    /\ \A x \in {Stream!Disposed, Stream!Connected, Stream!Heartbeat, Stream!Null} : x \in Items /\ x.type # "event"
    /\ Stream!Disposed # Stream!Null /\ Stream!Disposed # Stream!Connected /\ Stream!Disposed # Stream!Heartbeat
    /\ Stream!Connected # Stream!Null /\ Stream!Heartbeat # Stream!Null
    /\ \A n \in Nat : Stream!Event(n) # Stream!Null /\ Stream!Event(n) # Stream!Disposed
BY DEF Items, Stream!Event, Stream!Word, Stream!Disposed, Stream!Connected, Stream!Heartbeat, Stream!Null

LEMMA NothingInOrder ==
  ASSUME NEW a \in Nat, NEW b \in Nat, a <= b
  PROVE  Stream!InOrder(<<>>, a, b) <=> a = b
<1>1. DOMAIN <<>> = {}
  OBVIOUS
<1>2. ASSUME a = b PROVE Stream!InOrder(<<>>, a, b)
  BY <1>1, <1>2 DEF Stream!InOrder
<1>3. ASSUME Stream!InOrder(<<>>, a, b) PROVE a = b
  <2>1. a + 1..b = {}
    BY <1>1, <1>3 DEF Stream!InOrder
  <2> QED BY <2>1
<1> QED BY <1>2, <1>3

LEMMA WordInOrder ==
  ASSUME NEW line \in Seq(Items), NEW a \in Nat, NEW b \in Nat, Stream!InOrder(line, a, b),
         NEW x \in Items, x.type # "event"
  PROVE  Stream!InOrder(Append(line, x), a, b)
<1> DEFINE Longer == Append(line, x)
<1>1. PICK m \in Nat : m = Len(line)
  OBVIOUS
<1>2. DOMAIN line = 1..m /\ DOMAIN Longer = 1..m + 1 /\ Longer[m + 1] = x /\ \A i \in 1..m : Longer[i] = line[i]
  BY <1>1
<1> HIDE DEF Longer
<1>3. ASSUME NEW i \in 1..m + 1, Longer[i].type = "event"
      PROVE  Longer[i].n \in a + 1..b /\ \A j \in 1..i - 1 : Longer[j].type = "event" => Longer[j].n < Longer[i].n
  <2>1. i \in 1..m
    BY <1>1, <1>2, <1>3
  <2>2. \A j \in 1..i - 1 : j \in 1..m
    BY <1>1, <2>1
  <2> QED BY <1>2, <1>3, <2>1, <2>2 DEF Stream!InOrder
<1>4. ASSUME NEW n \in a + 1..b PROVE \E i \in 1..m + 1 : Longer[i] = Stream!Event(n)
  <2>1. PICK i \in 1..m : line[i] = Stream!Event(n)
    BY <1>2 DEF Stream!InOrder
  <2> QED BY <1>1, <1>2, <2>1
<1>5. Stream!InOrder(Longer, a, b)
  BY <1>2, <1>3, <1>4 DEF Stream!InOrder
<1> QED BY <1>5 DEF Longer

LEMMA EventInOrder ==
  ASSUME NEW line \in Seq(Items), NEW a \in Nat, NEW b \in Nat, a <= b, Stream!InOrder(line, a, b)
  PROVE  Stream!InOrder(Append(line, Stream!Event(b + 1)), a, b + 1)
<1> DEFINE Longer == Append(line, Stream!Event(b + 1))
<1>1. PICK m \in Nat : m = Len(line)
  OBVIOUS
<1>0. Stream!Event(b + 1) \in Items /\ Stream!Event(b + 1).n = b + 1
  BY WordsAreItems
<1>2. DOMAIN line = 1..m /\ DOMAIN Longer = 1..m + 1 /\ Longer[m + 1] = Stream!Event(b + 1)
      /\ \A i \in 1..m : Longer[i] = line[i] /\ line[i] \in Items
  BY <1>0, <1>1
<1> HIDE DEF Longer
<1>3. ASSUME NEW i \in 1..m, Longer[i].type = "event"
      PROVE  Longer[i].n \in a + 1..b /\ \A j \in 1..i - 1 : Longer[j].type = "event" => Longer[j].n < Longer[i].n
  <2>1. \A j \in 1..i - 1 : j \in 1..m
    BY <1>1
  <2> QED BY <1>2, <1>3, <2>1 DEF Stream!InOrder
<1>4. ASSUME NEW i \in 1..m + 1, Longer[i].type = "event"
      PROVE  Longer[i].n \in a + 1..b + 1 /\ \A j \in 1..i - 1 : Longer[j].type = "event" => Longer[j].n < Longer[i].n
  <2>1. CASE i \in 1..m
    <3>1. Longer[i].n \in a + 1..b
      BY <1>3, <1>4, <2>1
    <3>2. Longer[i].n \in a + 1..b + 1
      BY <3>1
    <3> QED BY <1>3, <1>4, <2>1, <3>2
  <2>2. CASE i = m + 1
    <3>1. Longer[i].n = b + 1
      BY <1>0, <1>2, <2>2
    <3>2. ASSUME NEW j \in 1..i - 1, Longer[j].type = "event" PROVE Longer[j].n < b + 1
      <4>1. j \in 1..m
        BY <1>1, <2>2
      <4>2. Longer[j].n \in a + 1..b
        BY <1>3, <3>2, <4>1
      <4> QED BY <4>2
    <3> QED BY <3>1, <3>2
  <2> QED BY <1>1, <2>1, <2>2
<1>5. ASSUME NEW n \in a + 1..b + 1 PROVE \E i \in 1..m + 1 : Longer[i] = Stream!Event(n)
  <2>1. CASE n = b + 1
    BY <1>1, <1>2, <2>1
  <2>2. CASE n \in a + 1..b
    <3>1. PICK i \in 1..m : line[i] = Stream!Event(n)
      BY <1>2, <2>2 DEF Stream!InOrder
    <3> QED BY <1>1, <1>2, <3>1
  <2> QED BY <2>1, <2>2
<1>6. Stream!InOrder(Longer, a, b + 1)
  BY <1>2, <1>4, <1>5 DEF Stream!InOrder
<1> QED BY <1>6 DEF Longer

\* The first of a line is the next event, or none.
LEMMA FirstInOrder ==
  ASSUME NEW line \in Seq(Items), line # <<>>, NEW a \in Nat, NEW b \in Nat, Stream!InOrder(line, a, b)
  PROVE  IF Head(line).type = "event"
         THEN a + 1 <= b /\ Head(line) = Stream!Event(a + 1) /\ Stream!InOrder(Tail(line), a + 1, b)
         ELSE Stream!InOrder(Tail(line), a, b)
<1> DEFINE Rest == Tail(line)
<1>1. PICK m \in Nat : Len(line) = m + 1
  <2>1. Len(line) \in Nat /\ Len(line) # 0
    OBVIOUS
  <2>2. Len(line) - 1 \in Nat /\ Len(line) = (Len(line) - 1) + 1
    BY <2>1
  <2> QED BY <2>2
<1>2. DOMAIN line = 1..m + 1 /\ DOMAIN Rest = 1..m /\ Head(line) = line[1]
      /\ (\A i \in 1..m : Rest[i] = line[i + 1]) /\ \A i \in 1..m + 1 : line[i] \in Items
  BY <1>1, HeadTailProperties
<1> HIDE DEF Rest
<1>3. \A i, j \in 1..m + 1 : i < j /\ line[i].type = "event" /\ line[j].type = "event" => line[i].n < line[j].n
  <2>1. \A i, j \in 1..m + 1 : i < j => i \in 1..j - 1
    BY <1>1
  <2> QED BY <1>2, <2>1 DEF Stream!InOrder
<1>4. \A i \in 1..m + 1 : line[i].type = "event" => line[i].n \in a + 1..b
  BY <1>2 DEF Stream!InOrder
<1>5. \A n \in a + 1..b : \E i \in 1..m + 1 : line[i] = Stream!Event(n)
  BY <1>2 DEF Stream!InOrder
<1>6. \A i \in 1..m : i + 1 \in 1..m + 1
  BY <1>1
<1>7. \A i \in 1..m : \A j \in 1..i - 1 : j \in 1..m /\ j + 1 < i + 1
  BY <1>1
<1>8. CASE Head(line).type = "event"
  <2>1. line[1].n \in a + 1..b /\ line[1].type = "event" /\ 1 \in 1..m + 1
    BY <1>1, <1>2, <1>4, <1>8
  <2>2. a + 1 \in a + 1..b
    BY <2>1
  <2>3. PICK i \in 1..m + 1 : line[i] = Stream!Event(a + 1)
    BY <1>5, <2>2
  <2>4. line[i].type = "event" /\ line[i].n = a + 1
    BY <2>3, WordsAreItems
  <2>5. ~(1 < i)
    <3>1. 1 < i => line[1].n < line[i].n
      BY <1>3, <2>1, <2>4
    <3> QED BY <2>1, <2>4, <3>1
  <2>6. i = 1
    BY <1>1, <2>5
  <2>7. ASSUME NEW j \in 1..m, Rest[j].type = "event" PROVE Rest[j].n \in a + 2..b
    <3>1. line[j + 1].type = "event" /\ j + 1 \in 1..m + 1 /\ 1 < j + 1
      BY <1>1, <1>2, <2>7
    <3>2. line[1].n < line[j + 1].n
      BY <1>3, <2>1, <3>1
    <3>3. line[j + 1].n \in a + 1..b
      BY <1>4, <3>1
    <3>4. line[j + 1].n \in a + 2..b
      BY <2>4, <2>6, <3>2, <3>3
    <3> QED BY <1>2, <3>4
  <2>8. ASSUME NEW n \in a + 2..b PROVE \E j \in 1..m : Rest[j] = Stream!Event(n)
    <3>1. n \in a + 1..b
      OBVIOUS
    <3>2. PICK h \in 1..m + 1 : line[h] = Stream!Event(n)
      BY <1>5, <3>1
    <3>3. h # 1
      BY <2>4, <2>6, <3>1, <3>2, WordsAreItems
    <3>4. h - 1 \in 1..m /\ (h - 1) + 1 = h
      BY <1>1, <3>3
    <3> QED BY <1>2, <3>2, <3>4
  <2>9. \A j \in 1..m : Rest[j].type = "event" =>
            \A h \in 1..j - 1 : Rest[h].type = "event" => Rest[h].n < Rest[j].n
    BY <1>2, <1>3, <1>6, <1>7
  <2>10. a + 1 + 1 = a + 2
    OBVIOUS
  <2>11. Stream!InOrder(Rest, a + 1, b)
    BY <1>2, <2>7, <2>8, <2>9, <2>10 DEF Stream!InOrder
  <2>12. a + 1 <= b
    BY <2>1
  <2> QED BY <1>2, <1>8, <2>3, <2>6, <2>11, <2>12 DEF Rest
<1>9. CASE Head(line).type # "event"
  <2>1. ASSUME NEW n \in a + 1..b PROVE \E j \in 1..m : Rest[j] = Stream!Event(n)
    <3>2. PICK h \in 1..m + 1 : line[h] = Stream!Event(n)
      BY <1>5
    <3>3. h # 1
      BY <1>2, <1>9, <3>2, WordsAreItems
    <3>4. h - 1 \in 1..m /\ (h - 1) + 1 = h
      BY <1>1, <3>3
    <3> QED BY <1>2, <3>2, <3>4
  <2>2. \A j \in 1..m : Rest[j].type = "event" =>
            \A h \in 1..j - 1 : Rest[h].type = "event" => Rest[h].n < Rest[j].n
    BY <1>2, <1>3, <1>6, <1>7
  <2>3. Stream!InOrder(Rest, a, b)
    BY <1>2, <1>4, <1>6, <2>1, <2>2 DEF Stream!InOrder
  <2> QED BY <1>9, <2>3 DEF Rest
<1> QED BY <1>8, <1>9

LEMMA HasAppended ==
  ASSUME NEW line \in Seq(Items), NEW x \in Items, NEW y
  PROVE  Has(Append(line, x), y) <=> Has(line, y) \/ x = y
<1>1. PICK m \in Nat : m = Len(line)
  OBVIOUS
<1>2. DOMAIN line = 1..m /\ DOMAIN Append(line, x) = 1..m + 1 /\ Append(line, x)[m + 1] = x
      /\ \A i \in 1..m : Append(line, x)[i] = line[i]
  BY <1>1
<1>3. 1..m + 1 = (1..m) \cup {m + 1}
  BY <1>1
<1> QED BY <1>2, <1>3 DEF Has

LEMMA HasRest ==
  ASSUME NEW line \in Seq(Items), line # <<>>, NEW y, Has(Tail(line), y)
  PROVE  Has(line, y)
<1>1. PICK i \in 1..Len(line) - 1 : Tail(line)[i] = y
  BY HeadTailProperties DEF Has
<1>2. i + 1 \in DOMAIN line /\ Tail(line)[i] = line[i + 1]
  BY HeadTailProperties
<1> QED BY <1>1, <1>2 DEF Has

LEMMA HasFirst ==
  ASSUME NEW line \in Seq(Items), line # <<>>
  PROVE  Has(line, Head(line))
BY HeadTailProperties DEF Has

LEMMA HasNothing == \A y : ~Has(<<>>, y)
BY DEF Has

LEMMA NoEvents ==
  ASSUME NEW line \in Seq(Items), NEW a \in Nat, NEW b \in Nat, a <= b, Stream!InOrder(line, a, b),
         \A i \in DOMAIN line : line[i].type # "event"
  PROVE  a = b
<1>1. ASSUME NEW n \in a + 1..b PROVE FALSE
  <2>1. PICK i \in DOMAIN line : line[i] = Stream!Event(n)
    BY DEF Stream!InOrder
  <2> QED BY <2>1 DEF Stream!Event
<1>2. ~(a + 1 <= b)
  BY <1>1
<1> QED BY <1>2

\* What is put behind a queue that does not hold the word yet leaves it the last.
LEMMA StillLast ==
  ASSUME NEW line \in Seq(Items), ~Has(line, Stream!Disposed), NEW x \in Items
  PROVE  \A i \in DOMAIN Append(line, x) : Append(line, x)[i] = Stream!Disposed =>
             \A j \in i + 1..Len(Append(line, x)) : Append(line, x)[j] = Stream!Null
<1> DEFINE Longer == Append(line, x)
<1>1. PICK m \in Nat : m = Len(line)
  OBVIOUS
<1>2. DOMAIN line = 1..m /\ DOMAIN Longer = 1..m + 1 /\ Len(Longer) = m + 1 /\ \A i \in 1..m : Longer[i] = line[i]
  BY <1>1
<1> HIDE DEF Longer
<1>3. ASSUME NEW i \in 1..m + 1, Longer[i] = Stream!Disposed PROVE \A j \in i + 1..m + 1 : Longer[j] = Stream!Null
  <2>1. i \notin 1..m
    BY <1>2, <1>3 DEF Has
  <2>2. i = m + 1
    BY <1>1, <2>1
  <2> QED BY <1>1, <2>2
<1>4. \A i \in DOMAIN Longer : Longer[i] = Stream!Disposed => \A j \in i + 1..Len(Longer) : Longer[j] = Stream!Null
  BY <1>2, <1>3
<1> QED BY <1>4 DEF Longer

LEMMA OnlyNullFollows ==
  ASSUME NEW line \in Seq(Items), ~Has(line, Stream!Disposed)
  PROVE  LET longer == Append(Append(line, Stream!Disposed), Stream!Null)
         IN  \A i \in DOMAIN longer : longer[i] = Stream!Disposed =>
                 \A j \in i + 1..Len(longer) : longer[j] = Stream!Null
<1> DEFINE Longer == Append(Append(line, Stream!Disposed), Stream!Null)
<1>0. Stream!Disposed \in Items /\ Stream!Null \in Items
  BY WordsAreItems
<1>1. PICK m \in Nat : m = Len(line)
  OBVIOUS
<1>2. DOMAIN line = 1..m /\ DOMAIN Longer = 1..m + 2 /\ Len(Longer) = m + 2
      /\ (\A i \in 1..m : Longer[i] = line[i]) /\ Longer[m + 2] = Stream!Null
  BY <1>0, <1>1
<1> HIDE DEF Longer
<1>3. ASSUME NEW i \in 1..m + 2, Longer[i] = Stream!Disposed PROVE \A j \in i + 1..m + 2 : Longer[j] = Stream!Null
  <2>1. i \notin 1..m
    BY <1>2, <1>3 DEF Has
  <2>2. \A j \in i + 1..m + 2 : j = m + 2
    BY <1>1, <2>1
  <2> QED BY <1>2, <2>2
<1>4. \A i \in DOMAIN Longer : Longer[i] = Stream!Disposed => \A j \in i + 1..Len(Longer) : Longer[j] = Stream!Null
  BY <1>2, <1>3
<1> QED BY <1>4 DEF Longer

LEMMA InitStreamInv == ASSUME StreamConstants, Stream!Init PROVE StreamInv
<1>1. ASSUME NEW c \in Connections \cup Globals PROVE conn[c] = Stream!Unconnected
  BY <1>1 DEF Stream!Init, Stream!All
<1>2. ASSUME NEW c \in Connections PROVE sub[c] = Stream!NoSubscription
  BY <1>2 DEF Stream!Init
<1>3. <<>> \in Seq(Items) /\ ~Has(<<>>, Stream!Disposed) /\ ~Has(<<>>, Stream!Null) /\ DOMAIN <<>> = {}
  BY HasNothing
<1>4. Stream!Unconnected \in Queues /\ Stream!NoSubscription \in Subscriptions /\ Direct(Stream!Unconnected) \in Subscriptions
  BY <1>3 DEF StreamConstants, Queues, Subscriptions, Stream!Unconnected, Stream!NoSubscription, Direct
<1>5. Stream!Unconnected.since <= MaxEvents /\ Begins(Stream!Unconnected) /\ Unsaid(Stream!Unconnected)
  BY <1>3 DEF StreamConstants, Begins, Unsaid, Stream!Unconnected
<1>6. Stream!InOrder(<<>>, 0, 0)
  BY NothingInOrder
<1>7. ASSUME NEW s \in Subscriptions PROVE Marks(Stream!Unconnected, s, 0, 0, 0, 0)
  BY <1>3, <1>6 DEF Marks, Stream!Unconnected
<1>8. GoneIsLast(Stream!Unconnected, Stream!NoSubscription, bus)
  BY <1>3 DEF GoneIsLast, Stream!Unconnected, Stream!NoSubscription
<1>9. ASSUME NEW c \in Connections \cup Globals PROVE Served(c, conn[c], Sub(c))
  <2>1. published = 0
    BY DEF Stream!Init
  <2>2. CASE c \in Connections
    <3>1. Sub(c) = Stream!NoSubscription /\ conn[c] = Stream!Unconnected /\ c \notin Globals
      BY <1>1, <1>2, <2>2 DEF Sub, StreamConstants
    <3>2. Sub(c).at = "none"
      BY <3>1 DEF Stream!NoSubscription
    <3> QED BY <1>4, <1>5, <1>7, <1>8, <2>1, <3>1, <3>2 DEF Served
  <2>3. CASE c \notin Connections
    <3>1. Sub(c) = Direct(Stream!Unconnected) /\ conn[c] = Stream!Unconnected
      BY <1>1, <2>3 DEF Sub
    <3> QED BY <1>4, <1>5, <1>7, <2>1, <2>3, <3>1 DEF Served
  <2> QED BY <2>2, <2>3
<1>10. conn \in [Connections \cup Globals -> Queues] /\ sub \in [Connections -> Subscriptions]
  BY <1>4 DEF Stream!Init, Stream!All
<1> QED BY <1>9, <1>10 DEF StreamInv, Stream!Init, StreamConstants

\* A step of one connection leaves the others as they are.
LEMMA OneConnection ==
  ASSUME StreamConstants, StreamInv, UNCHANGED <<bus, published>>,
         NEW c \in Connections \cup Globals, NEW g, NEW s,
         conn' = [conn EXCEPT ![c] = g],
         c \in Connections => sub' = [sub EXCEPT ![c] = s],
         c \notin Connections => sub' = sub /\ s = Direct(g),
         Served(c, g, s)
  PROVE  StreamInv'
<1>1. g \in Queues /\ s \in Subscriptions
  BY DEF Served
<1>2. conn' \in [Connections \cup Globals -> Queues] /\ sub' \in [Connections -> Subscriptions]
  BY <1>1 DEF StreamInv
<1>3. ASSUME NEW d \in Connections \cup Globals PROVE Served(d, conn'[d], Sub(d)')
  <2>1. CASE d = c
    <3>1. conn'[d] = g
      BY <2>1 DEF StreamInv
    <3>2. Sub(d)' = s
      BY <2>1, <3>1 DEF StreamInv, Sub
    <3> QED BY <2>1, <3>1, <3>2
  <2>2. CASE d # c
    <3>1. conn'[d] = conn[d]
      BY <2>2 DEF StreamInv
    <3>2. Sub(d)' = Sub(d)
      BY <2>2, <3>1 DEF StreamInv, Sub
    <3> QED BY <3>1, <3>2 DEF StreamInv
  <2> QED BY <2>1, <2>2
<1>4. ASSUME NEW d \in Connections \cup Globals PROVE Served(d, conn[d], Sub(d))'
  BY <1>3 DEF Served
<1> QED BY <1>2, <1>4 DEF StreamInv

LEMMA OpenKeeps ==
  ASSUME StreamConstants, StreamInv, NEW c \in Connections \cup Globals, Stream!Open(c)
  PROVE  StreamInv'
<1> DEFINE g == [[Stream!Push(Stream!Unconnected, Stream!Connected) EXCEPT !.at = "open"] EXCEPT !.since = published]
           s == IF c \in Connections THEN [sub[c] EXCEPT !.at = "on"] ELSE Direct(g)
<1>1. conn' = [conn EXCEPT ![c] = g] /\ UNCHANGED <<bus, published>> /\ conn[c].at = "none"
  BY DEF Stream!Open
<1>2. Stream!Connected \in Items /\ Stream!Connected.type # "event" /\ Stream!Connected # Stream!Disposed
      /\ Stream!Connected # Stream!Null
  BY WordsAreItems
<1>3. published \in Nat /\ published <= MaxEvents
  BY DEF StreamInv, StreamConstants
<1>4. <<>> \in Seq(Items) /\ Append(<<>>, Stream!Connected) \in Seq(Items) /\ 0 \in 0..MaxBeats
  BY <1>2 DEF StreamConstants
<1>5. PICK u \in Queues : u = Stream!Unconnected
  BY <1>4 DEF Stream!Unconnected, Queues
<1>6. /\ g \in Queues /\ g.at = "open" /\ g.since = published /\ g.queue = Append(<<>>, Stream!Connected)
      /\ g.written = <<>> /\ ~g.done
  <2>1. PICK v : v = Stream!Push(u, Stream!Connected)
    OBVIOUS
  <2>2. u.queue = <<>> /\ u.written = <<>> /\ ~u.done
    BY <1>5 DEF Stream!Unconnected
  <2>3. v \in Queues /\ v.queue = Append(<<>>, Stream!Connected) /\ v.written = <<>> /\ ~v.done
    BY <1>4, <2>1, <2>2 DEF Stream!Push, Queues
  <2>4. g = [[v EXCEPT !.at = "open"] EXCEPT !.since = published]
    BY <1>5, <2>1
  <2> HIDE DEF g, s
  <2> QED BY <1>3, <2>3, <2>4 DEF Queues
<1>7. Append(<<>>, Stream!Connected) # <<>> /\ Append(<<>>, Stream!Connected)[1] = Stream!Connected
  OBVIOUS
<1>8. ~Has(g.queue, Stream!Disposed) /\ ~Has(g.queue, Stream!Null) /\ ~Has(g.written, Stream!Disposed)
  <2>1. \A y : Has(Append(<<>>, Stream!Connected), y) <=> Has(<<>>, y) \/ Stream!Connected = y
    BY <1>2, <1>4, HasAppended
  <2>2. ~Has(Append(<<>>, Stream!Connected), Stream!Disposed) /\ ~Has(Append(<<>>, Stream!Connected), Stream!Null)
    BY <1>2, <2>1, HasNothing
  <2> HIDE DEF g, s
  <2> QED BY <1>6, <2>2, HasNothing
<1>9. Begins(g) /\ Unsaid(g) /\ g.since <= MaxEvents
  BY <1>3, <1>6, <1>7, <1>8 DEF Begins, Unsaid
<1>10. s \in Subscriptions /\ s.chunk = <<>> /\ s.buffer = <<>> /\ s.at = "on"
  <2>1. CASE c \in Connections
    <3>1. Sub(c) = sub[c] /\ sub[c] \in Subscriptions /\ sub[c].chunk = <<>> /\ sub[c].buffer = <<>>
      BY <1>1, <2>1 DEF StreamInv, Served, GoneIsLast, Sub
    <3>2. s = [sub[c] EXCEPT !.at = "on"]
      BY <2>1
    <3> HIDE DEF s
    <3> QED BY <3>1, <3>2 DEF Subscriptions
  <2>2. CASE c \notin Connections
    <3>1. s = [at |-> "on", buffer |-> <<>>, chunk |-> <<>>]
      BY <1>6, <2>2 DEF Direct
    <3> HIDE DEF s
    <3> QED BY <1>4, <3>1 DEF Subscriptions
  <2> QED BY <2>1, <2>2
<1>11. c \in Connections => bus = "up" /\ sub' = [sub EXCEPT ![c] = s]
  <2>1. CASE c \in Connections
    <3>1. sub' = [sub EXCEPT ![c].at = "on"] /\ bus = "up"
      BY <2>1 DEF Stream!Open
    <3>2. s = [sub[c] EXCEPT !.at = "on"]
      BY <2>1
    <3> QED BY <3>1, <3>2
  <2> QED BY <2>1
<1>12. c \notin Connections => sub' = sub /\ s = Direct(g)
  BY DEF Stream!Open
<1> HIDE DEF g, s
<1>13. Marks(g, s, published, published, published, published)
  <2>1. Stream!InOrder(<<>>, published, published)
    BY <1>3, NothingInOrder
  <2>2. Stream!InOrder(g.queue, published, published)
    BY <1>2, <1>3, <1>4, <1>6, <2>1, WordInOrder
  <2> QED BY <1>3, <1>6, <1>8, <1>10, <2>1, <2>2, HasNothing DEF Marks
<1>14. c \in Connections => GoneIsLast(g, s, bus)
  BY <1>6, <1>8, <1>10, <1>11, HasNothing DEF GoneIsLast, Has
<1>15. Served(c, g, s)
  BY <1>3, <1>6, <1>9, <1>10, <1>13, <1>14 DEF Served
<1> QED BY <1>1, <1>11, <1>12, <1>15, OneConnection

\* A word is put behind a queue that nothing has ended yet.
LEMMA Queued ==
  ASSUME StreamConstants, StreamInv, NEW c \in Connections \cup Globals, conn[c].at = "open", ~conn[c].done,
         NEW x \in {Stream!Heartbeat, Stream!Null}, NEW g \in Queues, NEW s \in Subscriptions,
         g.at = "open", g.since = conn[c].since, g.queue = Append(conn[c].queue, x), g.written = conn[c].written,
         x = Stream!Null => g.done,
         s = Sub(c) \/ (s = Direct(g) /\ g.done /\ c \notin Connections)
  PROVE  Served(c, g, s)
<1>1. Served(c, conn[c], Sub(c)) /\ conn[c] \in Queues
  BY DEF StreamInv
<1>2. conn[c].queue \in Seq(Items) /\ conn[c].written \in Seq(Items)
  BY <1>1 DEF Queues
<1>3. x \in Items /\ x.type # "event" /\ x # Stream!Disposed
  BY WordsAreItems
<1>4. \A y : Has(g.queue, y) <=> Has(conn[c].queue, y) \/ x = y
  BY <1>2, <1>3, HasAppended
<1>5. g.queue # <<>> /\ (conn[c].queue # <<>> => g.queue[1] = conn[c].queue[1])
  <2>1. PICK was \in Seq(Items) : was = conn[c].queue
    BY <1>2
  <2>2. Len(Append(was, x)) = Len(was) + 1 /\ (was # <<>> => Append(was, x)[1] = was[1])
    BY <1>3
  <2>3. Append(was, x) # <<>>
    BY <2>2
  <2> QED BY <2>1, <2>2, <2>3
<1>6. Begins(g)
  BY <1>1, <1>4, <1>5 DEF Served, Begins
<1>7. \E w, q, k \in Nat : Marks(g, s, published, w, q, k)
  <2>1. PICK w \in Nat, q \in Nat, k \in Nat : Marks(conn[c], Sub(c), published, w, q, k)
    BY <1>1 DEF Served
  <2>2. Stream!InOrder(g.queue, w, q)
    BY <1>2, <1>3, <2>1, WordInOrder DEF Marks
  <2>3. s = Sub(c) \/ s.at = "off"
    BY DEF Direct
  <2>4. Marks(g, s, published, w, q, k)
    BY <1>3, <1>4, <2>1, <2>2, <2>3 DEF Marks
  <2> QED BY <2>4
<1>8. c \in Connections => GoneIsLast(g, s, bus)
  <2>1. ASSUME c \in Connections PROVE GoneIsLast(g, s, bus)
    <3>1. s = Sub(c) /\ GoneIsLast(conn[c], Sub(c), bus)
      BY <1>1, <2>1 DEF Served
    <3>2. ~Has(conn[c].queue, Stream!Disposed) /\ ~Has(conn[c].written, Stream!Disposed)
      BY <3>1 DEF GoneIsLast
    <3>3. ~Has(g.queue, Stream!Disposed) /\ ~Has(g.written, Stream!Disposed)
      BY <1>3, <1>4, <3>2
    <3> QED BY <3>1, <3>3 DEF GoneIsLast, Has
  <2> QED BY <2>1
<1>9. c \in Globals => Unsaid(g)
  BY <1>1, <1>3, <1>4 DEF Served, Unsaid
<1> QED BY <1>1, <1>6, <1>7, <1>8, <1>9 DEF Served

LEMMA BeatKeeps ==
  ASSUME StreamConstants, StreamInv, NEW c \in Connections \cup Globals, Stream!Beat(c)
  PROVE  StreamInv'
<1> DEFINE g == [conn[c] EXCEPT !.queue = Append(conn[c].queue, Stream!Heartbeat), !.beats = conn[c].beats + 1]
<1>1. conn[c] \in Queues /\ Sub(c) \in Subscriptions
  BY DEF StreamInv, Served
<1>2. conn' = [conn EXCEPT ![c] = g] /\ UNCHANGED <<bus, published, sub>> /\ conn[c].at = "open" /\ ~conn[c].done
      /\ conn[c].beats < MaxBeats
  <2>1. conn' = [conn EXCEPT ![c] = [Stream!Push(conn[c], Stream!Heartbeat) EXCEPT !.beats = conn[c].beats + 1]]
    BY DEF Stream!Beat, StreamInv, Stream!Push
  <2>2. Stream!Push(conn[c], Stream!Heartbeat) = [conn[c] EXCEPT !.queue = Append(conn[c].queue, Stream!Heartbeat)]
    BY DEF Stream!Push
  <2>3. Stream!Push(conn[c], Stream!Heartbeat).beats = conn[c].beats
    BY <1>1, <2>2 DEF Queues
  <2>4. [Stream!Push(conn[c], Stream!Heartbeat) EXCEPT !.beats = conn[c].beats + 1] = g
    BY <1>1, <2>2 DEF Queues
  <2> HIDE DEF g
  <2> QED BY <2>1, <2>4 DEF Stream!Beat
<1>3. Stream!Heartbeat \in Items /\ Stream!Heartbeat # Stream!Null
  BY WordsAreItems
<1>4. Append(conn[c].queue, Stream!Heartbeat) \in Seq(Items) /\ conn[c].beats + 1 \in 0..MaxBeats
  BY <1>1, <1>2, <1>3 DEF Queues, StreamConstants
<1>5. /\ g \in Queues /\ g.at = "open" /\ g.since = conn[c].since /\ g.written = conn[c].written
      /\ g.queue = Append(conn[c].queue, Stream!Heartbeat) /\ g.done = conn[c].done
  BY <1>1, <1>2, <1>4 DEF Queues
<1> HIDE DEF g
<1>6. Served(c, g, Sub(c))
  BY <1>1, <1>2, <1>3, <1>5, Queued
<1>7. c \in Connections => sub' = [sub EXCEPT ![c] = Sub(c)]
  BY <1>2 DEF Sub, StreamInv
<1>8. c \notin Connections => Sub(c) = Direct(g)
  BY <1>5 DEF Sub, Direct
<1> QED BY <1>2, <1>6, <1>7, <1>8, OneConnection

LEMMA AbortKeeps ==
  ASSUME StreamConstants, StreamInv, NEW c \in Connections \cup Globals, Stream!Abort(c)
  PROVE  StreamInv'
<1> DEFINE g == [conn[c] EXCEPT !.queue = Append(conn[c].queue, Stream!Null), !.done = TRUE]
           s == IF c \in Connections THEN sub[c] ELSE Direct(g)
<1>1. conn[c] \in Queues /\ Sub(c) \in Subscriptions
  BY DEF StreamInv, Served
<1>2. conn' = [conn EXCEPT ![c] = g] /\ UNCHANGED <<bus, published, sub>> /\ conn[c].at = "open" /\ ~conn[c].done
  BY <1>1 DEF Stream!Abort, Stream!Stop, Stream!Push, StreamInv, Queues
<1>3. Stream!Null \in Items
  BY WordsAreItems
<1>4. Append(conn[c].queue, Stream!Null) \in Seq(Items)
  BY <1>1, <1>3 DEF Queues
<1>5. /\ g \in Queues /\ g.at = "open" /\ g.since = conn[c].since /\ g.written = conn[c].written
      /\ g.queue = Append(conn[c].queue, Stream!Null) /\ g.done
  BY <1>1, <1>2, <1>4 DEF Queues
<1> HIDE DEF g
<1>6. s = Sub(c) \/ (s = Direct(g) /\ g.done /\ c \notin Connections)
  BY <1>5 DEF Sub
<1>7. s \in Subscriptions
  BY <1>1, <1>5 DEF Sub, Direct, Subscriptions
<1>8. c \in Connections => sub' = [sub EXCEPT ![c] = s]
  BY <1>2 DEF StreamInv
<1>9. c \notin Connections => s = Direct(g)
  OBVIOUS
<1> HIDE DEF s
<1>10. Served(c, g, s)
  BY <1>2, <1>5, <1>6, <1>7, Queued
<1> QED BY <1>2, <1>8, <1>9, <1>10, OneConnection

LEMMA TakeAllKeeps ==
  ASSUME StreamConstants, StreamInv, NEW c \in Connections, Stream!TakeAll(c)
  PROVE  StreamInv'
<1> DEFINE g == conn[c]
           s == [sub[c] EXCEPT !.chunk = sub[c].buffer, !.buffer = <<>>]
<1>1. /\ g \in Queues /\ sub[c] \in Subscriptions /\ sub[c].at = "on" /\ sub[c].chunk = <<>>
      /\ Served(c, g, sub[c]) /\ published \in Nat
  BY DEF StreamInv, Stream!TakeAll, Sub
<1>2. s \in Subscriptions /\ s.at = "on" /\ s.chunk = sub[c].buffer /\ s.buffer = <<>>
  BY <1>1 DEF Subscriptions
<1>3. conn' = [conn EXCEPT ![c] = g] /\ sub' = [sub EXCEPT ![c] = s] /\ UNCHANGED <<bus, published>>
  <2>1. sub' = [sub EXCEPT ![c] = s]
    BY DEF Stream!TakeAll, StreamInv
  <2> HIDE DEF s
  <2> QED BY <2>1 DEF Stream!TakeAll, StreamInv
<1> HIDE DEF g, s
<1>4. ~Has(s.chunk, Stream!Disposed)
  BY <1>1, <1>2 DEF Served, GoneIsLast
<1>5. GoneIsLast(g, s, bus)
  <2>1. GoneIsLast(g, sub[c], bus)
    BY <1>1 DEF Served
  <2> QED BY <1>1, <1>2, <1>4, <2>1, HasNothing DEF GoneIsLast
<1>6. \E w, q, k \in Nat : Marks(g, s, published, w, q, k)
  <2>1. PICK w \in Nat, q \in Nat, k \in Nat : Marks(g, sub[c], published, w, q, k)
    BY <1>1 DEF Served
  <2>2. g.at = "open" => q = k
    BY <1>1, <2>1, NothingInOrder DEF Marks
  <2>3. Stream!InOrder(<<>>, published, published)
    BY <1>1, NothingInOrder
  <2>4. Marks(g, s, published, w, q, published)
    BY <1>1, <1>2, <1>4, <2>1, <2>2, <2>3 DEF Marks
  <2> QED BY <1>1, <2>4
<1>7. Served(c, g, s)
  BY <1>1, <1>2, <1>5, <1>6 DEF Served
<1> QED BY <1>3, <1>7, OneConnection

LEMMA UnsubscribeKeeps ==
  ASSUME StreamConstants, StreamInv, NEW c \in Connections, Stream!Unsubscribe(c)
  PROVE  StreamInv'
<1> DEFINE g == conn[c]
           s == [Stream!NoSubscription EXCEPT !.at = "off"]
<1>1. /\ g \in Queues /\ sub[c] \in Subscriptions /\ g.done /\ Served(c, g, sub[c])
  BY DEF StreamInv, Stream!Unsubscribe, Sub
<1>2. s \in Subscriptions /\ s.at = "off" /\ s.chunk = <<>> /\ s.buffer = <<>>
  <2>1. <<>> \in Seq(Items)
    OBVIOUS
  <2>2. PICK n \in Subscriptions : n = Stream!NoSubscription
    BY <2>1 DEF Stream!NoSubscription, Subscriptions
  <2>3. n.chunk = <<>> /\ n.buffer = <<>>
    BY <2>2 DEF Stream!NoSubscription
  <2>4. s = [n EXCEPT !.at = "off"]
    BY <2>2
  <2> HIDE DEF s
  <2> QED BY <2>2, <2>3, <2>4 DEF Subscriptions
<1>3. conn' = [conn EXCEPT ![c] = g] /\ sub' = [sub EXCEPT ![c] = s] /\ UNCHANGED <<bus, published>>
  <2>1. sub' = [sub EXCEPT ![c] = s]
    BY DEF Stream!Unsubscribe
  <2> HIDE DEF s
  <2> QED BY <2>1 DEF Stream!Unsubscribe, StreamInv
<1> HIDE DEF g, s
<1>4. GoneIsLast(g, s, bus)
  BY <1>1, <1>2, HasNothing DEF Served, GoneIsLast
<1>5. \E w, q, k \in Nat : Marks(g, s, published, w, q, k)
  <2>1. PICK w \in Nat, q \in Nat, k \in Nat : Marks(g, sub[c], published, w, q, k)
    BY <1>1 DEF Served
  <2>2. Marks(g, s, published, w, q, k)
    BY <1>2, <2>1 DEF Marks
  <2> QED BY <2>2
<1>6. g.at # "none"
  BY <1>1 DEF Served, Begins
<1>7. Served(c, g, s)
  BY <1>1, <1>2, <1>4, <1>5, <1>6 DEF Served
<1> QED BY <1>3, <1>7, OneConnection

LEMMA WriteKeeps ==
  ASSUME StreamConstants, StreamInv, NEW c \in Connections \cup Globals, Stream!WriteSSE(c)
  PROVE  StreamInv'
<1>1. /\ conn[c] \in Queues /\ Sub(c) \in Subscriptions /\ Served(c, conn[c], Sub(c)) /\ published \in Nat
      /\ conn[c].at = "open" /\ conn[c].queue # <<>>
  BY DEF StreamInv, Stream!WriteSSE, Served
<1>2. PICK queue \in Seq(Items), written \in Seq(Items) : queue = conn[c].queue /\ written = conn[c].written
  BY <1>1 DEF Queues
<1>3. queue # <<>> /\ Tail(queue) \in Seq(Items) /\ Head(queue) \in Items /\ Head(queue) = queue[1]
      /\ 1 \in DOMAIN queue
  BY <1>1, <1>2
<1>4. PICK w \in Nat, q \in Nat, k \in Nat : Marks(conn[c], Sub(c), published, w, q, k)
  BY <1>1 DEF Served
<1>5. c \in Connections => GoneIsLast(conn[c], Sub(c), bus)
  BY <1>1 DEF Served
<1>6. c \in Globals => Unsaid(conn[c])
  BY <1>1 DEF Served
<1>7. CASE Head(queue) = Stream!Null
  <2> DEFINE g == [conn[c] EXCEPT !.at = "closed", !.queue = <<>>]
  <2>1. conn' = [conn EXCEPT ![c] = g] /\ UNCHANGED <<bus, published, sub>>
    BY <1>2, <1>7 DEF Stream!WriteSSE, StreamInv
  <2>2. /\ g \in Queues /\ g.at = "closed" /\ g.queue = <<>> /\ g.written = conn[c].written
        /\ g.since = conn[c].since /\ g.done = conn[c].done
    <3>1. <<>> \in Seq(Items)
      OBVIOUS
    <3> QED BY <1>1, <3>1 DEF Queues
  <2> HIDE DEF g
  <2>3. conn[c].done
    BY <1>1, <1>2, <1>3, <1>7, HasFirst DEF Served, Begins
  <2>4. Begins(g) /\ g.since <= MaxEvents
    BY <1>1, <2>2, <2>3, HasNothing DEF Served, Begins
  <2>5. Marks(g, Sub(c), published, w, q, k)
    BY <1>4, <2>2 DEF Marks
  <2>6. c \in Connections => GoneIsLast(g, Sub(c), bus)
    BY <1>5, <2>2, HasNothing DEF GoneIsLast
  <2>7. c \in Globals => Unsaid(g)
    BY <1>6, <2>2, HasNothing DEF Unsaid
  <2>8. Served(c, g, Sub(c))
    BY <1>1, <2>2, <2>4, <2>5, <2>6, <2>7 DEF Served
  <2>9. c \in Connections => sub' = [sub EXCEPT ![c] = Sub(c)]
    BY <2>1 DEF Sub, StreamInv
  <2>10. c \notin Connections => Sub(c) = Direct(g)
    BY <2>2 DEF Sub, Direct
  <2> QED BY <2>1, <2>8, <2>9, <2>10, OneConnection
<1>8. CASE Head(queue) # Stream!Null
  <2> DEFINE data == Head(queue)
             g == [conn[c] EXCEPT !.queue = Tail(queue), !.written = Append(written, data)]
  <2>1. conn' = [conn EXCEPT ![c] = g] /\ UNCHANGED <<bus, published, sub>>
    BY <1>2, <1>8 DEF Stream!WriteSSE, StreamInv
  <2>2. /\ g \in Queues /\ g.at = "open" /\ g.queue = Tail(queue) /\ g.written = Append(written, data)
        /\ g.since = conn[c].since /\ g.done = conn[c].done
    <3>0. Append(written, Head(queue)) \in Seq(Items)
      BY <1>3
    <3>1. PICK longer \in Seq(Items) : longer = Append(written, data)
      BY <3>0
    <3>2. PICK rest \in Seq(Items) : rest = Tail(queue)
      BY <1>3
    <3>3. g = [conn[c] EXCEPT !.queue = rest, !.written = longer]
      BY <3>1, <3>2
    <3> HIDE DEF g, data
    <3> QED BY <1>1, <3>1, <3>2, <3>3 DEF Queues
  <2> HIDE DEF g
  <2>3. data \in Items /\ Has(queue, data)
    BY <1>3, HasFirst
  <2>4. \A y : Has(g.written, y) <=> Has(written, y) \/ data = y
    BY <1>2, <2>2, <2>3, HasAppended
  <2>5. \A y : Has(g.queue, y) => Has(queue, y)
    BY <1>2, <1>3, <2>2, HasRest
  <2>6. ~Has(written, Stream!Disposed)
    <3>1. CASE c \in Connections
      <4>1. Has(written, Stream!Disposed) => queue[1] = Stream!Null
        BY <1>2, <1>3, <1>5, <3>1 DEF GoneIsLast
      <4> QED BY <1>3, <1>8, <4>1
    <3>2. CASE c \in Globals
      BY <1>2, <1>6, <3>2 DEF Unsaid
    <3> QED BY <3>1, <3>2
  <2>7. PICK m \in Nat : m = Len(queue) - 1
    BY <1>3
  <2>8. DOMAIN Tail(queue) = 1..m /\ Len(Tail(queue)) = m /\ DOMAIN queue = 1..m + 1 /\ Len(queue) = m + 1
        /\ \A i \in 1..m : Tail(queue)[i] = queue[i + 1]
    BY <1>3, <2>7, HeadTailProperties
  <2>9. c \in Connections /\ data = Stream!Disposed => \A i \in DOMAIN Tail(queue) : Tail(queue)[i] = Stream!Null
    <3>1. ASSUME c \in Connections, data = Stream!Disposed, NEW i \in 1..m PROVE Tail(queue)[i] = Stream!Null
      <4>1. \A j \in 2..m + 1 : queue[j] = Stream!Null
        BY <1>2, <1>3, <1>5, <2>8, <3>1 DEF GoneIsLast
      <4>2. i + 1 \in 2..m + 1
        BY <2>7
      <4> QED BY <2>8, <4>1, <4>2
    <3> QED BY <2>8, <3>1
  <2>10. Begins(g)
    <3>1. Append(written, data) # <<>> /\ Append(written, data)[1] = IF written = <<>> THEN data ELSE written[1]
      <4>1. data \in Items
        BY <2>3
      <4> HIDE DEF data
      <4>2. Len(Append(written, data)) = Len(written) + 1 /\ Append(written, data)[Len(written) + 1] = data
        BY <4>1
      <4>3. Append(written, data) # <<>>
        BY <4>2
      <4>4. CASE written = <<>>
        BY <4>2, <4>3, <4>4
      <4>5. CASE written # <<>>
        <5>1. 1 \in 1..Len(written)
          BY <4>5
        <5>2. Append(written, data)[1] = written[1]
          BY <4>1, <5>1
        <5> QED BY <4>3, <4>5, <5>2
      <4> QED BY <4>4, <4>5
    <3>2. g.written # <<>> /\ g.written[1] = Stream!Connected
      BY <1>1, <1>2, <1>3, <2>2, <3>1 DEF Served, Begins
    <3>3. Has(g.queue, Stream!Null) => g.done
      BY <1>1, <1>2, <2>2, <2>5 DEF Served, Begins
    <3> QED BY <2>2, <3>2, <3>3 DEF Begins
  <2>11. \E v \in Nat : Marks(g, Sub(c), published, v, q, k)
    <3>1. Stream!InOrder(queue, w, q) /\ Stream!InOrder(written, conn[c].since, w) /\ w <= q /\ q <= published
          /\ conn[c].since <= w /\ conn[c].since \in Nat
      BY <1>1, <1>2, <1>4 DEF Marks, Queues
    <3>2. Has(g.queue, Stream!Disposed) => q = published
      BY <1>1, <1>2, <1>4, <2>5 DEF Marks
    <3>3. CASE data.type = "event"
      <4>1. w + 1 <= q /\ data = Stream!Event(w + 1) /\ Stream!InOrder(Tail(queue), w + 1, q)
        BY <1>3, <3>1, <3>3, FirstInOrder
      <4>2. Stream!InOrder(Append(written, data), conn[c].since, w + 1)
        BY <3>1, <4>1, EventInOrder
      <4>3. data # Stream!Disposed
        BY <3>3, WordsAreItems
      <4>4. ~Has(g.written, Stream!Disposed)
        BY <2>4, <2>6, <4>3
      <4>5. conn[c].since <= w + 1 /\ w + 1 \in Nat
        BY <3>1
      <4>6. Marks(g, Sub(c), published, w + 1, q, k)
        BY <1>1, <1>4, <2>2, <3>2, <4>1, <4>2, <4>4, <4>5 DEF Marks
      <4> QED BY <4>5, <4>6
    <3>4. CASE data.type # "event"
      <4>1. Stream!InOrder(Tail(queue), w, q)
        BY <1>3, <3>1, <3>4, FirstInOrder
      <4>2. Stream!InOrder(Append(written, data), conn[c].since, w)
        BY <2>3, <3>1, <3>4, WordInOrder
      <4>3. ASSUME Has(g.written, Stream!Disposed) PROVE w = published
        <5>1. data = Stream!Disposed
          BY <2>4, <2>6, <4>3
        <5>2. c \in Connections
          BY <1>2, <1>6, <2>3, <5>1 DEF Unsaid
        <5>3. \A i \in DOMAIN Tail(queue) : Tail(queue)[i].type # "event"
          BY <2>9, <5>1, <5>2, WordsAreItems
        <5>4. w = q
          BY <1>3, <3>1, <4>1, <5>3, NoEvents
        <5>5. q = published
          BY <1>1, <1>2, <1>4, <2>3, <5>1 DEF Marks
        <5> QED BY <5>4, <5>5
      <4>4. Marks(g, Sub(c), published, w, q, k)
        BY <1>1, <1>4, <2>2, <3>2, <4>1, <4>2, <4>3 DEF Marks
      <4> QED BY <4>4
    <3> QED BY <3>3, <3>4
  <2>12. c \in Connections => GoneIsLast(g, Sub(c), bus)
    <3> SUFFICES ASSUME c \in Connections PROVE GoneIsLast(g, Sub(c), bus)
      OBVIOUS
    <3>1. GoneIsLast(conn[c], Sub(c), bus)
      BY <1>5
    <3>2. Has(g.written, Stream!Disposed) \/ Has(g.queue, Stream!Disposed) => Has(queue, Stream!Disposed)
      BY <2>3, <2>4, <2>5, <2>6
    <3>3. Has(g.written, Stream!Disposed) => \A i \in DOMAIN g.queue : g.queue[i] = Stream!Null
      BY <2>2, <2>4, <2>6, <2>9
    <3>4. ASSUME NEW i \in 1..m, Tail(queue)[i] = Stream!Disposed, NEW j \in i + 1..m
          PROVE  Tail(queue)[j] = Stream!Null
      <4>1. i + 1 \in 1..m + 1 /\ j \in 1..m /\ j + 1 \in (i + 1) + 1..m + 1
        BY <2>7
      <4>2. queue[i + 1] = Stream!Disposed
        BY <2>8, <3>4
      <4>3. queue[j + 1] = Stream!Null
        BY <1>2, <2>8, <3>1, <4>1, <4>2 DEF GoneIsLast
      <4> QED BY <2>8, <4>1, <4>3
    <3>5. \A i \in DOMAIN g.queue : g.queue[i] = Stream!Disposed =>
              \A j \in i + 1..Len(g.queue) : g.queue[j] = Stream!Null
      BY <2>2, <2>8, <3>4
    <3>6. \A i \in DOMAIN g.written : g.written[i] = Stream!Disposed => i = Len(g.written)
      <4>1. PICK n \in Nat : n = Len(written)
        OBVIOUS
      <4>2. DOMAIN Append(written, data) = 1..n + 1 /\ Len(Append(written, data)) = n + 1 /\ DOMAIN written = 1..n
            /\ \A i \in 1..n : Append(written, data)[i] = written[i]
        BY <2>3, <4>1
      <4>3. \A i \in 1..n + 1 : i \in 1..n \/ i = n + 1
        BY <4>1
      <4> QED BY <2>2, <2>6, <4>2, <4>3 DEF Has
    <3> QED BY <1>2, <2>2, <3>1, <3>2, <3>3, <3>5, <3>6 DEF GoneIsLast
  <2>13. c \in Globals => Unsaid(g)
    BY <1>2, <1>6, <2>3, <2>4, <2>5 DEF Unsaid
  <2>14. Served(c, g, Sub(c))
    BY <1>1, <1>4, <2>2, <2>10, <2>11, <2>12, <2>13 DEF Served
  <2>15. c \in Connections => sub' = [sub EXCEPT ![c] = Sub(c)]
    BY <2>1 DEF Sub, StreamInv
  <2>16. c \notin Connections => Sub(c) = Direct(g)
    BY <2>2 DEF Sub, Direct
  <2> QED BY <2>1, <2>14, <2>15, <2>16, OneConnection
<1> QED BY <1>7, <1>8

LEMMA CallBackKeeps ==
  ASSUME StreamConstants, StreamInv, NEW c \in Connections, Stream!CallBack(c)
  PROVE  StreamInv'
<1>1. /\ conn[c] \in Queues /\ sub[c] \in Subscriptions /\ Served(c, conn[c], sub[c]) /\ published \in Nat
      /\ sub[c].chunk # <<>> /\ c \notin Globals
  BY DEF StreamInv, Stream!CallBack, Served, Sub, StreamConstants
<1>2. PICK queue \in Seq(Items), chunk \in Seq(Items) : queue = conn[c].queue /\ chunk = sub[c].chunk
  BY <1>1 DEF Queues, Subscriptions
<1>3. chunk # <<>> /\ Tail(chunk) \in Seq(Items) /\ Head(chunk) \in Items
  BY <1>1, <1>2
<1>4. PICK w \in Nat, q \in Nat, k \in Nat : Marks(conn[c], sub[c], published, w, q, k)
  BY <1>1 DEF Served
<1>5. GoneIsLast(conn[c], sub[c], bus) /\ Begins(conn[c])
  BY <1>1 DEF Served
<1>6. /\ ~Has(queue, Stream!Disposed) /\ ~Has(conn[c].written, Stream!Disposed)
      /\ sub[c].at \in {"on", "last"} /\ conn[c].at # "none"
  BY <1>1, <1>2, <1>5 DEF GoneIsLast, Served, Subscriptions
<1> DEFINE s == [sub[c] EXCEPT !.chunk = Tail(chunk)]
<1>7. sub' = [sub EXCEPT ![c] = s] /\ UNCHANGED <<bus, published>>
  BY <1>2 DEF Stream!CallBack, StreamInv
<1>8. s \in Subscriptions /\ s.at = sub[c].at /\ s.buffer = sub[c].buffer /\ s.chunk = Tail(chunk)
  BY <1>1, <1>3 DEF Subscriptions
<1> HIDE DEF s
<1>9. CASE Head(chunk) # Stream!Disposed
  <2> DEFINE longer == Append(queue, Head(chunk))
             g == [conn[c] EXCEPT !.queue = longer]
  <2>1. conn' = [conn EXCEPT ![c] = g]
    BY <1>2, <1>9 DEF Stream!CallBack, Stream!Push, StreamInv
  <2>2. longer \in Seq(Items)
    BY <1>3
  <2>3. /\ g \in Queues /\ g.at = conn[c].at /\ g.queue = longer /\ g.written = conn[c].written
        /\ g.since = conn[c].since /\ g.done = conn[c].done
    <3> HIDE DEF longer
    <3> QED BY <1>1, <2>2 DEF Queues
  <2> HIDE DEF g
  <2>4. \A y : Has(longer, y) <=> Has(queue, y) \/ Head(chunk) = y
    BY <1>3, HasAppended
  <2>5. Has(chunk, Head(chunk))
    BY <1>3, HasFirst
  <2>6. \A y : Has(s.chunk, y) => Has(chunk, y)
    BY <1>3, <1>8, HasRest
  <2>7. Head(chunk) # Stream!Null
    BY <1>2, <1>5, <2>5 DEF GoneIsLast
  <2>8. Len(longer) = Len(queue) + 1 /\ (queue # <<>> => longer[1] = queue[1])
    BY <1>3
  <2>9. longer # <<>>
    <3> HIDE DEF longer
    <3> QED BY <2>8
  <2>10. Begins(g) /\ g.since <= MaxEvents
    BY <1>1, <1>2, <1>5, <2>3, <2>4, <2>7, <2>8, <2>9 DEF Served, Begins
  <2>11. ~Has(longer, Stream!Disposed)
    BY <1>6, <1>9, <2>4
  <2>12. GoneIsLast(g, s, bus)
    <3>1. \A i \in DOMAIN g.queue : g.queue[i] # Stream!Disposed
      BY <2>3, <2>11 DEF Has
    <3>2. Has(s.chunk, Stream!Disposed) => FALSE
      <4>1. ASSUME Has(chunk, Stream!Disposed) PROVE chunk[1] = Stream!Disposed
        <5>1. Len(chunk) = 1
          BY <1>2, <1>5, <4>1 DEF GoneIsLast
        <5> QED BY <4>1, <5>1 DEF Has
      <4>2. Head(chunk) = chunk[1]
        BY <1>3
      <4> QED BY <1>9, <2>6, <4>1, <4>2
    <3>3. ~Has(g.written, Stream!Disposed) /\ ~Has(g.queue, Stream!Disposed)
      BY <1>6, <2>3, <2>11
    <3> QED BY <1>2, <1>5, <1>6, <1>8, <2>3, <2>6, <3>1, <3>2, <3>3 DEF GoneIsLast, Has
  <2>13. \E p \in Nat : Marks(g, s, published, w, p, k)
    <3>1. CASE conn[c].at # "open"
      <4>1. Marks(g, s, published, w, q, k)
        BY <1>4, <1>6, <2>3, <3>1 DEF Marks
      <4> QED BY <4>1
    <3>2. CASE conn[c].at = "open" /\ Head(chunk).type = "event"
      <4>1. Stream!InOrder(queue, w, q) /\ Stream!InOrder(chunk, q, k) /\ w <= q
        BY <1>2, <1>4, <1>6, <3>2 DEF Marks
      <4>2. q + 1 <= k /\ Head(chunk) = Stream!Event(q + 1) /\ Stream!InOrder(Tail(chunk), q + 1, k)
        BY <1>3, <3>2, <4>1, FirstInOrder
      <4>3. Stream!InOrder(longer, w, q + 1)
        BY <4>1, <4>2, EventInOrder
      <4>4. w <= q + 1 /\ q + 1 \in Nat
        BY <4>1
      <4>5. Marks(g, s, published, w, q + 1, k)
        BY <1>2, <1>4, <1>6, <1>8, <2>3, <2>6, <2>11, <3>2, <4>2, <4>3, <4>4 DEF Marks
      <4> QED BY <4>4, <4>5
    <3>3. CASE conn[c].at = "open" /\ Head(chunk).type # "event"
      <4>1. Stream!InOrder(queue, w, q) /\ Stream!InOrder(chunk, q, k)
        BY <1>2, <1>4, <1>6, <3>3 DEF Marks
      <4>2. Stream!InOrder(Tail(chunk), q, k)
        BY <1>3, <3>3, <4>1, FirstInOrder
      <4>3. Stream!InOrder(longer, w, q)
        BY <1>3, <3>3, <4>1, WordInOrder
      <4>4. Marks(g, s, published, w, q, k)
        BY <1>2, <1>4, <1>6, <1>8, <2>3, <2>6, <2>11, <3>3, <4>2, <4>3 DEF Marks
      <4> QED BY <4>4
    <3> QED BY <3>1, <3>2, <3>3
  <2>14. Served(c, g, s)
    BY <1>1, <1>4, <1>6, <1>8, <2>3, <2>10, <2>12, <2>13 DEF Served
  <2> QED BY <1>7, <2>1, <2>14, OneConnection
<1>10. CASE Head(chunk) = Stream!Disposed
  <2> DEFINE told == Append(queue, Stream!Disposed)
             longer == IF conn[c].done THEN told ELSE Append(told, Stream!Null)
             g == [conn[c] EXCEPT !.queue = longer, !.done = TRUE]
  <2>0. Stream!Disposed \in Items /\ Stream!Null \in Items /\ Stream!Disposed # Stream!Null
        /\ Stream!Disposed.type # "event" /\ Stream!Null.type # "event"
    BY WordsAreItems
  <2>1. told \in Seq(Items) /\ longer \in Seq(Items)
    BY <2>0
  <2>2. conn' = [conn EXCEPT ![c] = g]
    <3>1. Stream!Push(conn[c], Stream!Disposed) = [conn[c] EXCEPT !.queue = told]
      BY <1>2 DEF Stream!Push
    <3>2. conn' = [conn EXCEPT ![c] = Stream!Stop(Stream!Push(conn[c], Stream!Disposed))]
      BY <1>2, <1>10 DEF Stream!CallBack
    <3>3. PICK pushed \in Queues : pushed = [conn[c] EXCEPT !.queue = told]
      <4> HIDE DEF told
      <4> QED BY <1>1, <2>1 DEF Queues
    <3>4. pushed.done = conn[c].done /\ pushed.queue = told
      BY <1>1, <2>1, <3>3 DEF Queues
    <3>5. Stream!Stop(pushed) = g
      <4>1. CASE conn[c].done
        <5>1. Stream!Stop(pushed) = pushed /\ longer = told
          BY <3>4, <4>1 DEF Stream!Stop
        <5> HIDE DEF told, longer
        <5>2. pushed = [[conn[c] EXCEPT !.queue = longer] EXCEPT !.done = TRUE]
          BY <1>1, <3>3, <4>1, <5>1 DEF Queues
        <5> QED BY <5>1, <5>2
      <4>2. CASE ~conn[c].done
        <5>1. Stream!Stop(pushed) = [[pushed EXCEPT !.queue = longer] EXCEPT !.done = TRUE]
          BY <3>4, <4>2 DEF Stream!Stop, Stream!Push
        <5> HIDE DEF told, longer
        <5>2. [pushed EXCEPT !.queue = longer] = [conn[c] EXCEPT !.queue = longer]
          BY <1>1, <3>3 DEF Queues
        <5> QED BY <5>1, <5>2
      <4> QED BY <4>1, <4>2
    <3> QED BY <3>1, <3>2, <3>3, <3>5
  <2>3. /\ g \in Queues /\ g.at = conn[c].at /\ g.queue = longer /\ g.written = conn[c].written
        /\ g.since = conn[c].since /\ g.done
    <3> HIDE DEF longer
    <3> QED BY <1>1, <2>1 DEF Queues
  <2>4. \A i \in DOMAIN longer : longer[i] = Stream!Disposed =>
            \A j \in i + 1..Len(longer) : longer[j] = Stream!Null
    <3>1. CASE conn[c].done
      BY <1>6, <2>0, <3>1, StillLast
    <3>2. CASE ~conn[c].done
      BY <1>6, <2>0, <3>2, OnlyNullFollows
    <3> QED BY <3>1, <3>2
  <2>5. longer # <<>> /\ (queue # <<>> => longer[1] = queue[1])
    <3>1. PICK t \in Seq(Items) : t = told
      BY <2>1
    <3>2. Len(t) = Len(queue) + 1 /\ (queue # <<>> => t[1] = queue[1])
      BY <2>0, <3>1
    <3>3. Len(Append(t, Stream!Null)) = Len(t) + 1 /\ Append(t, Stream!Null)[1] = t[1]
      BY <2>0, <3>2
    <3>4. t # <<>> /\ Append(t, Stream!Null) # <<>>
      BY <3>2, <3>3
    <3> QED BY <3>1, <3>2, <3>3, <3>4
  <2> HIDE DEF g
  <2>6. Begins(g) /\ g.since <= MaxEvents
    BY <1>1, <1>2, <1>5, <1>6, <2>3, <2>5 DEF Served, Begins
  <2>7. Has(chunk, Stream!Disposed)
    BY <1>3, <1>10, HasFirst
  <2>8. s.chunk = <<>> /\ sub[c].at = "last" /\ bus = "down" /\ s.buffer = <<>>
    <3>1. Len(chunk) = 1 /\ sub[c].at = "last"
      BY <1>2, <1>5, <2>7 DEF GoneIsLast
    <3>2. Len(Tail(chunk)) = 0
      BY <1>3, <3>1
    <3> QED BY <1>3, <1>5, <1>8, <3>1, <3>2 DEF GoneIsLast
  <2>9. GoneIsLast(g, s, bus)
    BY <1>2, <1>5, <1>6, <1>8, <2>3, <2>4, <2>8, HasNothing DEF GoneIsLast
  <2>10. Marks(g, s, published, w, q, k)
    <3>1. CASE conn[c].at # "open"
      BY <1>4, <1>6, <2>3, <3>1 DEF Marks
    <3>2. CASE conn[c].at = "open"
      <4>1. Stream!InOrder(queue, w, q) /\ Stream!InOrder(chunk, q, k) /\ q <= k /\ k = published
        BY <1>2, <1>4, <1>6, <2>7, <3>2 DEF Marks
      <4>2. Stream!InOrder(<<>>, q, k)
        BY <1>3, <1>8, <1>10, <2>0, <2>8, <4>1, FirstInOrder
      <4>3. q = k
        BY <4>1, <4>2, NothingInOrder
      <4>4. Stream!InOrder(told, w, q)
        BY <2>0, <4>1, WordInOrder
      <4>5. Stream!InOrder(longer, w, q)
        BY <2>0, <2>1, <4>4, WordInOrder
      <4> QED BY <1>4, <1>6, <1>8, <2>3, <2>8, <3>2, <4>1, <4>2, <4>3, <4>5, HasNothing DEF Marks
    <3> QED BY <3>1, <3>2
  <2>11. Served(c, g, s)
    BY <1>1, <1>4, <1>6, <1>8, <2>3, <2>6, <2>9, <2>10 DEF Served
  <2> QED BY <1>7, <2>2, <2>11, OneConnection
<1> QED BY <1>9, <1>10

\* PubSub: a subscription is given the next event, unless it is over.
LEMMA GivenKeeps ==
  ASSUME NEW g \in Queues, NEW s \in Subscriptions, NEW n \in Nat, GoneIsLast(g, s, "up"),
         NEW w \in Nat, NEW q \in Nat, NEW k \in Nat, Marks(g, s, n, w, q, k)
  PROVE  LET t == Stream!Given(s, Stream!Event(n + 1))
         IN  /\ t \in Subscriptions /\ t.at = s.at /\ GoneIsLast(g, t, "up")
             /\ \E p \in Nat : Marks(g, t, n + 1, w, q, p)
<1> DEFINE x == Stream!Event(n + 1)
<1>1. x \in Items /\ x # Stream!Disposed /\ x # Stream!Null
  BY WordsAreItems
<1>2. PICK buffer \in Seq(Items), chunk \in Seq(Items) : buffer = s.buffer /\ chunk = s.chunk
  BY DEF Subscriptions
<1> HIDE DEF x
<1>3. Append(buffer, x) \in Seq(Items) /\ <<x>> \in Seq(Items) /\ <<x>> = Append(<<>>, x)
  BY <1>1
<1>4. \A y : (Has(Append(buffer, x), y) <=> Has(buffer, y) \/ x = y) /\ (Has(<<x>>, y) <=> x = y)
  <2>1. <<>> \in Seq(Items)
    OBVIOUS
  <2>2. \A y : Has(Append(buffer, x), y) <=> Has(buffer, y) \/ x = y
    BY <1>1, HasAppended
  <2>3. \A y : Has(Append(<<>>, x), y) <=> Has(<<>>, y) \/ x = y
    BY <1>1, <2>1, HasAppended
  <2>4. \A y : Has(<<x>>, y) <=> x = y
    BY Zenon, <1>3, <2>3, HasNothing
  <2> QED BY <2>2, <2>4
<1>5. ~Has(g.written, Stream!Disposed) /\ ~Has(g.queue, Stream!Disposed) /\ ~Has(chunk, Stream!Disposed)
  BY <1>2 DEF GoneIsLast
<1>6. n + 1 \in Nat /\ n <= n + 1 /\ k <= n /\ g.since <= w /\ w <= q /\ q <= k /\ g.since \in Nat
  BY DEF Marks, Queues
<1>7. CASE s.at # "on"
  <2>1. Stream!Given(s, x) = s
    BY <1>7 DEF Stream!Given
  <2>2. s.at # "last"
    BY DEF GoneIsLast
  <2>3. Marks(g, s, n + 1, w, q, k)
    BY <1>2, <1>5, <1>6, <1>7, <2>2 DEF Marks
  <2> QED BY <2>1, <2>3 DEF x
<1>8. CASE s.at = "on" /\ chunk = <<>> /\ buffer = <<>>
  <2> DEFINE t == [s EXCEPT !.chunk = <<x>>]
  <2>1. Stream!Given(s, x) = t
    BY <1>2, <1>8 DEF Stream!Given, Stream!Idle
  <2>2. t \in Subscriptions /\ t.at = "on" /\ t.chunk = <<x>> /\ t.buffer = <<>>
    BY <1>2, <1>3, <1>8 DEF Subscriptions
  <2> HIDE DEF t
  <2>3. GoneIsLast(g, t, "up")
    BY <1>1, <1>4, <1>5, <1>8, <2>2, HasNothing DEF GoneIsLast
  <2>4. ASSUME g.at = "open" PROVE q = n /\ k = n
    <3>1. Stream!InOrder(<<>>, q, k) /\ Stream!InOrder(<<>>, k, n)
      BY <1>2, <1>8, <2>4 DEF Marks
    <3> QED BY <1>6, <3>1, NothingInOrder
  <2>5. ASSUME g.at = "open" PROVE Stream!InOrder(<<x>>, q, n + 1)
    <3>1. Stream!InOrder(<<>>, n, n) /\ <<>> \in Seq(Items) /\ n <= n
      BY NothingInOrder
    <3>2. Stream!InOrder(Append(<<>>, x), n, n + 1)
      BY <3>1, EventInOrder DEF x
    <3> QED BY <1>3, <2>4, <2>5, <3>2
  <2>6. Stream!InOrder(<<>>, n + 1, n + 1)
    BY <1>6, NothingInOrder
  <2>7. q <= n + 1
    BY <1>6
  <2>8. ~Has(t.chunk, Stream!Disposed)
    BY <1>1, <1>4, <2>2
  <2>9. Marks(g, t, n + 1, w, q, n + 1)
    BY <1>5, <1>6, <2>2, <2>5, <2>6, <2>7, <2>8 DEF Marks
  <2> QED BY <1>6, <1>8, <2>1, <2>2, <2>3, <2>9 DEF x
<1>9. CASE s.at = "on" /\ ~(chunk = <<>> /\ buffer = <<>>)
  <2> DEFINE t == [s EXCEPT !.buffer = Append(buffer, x)]
  <2>1. Stream!Given(s, x) = t
    BY <1>2, <1>9 DEF Stream!Given, Stream!Idle
  <2>2. t \in Subscriptions /\ t.at = "on" /\ t.chunk = chunk /\ t.buffer = Append(buffer, x)
    BY <1>2, <1>3, <1>9 DEF Subscriptions
  <2> HIDE DEF t
  <2>3. GoneIsLast(g, t, "up")
    BY <1>1, <1>2, <1>4, <1>5, <1>9, <2>2 DEF GoneIsLast
  <2>4. ASSUME g.at = "open" PROVE Stream!InOrder(Append(buffer, x), k, n + 1)
    <3>1. Stream!InOrder(buffer, k, n)
      BY <1>2, <1>9, <2>4 DEF Marks
    <3> QED BY <1>6, <3>1, EventInOrder DEF x
  <2>5. k <= n + 1
    BY <1>6
  <2>6. Marks(g, t, n + 1, w, q, k)
    BY <1>2, <1>5, <1>6, <1>9, <2>2, <2>4, <2>5 DEF Marks
  <2> QED BY <1>9, <2>1, <2>2, <2>3, <2>6 DEF x
<1> QED BY <1>2, <1>7, <1>8, <1>9

LEMMA PublishKeeps == ASSUME StreamConstants, StreamInv, Stream!Publish PROVE StreamInv'
<1>1. bus = "up" /\ bus' = "up" /\ published \in Nat /\ published' = published + 1 /\ published' \in 0..MaxEvents
  BY DEF Stream!Publish, StreamInv, StreamConstants
<1>2. ASSUME NEW c \in Connections PROVE Served(c, conn[c], Sub(c))' /\ sub'[c] \in Subscriptions /\ conn'[c] \in Queues
  <2>1. Sub(c) = sub[c] /\ Sub(c)' = sub'[c] /\ Served(c, conn[c], sub[c]) /\ c \notin Globals
    BY <1>2 DEF Sub, StreamInv, StreamConstants
  <2>2. conn'[c] = conn[c] /\ sub'[c] = Stream!Given(sub[c], Stream!Event(published + 1))
    BY <2>1 DEF Stream!Publish, Stream!All
  <2>3. PICK w \in Nat, q \in Nat, k \in Nat : Marks(conn[c], sub[c], published, w, q, k)
    BY <2>1 DEF Served
  <2>4. conn[c] \in Queues /\ sub[c] \in Subscriptions /\ GoneIsLast(conn[c], sub[c], "up")
    BY <1>1, <2>1 DEF Served
  <2>5. /\ sub'[c] \in Subscriptions /\ sub'[c].at = sub[c].at /\ GoneIsLast(conn[c], sub'[c], "up")
        /\ \E p \in Nat : Marks(conn[c], sub'[c], published + 1, w, q, p)
    BY <1>1, <2>2, <2>3, <2>4, GivenKeeps
  <2>6. \E i, j, h \in Nat : Marks(conn'[c], sub'[c], published', i, j, h)
    BY <1>1, <2>2, <2>5
  <2>7. c \in Connections => GoneIsLast(conn'[c], sub'[c], bus') /\ (conn'[c].at = "none" => sub'[c].at = "none")
    BY <1>1, <2>1, <2>2, <2>5 DEF Served
  <2>8. conn'[c].since <= MaxEvents /\ Begins(conn'[c])
    BY <2>1, <2>2 DEF Served
  <2> QED BY <2>1, <2>2, <2>4, <2>5, <2>6, <2>7, <2>8 DEF Served
<1>3. ASSUME NEW c \in Globals PROVE Served(c, conn[c], Sub(c))' /\ conn'[c] \in Queues
  <2>1. /\ c \notin Connections /\ Sub(c) = Direct(conn[c]) /\ Sub(c)' = Direct(conn'[c])
        /\ Served(c, conn[c], Direct(conn[c])) /\ conn[c] \in Queues
    BY <1>3 DEF Sub, StreamInv, StreamConstants, Served
  <2>2. PICK w \in Nat, q \in Nat, k \in Nat : Marks(conn[c], Direct(conn[c]), published, w, q, k)
    BY <2>1 DEF Served
  <2>3. PICK queue \in Seq(Items) : queue = conn[c].queue
    BY <2>1 DEF Queues
  <2>4. Begins(conn[c]) /\ Unsaid(conn[c]) /\ conn[c].since <= MaxEvents /\ conn[c].since \in Nat
    BY <1>3, <2>1 DEF Served, Queues
  <2>5. CASE ~(conn[c].at = "open" /\ ~conn[c].done)
    <3>1. conn'[c] = conn[c]
      BY <2>5 DEF Stream!Publish, Stream!All
    <3>2. conn[c].at = "open" => Direct(conn[c]).at = "off"
      BY <2>5 DEF Direct
    <3>3. Marks(conn[c], Direct(conn[c]), published + 1, w, q, k)
      BY <1>1, <2>2, <2>4, <3>2 DEF Marks, Unsaid
    <3>4. \E i, j, h \in Nat : Marks(conn'[c], Direct(conn'[c]), published', i, j, h)
      BY <1>1, <3>1, <3>3
    <3> QED BY <2>1, <2>4, <3>1, <3>4 DEF Served
  <2>6. CASE conn[c].at = "open" /\ ~conn[c].done
    <3> DEFINE x == Stream!Event(published + 1)
               g == [conn[c] EXCEPT !.queue = Append(queue, x)]
    <3>1. conn'[c] = g
      BY <2>3, <2>6 DEF Stream!Publish, Stream!All, Stream!Push
    <3>2. x \in Items /\ x # Stream!Disposed /\ x # Stream!Null
      BY <1>1, WordsAreItems
    <3> HIDE DEF x
    <3>3. Append(queue, x) \in Seq(Items)
      BY <3>2
    <3>4. /\ g \in Queues /\ g.at = "open" /\ ~g.done /\ g.since = conn[c].since /\ g.written = conn[c].written
          /\ g.queue = Append(queue, x)
      BY <2>1, <2>6, <3>3 DEF Queues
    <3> HIDE DEF g
    <3>5. \A y : Has(Append(queue, x), y) <=> Has(queue, y) \/ x = y
      BY <3>2, HasAppended
    <3>6. Unsaid(g)
      BY <2>3, <2>4, <3>2, <3>4, <3>5 DEF Unsaid
    <3>7. Append(queue, x) # <<>> /\ (queue # <<>> => Append(queue, x)[1] = queue[1])
      <4>1. Len(Append(queue, x)) = Len(queue) + 1 /\ (queue # <<>> => Append(queue, x)[1] = queue[1])
        BY <3>2
      <4>2. Append(queue, x) # <<>>
        BY <4>1
      <4> QED BY <4>1, <4>2
    <3>8. Begins(g)
      BY <2>3, <2>4, <2>6, <3>2, <3>4, <3>5, <3>7 DEF Begins
    <3>9. Direct(conn[c]) = [at |-> "on", buffer |-> <<>>, chunk |-> <<>>] /\ Direct(g) = Direct(conn[c])
      BY <2>6, <3>4 DEF Direct
    <3>10. PICK s \in Subscriptions : s = Direct(g)
      BY <2>1, <3>9 DEF Served
    <3>11. s.at = "on" /\ s.chunk = <<>> /\ s.buffer = <<>> /\ Marks(conn[c], s, published, w, q, k)
      BY <2>2, <3>9, <3>10
    <3>12. Stream!InOrder(queue, w, q) /\ w <= q /\ q <= k /\ k <= published /\ Stream!InOrder(<<>>, q, k)
           /\ Stream!InOrder(<<>>, k, published)
      BY <2>3, <2>6, <3>11 DEF Marks
    <3>13. q = published
      BY <1>1, <3>12, NothingInOrder
    <3>14. Stream!InOrder(Append(queue, x), w, published + 1)
      BY <3>12, <3>13, EventInOrder DEF x
    <3>15. Stream!InOrder(<<>>, published + 1, published + 1) /\ w <= published + 1
      BY <1>1, <3>12, <3>13, NothingInOrder
    <3>16. Marks(g, s, published + 1, w, published + 1, published + 1)
      BY <1>1, <2>2, <3>4, <3>6, <3>11, <3>14, <3>15, HasNothing DEF Marks, Unsaid
    <3>17. \E i, j, h \in Nat : Marks(conn'[c], Direct(conn'[c]), published', i, j, h)
      BY <1>1, <3>1, <3>10, <3>16
    <3>18. conn'[c] \in Queues /\ Direct(conn'[c]) \in Subscriptions /\ Begins(conn'[c]) /\ Unsaid(conn'[c])
           /\ conn'[c].since <= MaxEvents
      BY <2>4, <3>1, <3>4, <3>6, <3>8, <3>10
    <3> QED BY <2>1, <3>17, <3>18 DEF Served
  <2> QED BY <2>5, <2>6
<1>4. sub' \in [Connections -> Subscriptions] /\ conn' \in [Connections \cup Globals -> Queues]
  BY <1>2, <1>3 DEF Stream!Publish, Stream!All
<1> QED BY <1>1, <1>2, <1>3, <1>4 DEF StreamInv

LEMMA LastWordsKeep ==
  ASSUME NEW g \in Queues, NEW s \in Subscriptions, NEW n \in Nat, GoneIsLast(g, s, "up"),
         NEW w \in Nat, NEW q \in Nat, NEW k \in Nat, Marks(g, s, n, w, q, k)
  PROVE  LET t == Stream!LastWords(s)
         IN  /\ t \in Subscriptions /\ (s.at = "none" => t.at = "none") /\ GoneIsLast(g, t, "down")
             /\ Marks(g, t, n, w, q, k)
<1> DEFINE t == Stream!LastWords(s)
<1>1. Stream!Disposed \in Items /\ Stream!Disposed.type # "event" /\ Stream!Disposed # Stream!Null
  BY WordsAreItems
<1>2. PICK buffer \in Seq(Items), chunk \in Seq(Items) : buffer = s.buffer /\ chunk = s.chunk
  BY DEF Subscriptions
<1>3. <<>> \in Seq(Items) /\ <<Stream!Disposed>> \in Seq(Items) /\ <<Stream!Disposed>> = Append(<<>>, Stream!Disposed)
      /\ Len(<<Stream!Disposed>>) = 1
  BY <1>1
<1>4. ~Has(<<Stream!Disposed>>, Stream!Null)
  <2>1. Has(Append(<<>>, Stream!Disposed), Stream!Null) <=> Has(<<>>, Stream!Null) \/ Stream!Disposed = Stream!Null
    BY <1>1, <1>3, HasAppended
  <2> QED BY Zenon, <1>1, <1>3, <2>1, HasNothing
<1>5. ~Has(g.written, Stream!Disposed) /\ ~Has(g.queue, Stream!Disposed) /\ ~Has(chunk, Stream!Disposed)
  BY <1>2 DEF GoneIsLast
<1>6. CASE s.at # "on"
  <2>1. t = [s EXCEPT !.buffer = <<>>, !.at = s.at]
    BY <1>6 DEF Stream!LastWords, Stream!ShutDown, Stream!Given
  <2>2. t \in Subscriptions /\ t.at = s.at /\ t.buffer = <<>> /\ t.chunk = s.chunk
    BY <1>3, <2>1 DEF Subscriptions
  <2> HIDE DEF t
  <2>3. s.at # "last"
    BY DEF GoneIsLast
  <2>4. GoneIsLast(g, t, "down")
    BY <1>6, <2>2, <2>3, HasNothing DEF GoneIsLast
  <2>5. Marks(g, t, n, w, q, k)
    BY <1>6, <2>2, <2>3 DEF Marks
  <2> QED BY <2>2, <2>4, <2>5 DEF t
<1>7. CASE s.at = "on" /\ chunk = <<>> /\ buffer = <<>>
  <2>1. PICK u : u = [s EXCEPT !.chunk = <<Stream!Disposed>>]
    OBVIOUS
  <2>2. u \in Subscriptions /\ u.at = "on" /\ u.chunk = <<Stream!Disposed>> /\ u.buffer = <<>>
    BY <1>2, <1>3, <1>7, <2>1 DEF Subscriptions
  <2>3. Stream!Given(s, Stream!Disposed) = u
    BY <1>2, <1>7, <2>1 DEF Stream!Given, Stream!Idle
  <2>4. t = [u EXCEPT !.buffer = <<>>, !.at = "last"]
    BY <2>2, <2>3 DEF Stream!LastWords, Stream!ShutDown
  <2>5. t \in Subscriptions /\ t.at = "last" /\ t.buffer = <<>> /\ t.chunk = <<Stream!Disposed>>
    BY <1>3, <2>2, <2>4 DEF Subscriptions
  <2> HIDE DEF t
  <2>6. GoneIsLast(g, t, "down")
    BY <1>3, <1>4, <1>5, <2>5, HasNothing DEF GoneIsLast
  <2>7. ASSUME g.at = "open" PROVE q = k /\ k = n
    <3>1. Stream!InOrder(<<>>, q, k) /\ Stream!InOrder(<<>>, k, n) /\ q <= k /\ k <= n
      BY <1>2, <1>7, <2>7 DEF Marks
    <3> QED BY <3>1, NothingInOrder
  <2>8. ASSUME g.at = "open" PROVE Stream!InOrder(<<Stream!Disposed>>, q, k)
    <3>1. Stream!InOrder(<<>>, q, k)
      BY <1>2, <1>7, <2>8 DEF Marks
    <3> QED BY <1>1, <1>3, <3>1, WordInOrder
  <2>9. Marks(g, t, n, w, q, k)
    BY <1>5, <2>5, <2>7, <2>8 DEF Marks
  <2> QED BY <1>7, <2>5, <2>6, <2>9 DEF t
<1>8. CASE s.at = "on" /\ ~(chunk = <<>> /\ buffer = <<>>)
  <2>1. PICK u : u = [s EXCEPT !.buffer = Append(buffer, Stream!Disposed)]
    OBVIOUS
  <2>2. u \in Subscriptions /\ u.at = "on" /\ u.chunk = chunk
    <3>0. Append(buffer, Stream!Disposed) \in Seq(Items)
      BY <1>1
    <3>1. PICK longer \in Seq(Items) : longer = Append(buffer, Stream!Disposed)
      BY <3>0
    <3> QED BY <1>2, <1>8, <2>1, <3>1 DEF Subscriptions
  <2>3. Stream!Given(s, Stream!Disposed) = u
    BY <1>2, <1>8, <2>1 DEF Stream!Given, Stream!Idle
  <2>4. t = [u EXCEPT !.buffer = <<>>, !.at = "last"]
    BY <2>2, <2>3 DEF Stream!LastWords, Stream!ShutDown
  <2>5. t \in Subscriptions /\ t.at = "last" /\ t.buffer = <<>> /\ t.chunk = chunk
    BY <1>3, <2>2, <2>4 DEF Subscriptions
  <2> HIDE DEF t
  <2>6. GoneIsLast(g, t, "down")
    BY <1>2, <1>5, <2>5, HasNothing DEF GoneIsLast
  <2>7. Marks(g, t, n, w, q, k)
    BY <1>2, <1>5, <1>8, <2>5 DEF Marks
  <2> QED BY <1>8, <2>5, <2>6, <2>7 DEF t
<1> QED BY <1>2, <1>6, <1>7, <1>8

LEMMA DisposeKeeps == ASSUME StreamConstants, StreamInv, Stream!Dispose PROVE StreamInv'
<1>1. bus = "up" /\ bus' = "down" /\ published \in Nat /\ published' = published
  BY DEF Stream!Dispose, StreamInv, StreamConstants
<1>2. ASSUME NEW c \in Connections PROVE Served(c, conn[c], Sub(c))' /\ sub'[c] \in Subscriptions /\ conn'[c] \in Queues
  <2>1. Sub(c) = sub[c] /\ Sub(c)' = sub'[c] /\ Served(c, conn[c], sub[c]) /\ c \notin Globals
    BY <1>2 DEF Sub, StreamInv, StreamConstants
  <2>2. conn[c] \in Queues /\ sub[c] \in Subscriptions /\ GoneIsLast(conn[c], sub[c], "up") /\ Begins(conn[c])
    BY <1>1, <2>1 DEF Served
  <2>3. conn'[c] = conn[c] \/ conn'[c] = [conn[c] EXCEPT !.late = TRUE]
    BY DEF Stream!Dispose, Stream!All
  <2>4. /\ conn'[c] \in Queues /\ conn'[c].at = conn[c].at /\ conn'[c].since = conn[c].since
        /\ conn'[c].queue = conn[c].queue /\ conn'[c].written = conn[c].written /\ conn'[c].done = conn[c].done
    BY <2>2, <2>3 DEF Queues
  <2>5. sub'[c] = Stream!LastWords(sub[c])
    BY DEF Stream!Dispose
  <2>6. PICK w \in Nat, q \in Nat, k \in Nat : Marks(conn[c], sub[c], published, w, q, k)
    BY <2>1 DEF Served
  <2>7. /\ sub'[c] \in Subscriptions /\ (sub[c].at = "none" => sub'[c].at = "none")
        /\ GoneIsLast(conn[c], sub'[c], "down") /\ Marks(conn[c], sub'[c], published, w, q, k)
    BY <1>1, <2>2, <2>5, <2>6, LastWordsKeep
  <2>8. \E i, j, h \in Nat : Marks(conn'[c], sub'[c], published', i, j, h)
    <3>1. Marks(conn'[c], sub'[c], published', w, q, k)
      BY <1>1, <2>4, <2>7 DEF Marks
    <3> QED BY <3>1
  <2>9. GoneIsLast(conn'[c], sub'[c], bus')
    BY <1>1, <2>4, <2>7 DEF GoneIsLast
  <2>10. Begins(conn'[c]) /\ conn'[c].since <= MaxEvents
    BY <2>1, <2>2, <2>4 DEF Begins, Served
  <2>11. conn'[c].at = "none" => sub'[c].at = "none"
    BY <2>1, <2>4, <2>7 DEF Served
  <2> QED BY <2>1, <2>4, <2>7, <2>8, <2>9, <2>10, <2>11 DEF Served
<1>3. ASSUME NEW c \in Globals PROVE Served(c, conn[c], Sub(c))' /\ conn'[c] \in Queues
  <2>1. c \notin Connections /\ Sub(c) = Direct(conn[c]) /\ Sub(c)' = Direct(conn'[c])
        /\ Served(c, conn[c], Direct(conn[c]))
    BY <1>3 DEF Sub, StreamInv, StreamConstants
  <2>2. conn'[c] = conn[c]
    BY <2>1 DEF Stream!Dispose, Stream!All
  <2> QED BY <1>1, <2>1, <2>2 DEF Served
<1>4. sub' \in [Connections -> Subscriptions] /\ conn' \in [Connections \cup Globals -> Queues]
  BY <1>2, <1>3 DEF Stream!Dispose, Stream!All
<1> QED BY <1>1, <1>2, <1>3, <1>4 DEF StreamInv

LEMMA NextStreamInv == ASSUME StreamConstants, StreamInv, [Stream!Next]_streamVars PROVE StreamInv'
<1>1. ASSUME UNCHANGED streamVars PROVE StreamInv'
  <2>1. \A c : Sub(c)' = Sub(c)
    BY <1>1 DEF Sub, streamVars
  <2> QED BY <1>1, <2>1 DEF streamVars, StreamInv, Served
<1>2. ASSUME NEW c \in Connections \cup Globals,
             Stream!Open(c) \/ Stream!Beat(c) \/ Stream!Abort(c) \/ Stream!GoesOn(c)
      PROVE  StreamInv'
  BY <1>2, OpenKeeps, BeatKeeps, AbortKeeps, WriteKeeps, TakeAllKeeps, CallBackKeeps, UnsubscribeKeeps
     DEF Stream!GoesOn
<1> QED BY <1>1, <1>2, PublishKeeps, DisposeKeeps DEF Stream!Next, Stream!All

LEMMA InvIsInOrder == ASSUME StreamConstants, StreamInv PROVE Stream!StreamInOrder
<1>1. published \in Nat
  BY DEF StreamInv, StreamConstants
<1>2. Stream!TypeOK
  <2>1. ASSUME NEW c \in Connections PROVE sub[c].at \in {"none", "on", "last", "off"} /\ (sub[c].buffer # <<>> => bus = "up")
    BY <2>1 DEF StreamInv, Served, GoneIsLast, Sub, Subscriptions
  <2>2. ASSUME NEW c \in Connections \cup Globals
        PROVE /\ conn[c].at \in {"none", "open", "closed"} /\ conn[c].done \in BOOLEAN /\ conn[c].late \in BOOLEAN
              /\ conn[c].since \in Nat /\ conn[c].since <= MaxEvents /\ conn[c].beats \in 0..MaxBeats
    BY <2>2 DEF StreamInv, Served, Queues
  <2>3. ASSUME NEW c \in Connections \cup Globals PROVE conn[c].since \in 0..MaxEvents
    BY <2>2 DEF StreamConstants
  <2> QED BY <2>1, <2>2, <2>3 DEF StreamInv, Stream!TypeOK, Stream!All
<1>3. ASSUME NEW c \in Connections \cup Globals
      PROVE  \E n \in conn[c].since..published : Stream!InOrder(conn[c].written, conn[c].since, n)
  <2>1. PICK w \in Nat, q \in Nat, k \in Nat : Marks(conn[c], Sub(c), published, w, q, k)
    BY <1>3 DEF StreamInv, Served
  <2>2. conn[c].since \in Nat
    BY <1>3 DEF StreamInv, Queues
  <2>3. w \in conn[c].since..published
    BY <1>1, <2>1, <2>2 DEF Marks
  <2> QED BY <2>1, <2>3 DEF Marks
<1>4. ASSUME NEW c \in Connections \cup Globals
      PROVE  /\ conn[c].written # <<>> => Head(conn[c].written) = Stream!Connected
             /\ \A i \in DOMAIN conn[c].written : conn[c].written[i] = Stream!Disposed => i = Len(conn[c].written)
  <2>1. Begins(conn[c]) /\ conn[c].written \in Seq(Items)
    BY <1>4 DEF StreamInv, Served, Queues
  <2>2. c \in Connections => GoneIsLast(conn[c], sub[c], bus)
    BY <1>4 DEF StreamInv, Served, Sub
  <2>3. c \in Globals => ~Has(conn[c].written, Stream!Disposed)
    BY <1>4 DEF StreamInv, Served, Unsaid
  <2>4. conn[c].written # <<>> => Head(conn[c].written) = Stream!Connected
    BY <2>1 DEF Begins
  <2>5. \A i \in DOMAIN conn[c].written : conn[c].written[i] = Stream!Disposed => i = Len(conn[c].written)
    BY <1>4, <2>2, <2>3 DEF GoneIsLast, Has
  <2> QED BY <2>4, <2>5
<1>5. Stream!WrittenInOrder
  BY <1>3, <1>4 DEF Stream!WrittenInOrder, Stream!All
<1>6. ASSUME NEW c \in Connections, \E i \in DOMAIN conn[c].written : conn[c].written[i] = Stream!Disposed,
             NEW n \in conn[c].since + 1..published
      PROVE  \E i \in DOMAIN conn[c].written : conn[c].written[i] = Stream!Event(n)
  <2>1. PICK w \in Nat, q \in Nat, k \in Nat : Marks(conn[c], sub[c], published, w, q, k)
    BY <1>6 DEF StreamInv, Served, Sub
  <2>2. Stream!InOrder(conn[c].written, conn[c].since, published)
    BY <1>6, <2>1 DEF Marks, Has
  <2> QED BY <2>2 DEF Stream!InOrder
<1>7. Stream!NothingSkipped
  BY <1>6 DEF Stream!NothingSkipped
<1> QED BY <1>2, <1>5, <1>7 DEF Stream!StreamInOrder

\* /event and /global/event: a connection is told every event since it was opened, once
\* and in order, whatever its subscription is busy with, and that the instance is gone
\* behind all of them.
THEOREM EventsAreInOrder == ASSUME StreamConstants PROVE SessionSpec => []StreamInOrder
<1>1. SessionInit => StreamInv
  BY InitStreamInv, Starts DEF PartsStart
<1>2. StreamInv /\ [SessionNext]_sessionVars => StreamInv'
  BY NextStreamInv, Steps DEF PartsStep
<1>3. StreamInv => StreamInOrder
  BY InvIsInOrder DEF StreamInOrder
<1> QED BY <1>1, <1>2, <1>3, PTL DEF SessionSpec

-----------------------------------------------------------------------------
(* A shell command, for any number of chunks of any size.  What the fiber  *)
(* has taken is in the list as long as it is short; when the total is more *)
(* than MAX_BYTES, all of it goes to a file.                               *)

ShellConstants == Bytes \in Nat /\ Sizes \subseteq Nat /\ NoFile \notin SUBSET Nat

\* Nothing was cut off yet, or all that was taken is in the file.
Held ==
    \/ file = NoFile /\ first = 1 /\ ~cut /\ Shell!Total(taken) <= Bytes
    \/ file = 1..taken /\ cut

\* The fiber saves what it has taken, or was interrupted while it did: the list alone is
\* too long.
Saving == file = NoFile /\ Shell!Size(first, taken) > Bytes

ShellInv ==
    /\ command \in [state : {"running", "exited", "signalled"}, deaf : BOOLEAN]
    /\ sizes \in Seq(Nat)
    /\ \A i \in 1..Len(sizes) : \A j \in 1..i : sizes[j] <= sizes[i]
    /\ taken \in 0..Len(sizes) /\ first \in 1..taken + 1 /\ cut \in BOOLEAN
    /\ file = NoFile \/ file \subseteq 1..taken
    /\ fiber \in {"waiting", "saving", "stopped", "cutOff"}
    /\ call \in {"running", "killing", "collecting", "done", "died"}
    /\ call \in {"running", "killing"} => fiber \in {"waiting", "saving"}
    /\ call \in {"collecting", "done", "died"} => ~Shell!Running
    /\ call \in {"collecting", "done", "died"} => fiber \in {"stopped", "cutOff"}
    /\ call \in {"collecting", "done"} /\ fiber = "stopped" => taken = Len(sizes)
    /\ call # "done" /\ fiber \in {"waiting", "stopped"} => Held
    /\ call # "done" /\ fiber \in {"saving", "cutOff"} => Saving
    /\ Shell!OutputKept

\* The bytes of the first n chunks do not shrink.
LEMMA TotalGrows ==
  ASSUME ShellInv, NEW n \in 0..Len(sizes)
  PROVE  Shell!Total(n) \in Nat /\ \A m \in 0..n : Shell!Total(m) \in Nat /\ Shell!Total(m) <= Shell!Total(n)
<1>1. PICK length \in Nat : length = Len(sizes)
  BY DEF ShellInv
<1>2. \A i \in 1..length : sizes[i] \in Nat /\ \A j \in 1..i : sizes[j] <= sizes[i]
  BY <1>1 DEF ShellInv
<1>3. ASSUME NEW i \in 0..length PROVE Shell!Total(i) \in Nat
  BY <1>1, <1>2 DEF Shell!Total
<1>4. ASSUME NEW m \in 0..n PROVE Shell!Total(m) <= Shell!Total(n)
  <2>1. CASE m = 0
    BY <1>1, <1>3, <2>1 DEF Shell!Total
  <2>2. CASE m # 0
    <3>1. n \in 1..length /\ m \in 1..n
      BY <1>1, <2>2
    <3> QED BY <1>2, <3>1 DEF Shell!Total
  <2> QED BY <2>1, <2>2
<1> QED BY <1>1, <1>3, <1>4

\* The list begins as early as its size allows.
LEMMA ListBegins ==
  ASSUME ShellConstants, ShellInv, taken < Len(sizes)
  PROVE  LET n == taken + 1
         IN  /\ Shell!ListStart(n) \in first..n
             /\ \A j \in first..Shell!ListStart(n) - 1 : ~Shell!Fits(j, n)
<1>1. taken \in Nat /\ first \in Nat /\ first <= taken + 1
  BY DEF ShellInv
<1> DEFINE n == taken + 1
           S == {i \in first..n : Shell!Fits(i, n)}
<1>2. n \in S
  BY <1>1 DEF Shell!Fits
<1>3. S \in SUBSET Nat /\ S # {}
  BY <1>1, <1>2
<1>4. PICK i \in S : \A k \in S : i <= k
  BY <1>3, Numbers!LeastOf
<1>5. \A j \in first..i - 1 : ~Shell!Fits(j, n)
  BY <1>1, <1>4
<1>6. i \in first..n /\ Shell!Fits(i, n)
  BY <1>4
<1> HIDE DEF S
<1>7. \E h \in first..n : Shell!Fits(h, n) /\ \A j \in first..h - 1 : ~Shell!Fits(j, n)
  BY <1>5, <1>6
<1> QED BY <1>7 DEF Shell!ListStart

LEMMA InitShellInv == ASSUME ShellConstants, Shell!Init PROVE ShellInv
<1>1. Held
  BY DEF ShellConstants, Shell!Init, Held, Shell!Total
<1>2. <<>> \in Seq(Nat) /\ Len(<<>>) = 0
  OBVIOUS
<1>3. command \in [state : {"running", "exited", "signalled"}, deaf : BOOLEAN] /\ cut \in BOOLEAN
  BY DEF Shell!Init
<1> QED BY <1>1, <1>2, <1>3 DEF Shell!Init, ShellInv, Shell!OutputKept

LEMMA WriteKeepsShell ==
  ASSUME ShellConstants, ShellInv, NEW size \in Sizes, Shell!Write(size)
  PROVE  ShellInv'
<1>1. PICK n \in Nat : n = Len(sizes)
  BY DEF ShellInv
<1>2. /\ sizes' = Append(sizes, Shell!Total(n) + size) /\ Shell!Running
      /\ UNCHANGED <<command, taken, first, cut, file, fiber, call, ended>>
  BY <1>1 DEF Shell!Write
<1>3. Shell!Total(n) \in Nat /\ (\A m \in 0..n : Shell!Total(m) \in Nat /\ Shell!Total(m) <= Shell!Total(n)) /\ size \in Nat
  BY <1>1, TotalGrows DEF ShellConstants
<1>4. PICK total \in Nat : total = Shell!Total(n) + size /\ \A i \in 1..n : sizes[i] <= total
  <2>1. \A i \in 1..n : sizes[i] = Shell!Total(i) /\ i \in 0..n
    BY <1>1 DEF Shell!Total
  <2>2. \A i \in 1..n : sizes[i] <= Shell!Total(n) + size
    BY <1>3, <2>1
  <2> QED BY <1>3, <2>2
<1>5. /\ sizes' \in Seq(Nat) /\ Len(sizes') = n + 1 /\ sizes'[n + 1] = total /\ \A i \in 1..n : sizes'[i] = sizes[i]
  BY <1>1, <1>2, <1>4 DEF ShellInv
<1>6. ASSUME NEW i \in 1..n + 1, NEW j \in 1..i PROVE sizes'[j] <= sizes'[i]
  <2>1. CASE i = n + 1 /\ j = n + 1
    BY <1>4, <1>5, <2>1
  <2>2. CASE i = n + 1 /\ j # n + 1
    <3>1. j \in 1..n
      BY <1>1, <2>2
    <3> QED BY <1>4, <1>5, <2>2, <3>1
  <2>3. CASE i # n + 1
    <3>1. i \in 1..n /\ j \in 1..n /\ sizes[j] <= sizes[i]
      BY <1>1, <2>3 DEF ShellInv
    <3> QED BY <1>5, <3>1
  <2> QED BY <2>1, <2>2, <2>3
<1>7. ASSUME NEW m \in 0..n PROVE Shell!Total(m)' = Shell!Total(m)
  BY <1>5 DEF Shell!Total
<1>8. taken \in 0..n /\ first - 1 \in 0..n /\ taken \in 0..n + 1
  BY <1>1 DEF ShellInv
<1>9. Shell!Total(taken)' = Shell!Total(taken) /\ Shell!Size(first, taken)' = Shell!Size(first, taken)
  BY <1>2, <1>7, <1>8 DEF Shell!Size, Shell!Total
<1>10. Held' = Held /\ Saving' = Saving
  BY <1>2, <1>9 DEF Held, Saving
<1>11. call \notin {"collecting", "done", "died"}
  BY <1>2 DEF ShellInv
<1> QED BY <1>2, <1>5, <1>6, <1>8, <1>10, <1>11 DEF ShellInv, Shell!OutputKept

\* The command ends, by itself or by a signal, and nothing else happens.
LEMMA EndKeepsShell ==
  ASSUME ShellInv, Shell!Running, NEW how \in {"exited", "signalled"},
         command' = [command EXCEPT !.state = how], UNCHANGED <<sizes, taken, first, cut, file, fiber, call, ended>>
  PROVE  ShellInv'
<1>1. command' \in [state : {"running", "exited", "signalled"}, deaf : BOOLEAN]
  BY DEF ShellInv
<1>2. call \notin {"collecting", "done", "died"}
  BY DEF ShellInv
<1>3. Held' = Held /\ Saving' = Saving
  BY DEF Held, Saving, Shell!Size, Shell!Total
<1> QED BY <1>1, <1>2, <1>3 DEF ShellInv, Shell!OutputKept

LEMMA TakeKeepsShell == ASSUME ShellConstants, ShellInv, Shell!Take PROVE ShellInv'
<1>1. PICK length \in Nat : length = Len(sizes)
  BY DEF ShellInv
<1>2. PICK n \in Nat : n = taken + 1
  BY DEF ShellInv
<1>3. /\ taken' = n /\ n \in 1..length /\ taken \in Nat /\ first' = Shell!ListStart(n)
      /\ cut' = (cut \/ Shell!ListStart(n) # first)
      /\ file' = (IF file = NoFile THEN NoFile ELSE file \cup {n})
      /\ fiber' = (IF file = NoFile /\ Shell!Size(1, n) > Bytes THEN "saving" ELSE "waiting")
      /\ fiber = "waiting" /\ call \in {"running", "killing"} /\ UNCHANGED <<command, sizes, call, ended>>
  BY <1>1, <1>2 DEF ShellInv, Shell!Take, Shell!WithChunk
<1>4. PICK start \in first..n : start = Shell!ListStart(n) /\ \A j \in first..start - 1 : ~Shell!Fits(j, n)
  BY <1>1, <1>2, <1>3, ListBegins
<1>5. first \in Nat /\ first >= 1 /\ start \in Nat /\ start <= n /\ start >= 1
  BY <1>3, <1>4 DEF ShellInv
<1>6. Held /\ cut \in BOOLEAN
  BY <1>3 DEF ShellInv
<1>7. Shell!Total(0) = 0 /\ Shell!Size(1, n) = Shell!Total(n) /\ Shell!Total(n) \in Nat
      /\ \A m \in 0..n : Shell!Total(m) \in Nat /\ Shell!Total(m) <= Shell!Total(n)
  <2>1. n \in 0..Len(sizes) /\ 1 - 1 = 0
    BY <1>1, <1>3
  <2>2. Shell!Total(n) \in Nat /\ \A m \in 0..n : Shell!Total(m) \in Nat /\ Shell!Total(m) <= Shell!Total(n)
    BY <2>1, TotalGrows
  <2> QED BY <2>1, <2>2 DEF Shell!Size, Shell!Total
<1>8. (\A m : Shell!Total(m)' = Shell!Total(m)) /\ (\A m, k : Shell!Size(m, k)' = Shell!Size(m, k))
  BY <1>3 DEF Shell!Total, Shell!Size
<1>9. Bytes \in Nat
  BY DEF ShellConstants
<1>10. CASE file = NoFile /\ Shell!Total(n) <= Bytes
  <2>1. first = 1 /\ ~cut
    <3>1. 1..taken \in SUBSET Nat
      BY <1>3
    <3>2. file # 1..taken
      BY <1>10, <3>1 DEF ShellConstants
    <3> QED BY <1>6, <3>2 DEF Held
  <2>2. Shell!Fits(1, n)
    BY <1>7, <1>9, <1>10 DEF Shell!Fits, Shell!Keep
  <2>3. start = 1
    <3>1. ~(1 < start)
      BY <1>4, <1>5, <2>1, <2>2
    <3> QED BY <1>5, <3>1
  <2>4. first' = 1 /\ ~cut' /\ file' = NoFile /\ fiber' = "waiting"
    <3>1. Shell!ListStart(n) = 1
      BY <1>4, <2>3
    <3>2. ~(Shell!Size(1, n) > Bytes)
      BY <1>7, <1>9, <1>10
    <3>3. first' = 1 /\ ~cut'
      BY <1>3, <2>1, <3>1
    <3> QED BY <1>3, <1>10, <3>2, <3>3
  <2>5. Held'
    BY <1>3, <1>8, <1>10, <2>4 DEF Held
  <2> QED BY <1>1, <1>3, <2>4, <2>5 DEF ShellInv, Shell!OutputKept, Shell!Running
<1>11. CASE file = NoFile /\ Shell!Total(n) > Bytes
  <2>1. first = 1 /\ Shell!Total(n - 1) <= Bytes
    BY <1>2, <1>3, <1>6, <1>11 DEF Held, ShellConstants
  <2>2. Shell!Size(start, n) > Bytes
    <3>1. CASE start = 1
      BY <1>7, <1>11, <3>1
    <3>2. CASE start # 1
      <4>1. ~Shell!Fits(1, n)
        BY <1>4, <1>5, <2>1, <3>2
      <4>2. Shell!Total(n) > 2 * Bytes
        BY <1>7, <1>9, <4>1 DEF Shell!Fits, Shell!Keep
      <4>3. start - 1 \in 0..n - 1 /\ n - 1 \in 0..Len(sizes)
        BY <1>1, <1>3, <1>5
      <4>4. Shell!Total(start - 1) <= Shell!Total(n - 1) /\ Shell!Total(start - 1) \in Nat /\ Shell!Total(n - 1) \in Nat
        BY <4>3, TotalGrows
      <4>5. Shell!Total(n) - Shell!Total(start - 1) > Bytes
        BY <1>7, <1>9, <2>1, <4>2, <4>4
      <4> QED BY <4>5 DEF Shell!Size
    <3> QED BY <3>1, <3>2
  <2>3. first' = start /\ file' = NoFile /\ fiber' = "saving" /\ cut' \in BOOLEAN
    BY <1>3, <1>4, <1>7, <1>11
  <2>4. Saving'
    BY <1>3, <1>8, <2>2, <2>3 DEF Saving
  <2>5. first' \in 1..n + 1
    BY <1>5, <2>3
  <2> QED BY <1>1, <1>3, <2>3, <2>4, <2>5 DEF ShellInv, Shell!OutputKept, Shell!Running
<1>12. CASE file # NoFile
  <2>1. file = 1..taken /\ cut
    BY <1>6, <1>12 DEF Held
  <2>2. file' = 1..n /\ cut' /\ fiber' = "waiting" /\ first' \in 1..n + 1
    <3>1. 1..n = (1..taken) \cup {n}
      BY <1>2, <1>3
    <3>2. first' \in 1..n + 1
      BY <1>3, <1>4, <1>5
    <3> QED BY <1>3, <1>12, <2>1, <3>1, <3>2
  <2>3. Held'
    BY <1>3, <2>2 DEF Held
  <2> QED BY <1>1, <1>3, <2>2, <2>3 DEF ShellInv, Shell!OutputKept, Shell!Running
<1> QED BY <1>7, <1>9, <1>10, <1>11, <1>12

LEMMA SavedKeepsShell == ASSUME ShellConstants, ShellInv, Shell!Saved PROVE ShellInv'
<1>1. Held'
  BY DEF Shell!Saved, Held
<1>2. taken' \in 0..Len(sizes') /\ file' \subseteq 1..taken' /\ cut' = TRUE /\ fiber' = "waiting"
  <2>1. taken' = taken /\ sizes' = sizes /\ file' = 1..taken /\ cut' = TRUE /\ fiber' = "waiting"
    BY DEF Shell!Saved
  <2>2. taken \in 0..Len(sizes)
    BY DEF ShellInv
  <2> QED BY <2>1, <2>2
<1>3. call \in {"running", "killing"}
  BY DEF ShellInv, Shell!Saved
<1> QED BY <1>1, <1>2, <1>3 DEF ShellInv, Shell!Saved, Shell!OutputKept, Shell!Running

\* The race is decided, and with it the fiber interrupted.
LEMMA StopKeepsShell ==
  ASSUME ShellInv, call \in {"running", "killing"}, ~Shell!Running, call' \in {"collecting", "died"}, Shell!StopFiber,
         call' = "collecting" => Shell!Closed, UNCHANGED <<command, sizes, taken, first, cut, file>>
  PROVE  ShellInv'
<1>1. Held' = Held /\ Saving' = Saving /\ Shell!Running' = Shell!Running
  BY DEF Held, Saving, Shell!Size, Shell!Total, Shell!Running
<1>2. CASE fiber = "saving"
  <2>1. fiber' = "cutOff" /\ Saving
    BY <1>2 DEF ShellInv, Shell!StopFiber
  <2> QED BY <1>1, <2>1 DEF ShellInv, Shell!OutputKept
<1>3. CASE fiber # "saving"
  <2>1. fiber' = "stopped" /\ Held
    BY <1>3 DEF ShellInv, Shell!StopFiber
  <2>2. call' = "collecting" => taken = Len(sizes)
    BY <1>3 DEF Shell!Closed
  <2> QED BY <1>1, <2>1, <2>2 DEF ShellInv, Shell!OutputKept
<1> QED BY <1>2, <1>3

LEMMA KillKeepsShell ==
  ASSUME ShellInv, NEW why, Shell!Kill(why)
  PROVE  ShellInv'
<1>1. CASE Shell!Running
  <2>1. call' = "killing" /\ call = "running" /\ UNCHANGED <<command, sizes, taken, first, cut, file, fiber>>
    BY <1>1 DEF Shell!Kill
  <2>2. Held' = Held /\ Saving' = Saving
    BY <2>1 DEF Held, Saving, Shell!Size, Shell!Total
  <2> QED BY <2>1, <2>2 DEF ShellInv, Shell!OutputKept
<1>2. CASE ~Shell!Running
  BY <1>2, StopKeepsShell DEF Shell!Kill
<1> QED BY <1>1, <1>2

LEMMA CollectKeepsShell == ASSUME ShellConstants, ShellInv, Shell!Collect PROVE ShellInv'
<1> DEFINE tooLong == Shell!Size(first, taken) > Bytes
<1>1. /\ call = "collecting" /\ call' = "done" /\ cut' = (cut \/ tooLong)
      /\ file' = (IF file = NoFile /\ tooLong THEN first..taken ELSE file)
      /\ UNCHANGED <<command, sizes, taken, first, fiber, ended>>
  BY DEF Shell!Collect
<1>2. first..taken \subseteq 1..taken /\ first..taken # NoFile /\ 1..taken # NoFile
  BY DEF ShellInv, ShellConstants
<1>3. tooLong \in BOOLEAN
  OBVIOUS
<1>4. CASE fiber = "stopped" /\ file = NoFile
  <2>1. first = 1 /\ ~cut /\ Shell!Total(taken) <= Bytes /\ taken = Len(sizes)
    BY <1>1, <1>2, <1>4 DEF ShellInv, Held
  <2>2. Shell!Total(taken) \in Nat
    BY TotalGrows DEF ShellInv
  <2>3. ~tooLong
    BY <2>1, <2>2 DEF Shell!Size, Shell!Total, ShellConstants
  <2> HIDE DEF tooLong
  <2>4. ~cut' /\ file' = NoFile
    BY <1>1, <1>4, <2>1, <2>3
  <2>5. Shell!OutputKept'
    BY <1>1, <2>1, <2>4 DEF Shell!OutputKept
  <2> QED BY <1>1, <2>4, <2>5 DEF ShellInv, Shell!Running
<1>5. CASE fiber = "stopped" /\ file # NoFile
  <2>1. file = 1..taken /\ cut /\ taken = Len(sizes)
    BY <1>1, <1>5 DEF ShellInv, Held
  <2> HIDE DEF tooLong
  <2>2. cut' = TRUE /\ file' = file
    BY <1>1, <1>5, <2>1
  <2>3. Shell!OutputKept'
    BY <1>1, <1>5, <2>1, <2>2 DEF Shell!OutputKept
  <2> QED BY <1>1, <2>2, <2>3 DEF ShellInv, Shell!Running
<1>6. CASE fiber = "cutOff"
  <2>1. file = NoFile /\ tooLong
    BY <1>1, <1>6 DEF ShellInv, Saving
  <2> HIDE DEF tooLong
  <2>2. cut' = TRUE /\ file' = first..taken
    BY <1>1, <2>1
  <2>3. Shell!OutputKept'
    BY <1>1, <1>2, <1>6, <2>2 DEF Shell!OutputKept
  <2> QED BY <1>1, <1>2, <2>2, <2>3 DEF ShellInv, Shell!Running
<1>7. fiber \in {"stopped", "cutOff"}
  BY <1>1 DEF ShellInv
<1> QED BY <1>4, <1>5, <1>6, <1>7

LEMMA NextShellInv == ASSUME ShellConstants, ShellInv, [Shell!Next]_shellVars PROVE ShellInv'
<1>1. ASSUME UNCHANGED shellVars PROVE ShellInv'
  BY <1>1 DEF shellVars, ShellInv, Held, Saving, Shell!Size, Shell!Total, Shell!Running, Shell!OutputKept
<1>2. ASSUME NEW how \in {"exited", "signalled"}, Shell!End(how) \/ Shell!Terminate(how) PROVE ShellInv'
  BY <1>2, EndKeepsShell DEF Shell!End, Shell!Terminate
<1>3. ASSUME Shell!ForceKill PROVE ShellInv'
  BY <1>3, EndKeepsShell DEF Shell!ForceKill
<1>4. ASSUME Shell!ExitWins \/ Shell!Killed PROVE ShellInv'
  BY <1>4, StopKeepsShell DEF Shell!ExitWins, Shell!Killed, Shell!Closed
<1> QED BY <1>1, <1>2, <1>3, <1>4, WriteKeepsShell, TakeKeepsShell, SavedKeepsShell, KillKeepsShell, CollectKeepsShell
        DEF Shell!Next, Shell!Tool

LEMMA InvIsWhole == ASSUME ShellInv PROVE Shell!AnswerIsWhole
BY DEF ShellInv, Shell!AnswerIsWhole, Shell!TypeOK, Shell!NoneLeft

\* tool/bash.ts: what a call answers with is all of the output, or names the file that all
\* of it is in, unless the call was over while the file was written.
THEOREM AnswersAreWhole == ASSUME ShellConstants PROVE SessionSpec => []Shell!AnswerIsWhole
<1>1. SessionInit => ShellInv
  BY InitShellInv, Starts DEF PartsStart
<1>2. ShellInv /\ [SessionNext]_sessionVars => ShellInv'
  BY NextShellInv, Steps DEF PartsStep
<1>3. ShellInv => Shell!AnswerIsWhole
  BY InvIsWhole
<1> QED BY <1>1, <1>2, <1>3, PTL DEF SessionSpec

-----------------------------------------------------------------------------
(* Patches, for any files and chunks, whatever places the chunks find: the *)
(* sections are written in their order, each as it was verified.           *)

\* A section names files that there are, and does not move one onto itself.
WellFormed(section) ==
    /\ section.type \in {"add", "delete", "update"}
    /\ section.path \in {One, Other} /\ section.move \subseteq {One, Other} \ {section.path}
    /\ section.type # "update" => section.move = {}

\* The sections are about files of their own.
Separate(sections) ==
    /\ DOMAIN sections = 1..Len(sections) /\ Len(sections) \in Nat \ {0}
    /\ \A i \in 1..Len(sections) :
          /\ WellFormed(sections[i])
          /\ \A j \in 1..Len(sections) : i # j => Patching!About(sections[i]) \cap Patching!About(sections[j]) = {}

\* What the verification of a section finds in the files of the beginning.
Planned(section, change) ==
    \/ /\ section.type = "add"
       /\ change = [write |-> {section.path}, lines |-> Patching!WithoutEmpty(section.lines), remove |-> {}]
    \/ /\ section.type = "delete"
       /\ change = [write |-> {}, lines |-> <<>>, remove |-> {section.path}]
    \/ /\ section.type = "update"
       /\ \E lines \in Patching!NewContents(begun[section.path], section.chunks) :
            change = [write |-> IF section.move = {} THEN {section.path} ELSE section.move, lines |-> lines,
                      remove |-> IF section.move = {} THEN {} ELSE {section.path}]

\* The target of a move is written.
Copied(section) ==
    \E lines \in Patching!NewContents(begun[section.path], section.chunks) : \A f \in section.move : disk[f] = lines

Made(section) ==
    \/ section.type = "add" /\ disk[section.path] = Patching!WithoutEmpty(section.lines)
    \/ section.type = "delete" /\ disk[section.path] = Missing
    \/ /\ section.type = "update" /\ section.move = {}
       /\ disk[section.path] \in Patching!NewContents(begun[section.path], section.chunks)
    \/ section.type = "update" /\ section.move # {} /\ disk[section.path] = Missing /\ Copied(section)

HalfMoved(section) == section.move # {} /\ disk[section.path] = begun[section.path] /\ Copied(section)

\* The first n sections are made, those behind the next are not begun.
MadeUpTo(n) ==
    /\ \A i \in 1..n : Made(patch[i])
    /\ \A i \in (n + 2)..Len(patch) : Patching!Untouched(patch[i])

Misfits(section) ==
    \/ section.type # "add" /\ begun[section.path] = Missing
    \/ section.type = "update" /\ Patching!NewContents(begun[section.path], section.chunks) = {}

\* A patch that is refused has a section that does not fit, and changes nothing; one that is
\* applied makes all its sections; one that breaks off has made those before the section that
\* it breaks in, and none behind it; that one is made, not begun, or moved by half.
PatchInOrder ==
    /\ applying \in {"called", "asking", "failed", "rejected"} => disk = begun
    /\ applying = "failed" => \E i \in 1..Len(patch) : Misfits(patch[i])
    /\ applying = "done" => \A i \in 1..Len(patch) : Made(patch[i])
    /\ applying \in {"applying", "broken"} =>
          \E n \in 0..(Len(patch) - 1) :
             /\ MadeUpTo(n)
             /\ \/ Patching!Untouched(patch[n + 1])
                \/ applying = "broken" /\ (Made(patch[n + 1]) \/ HalfMoved(patch[n + 1]))
    /\ \A f \in {One, Other} : (\A i \in 1..Len(patch) : f \notin Patching!About(patch[i])) => disk[f] = begun[f]

\* What is still to be written are the plans of the last sections.
ChangesArePlanned ==
    /\ changes \in Seq(Range(changes)) /\ Len(changes) <= Len(patch)
    /\ \A i \in 1..Len(changes) : Planned(patch[Len(patch) - Len(changes) + i], changes[i])

NextIs(n) == MadeUpTo(n) /\ Patching!Untouched(patch[n + 1])

PatchInv ==
    /\ Separate(patch)
    /\ PatchInOrder
    /\ applying \in {"asking", "applying"} => ChangesArePlanned
    /\ applying = "asking" => Len(changes) = Len(patch)
    /\ applying = "applying" => Len(changes) # 0 /\ NextIs(Len(patch) - Len(changes))
    /\ applying \in {"called", "asking", "applying", "failed", "rejected", "broken", "done"}

\* The calls that the run makes are such ones.
LEMMA CasesAreSeparate == ASSUME One # Other PROVE \A case \in Cases : Separate(case.patch)
<1>1. \A chunks : Separate(<<Update(One, chunks)>>)
  BY DEF Separate, WellFormed, Update, Section
<1>2. Separate(<<Section("update", One, {Other}, <<>>, OneChunk)>>)
  BY DEF Separate, WellFormed, Section
<1>3. \A second \in Seconds : Separate(<<Update(One, OneChunk), second>>)
  BY DEF Seconds, Separate, WellFormed, Section, Update, Patching!About
<1> QED BY <1>1, <1>2, <1>3 DEF Cases

LEMMA SomeCase == \E case \in Cases : TRUE
<1>1. [files |-> OnDisk(Missing, Missing), patch |-> <<Section("update", One, {Other}, <<>>, OneChunk)>>] \in Cases
  BY DEF Cases
<1> QED BY <1>1

LEMMA PatchStarts == ASSUME SessionInit PROVE \E case \in Cases : Patching!Begin(case)
BY SomeCase DEF SessionInit

LEMMA InitPatchInv == ASSUME One # Other, NEW case \in Cases, Patching!Begin(case) PROVE PatchInv
<1>1. Separate(patch)
  BY CasesAreSeparate DEF Patching!Begin
<1> QED BY <1>1 DEF Patching!Begin, PatchInv, PatchInOrder

LEMMA FoundIsPlanned ==
  ASSUME disk = begun, NEW s, WellFormed(s), NEW c \in Patching!ChangesOf(s)
  PROVE  Planned(s, c)
<1>1. CASE s.type = "add"
  BY <1>1 DEF Patching!ChangesOf, Planned
<1>2. CASE s.type = "delete"
  BY <1>2 DEF Patching!ChangesOf, Planned
<1>3. CASE s.type = "update"
  BY <1>3 DEF Patching!ChangesOf, Planned
<1> QED BY <1>1, <1>2, <1>3 DEF WellFormed

LEMMA NothingFound ==
  ASSUME disk = begun, NEW s, WellFormed(s), Patching!ChangesOf(s) = {}
  PROVE  Misfits(s)
<1>1. CASE s.type = "add"
  BY <1>1 DEF Patching!ChangesOf
<1>2. CASE s.type = "delete"
  BY <1>2 DEF Patching!ChangesOf, Patching!Existing, Misfits, WellFormed
<1>3. CASE s.type = "update" /\ begun[s.path] # Missing
  <2>1. SUFFICES ASSUME NEW lines \in Patching!NewContents(begun[s.path], s.chunks) PROVE FALSE
    BY <1>3 DEF Misfits
  <2>2. s.path \in {s.path} \cap Patching!Existing
    BY <1>3 DEF Patching!Existing, WellFormed
  <2>3. lines \in UNION {Patching!NewContents(disk[f], s.chunks) : f \in {s.path} \cap Patching!Existing}
    BY <2>1, <2>2
  <2> QED BY <1>3, <2>3 DEF Patching!ChangesOf
<1>4. CASE s.type = "update" /\ begun[s.path] = Missing
  BY <1>4 DEF Misfits
<1> QED BY <1>1, <1>2, <1>3, <1>4 DEF WellFormed

\* A change that is written makes its section and leaves the files of the others.
LEMMA WrittenMakes ==
  ASSUME NEW s, WellFormed(s), NEW c, Planned(s, c), disk' = Patching!Written(c), begun' = begun
  PROVE  Made(s)'
<1>1. CASE s.type = "add"
  BY <1>1 DEF Planned, Made, WellFormed, Patching!Written
<1>2. CASE s.type = "delete"
  BY <1>2 DEF Planned, Made, WellFormed, Patching!Written
<1>3. CASE s.type = "update" /\ s.move = {}
  BY <1>3 DEF Planned, Made, WellFormed, Patching!Written
<1>4. CASE s.type = "update" /\ s.move # {}
  <2>1. PICK lines \in Patching!NewContents(begun[s.path], s.chunks) : c = [write |-> s.move, lines |-> lines, remove |-> {s.path}]
    BY <1>4 DEF Planned
  <2>2. \A f \in s.move : disk'[f] = lines
    BY <2>1 DEF WellFormed, Patching!Written
  <2>3. disk'[s.path] = Missing
    BY <2>1 DEF WellFormed, Patching!Written
  <2> QED BY <1>4, <2>2, <2>3 DEF Made, Copied
<1> QED BY <1>1, <1>2, <1>3, <1>4 DEF WellFormed

LEMMA WritesAbout ==
  ASSUME NEW s, WellFormed(s), NEW c, Planned(s, c), NEW f \in {One, Other}, f \notin Patching!About(s)
  PROVE  Patching!Written(c)[f] = disk[f] /\ Patching!Written([c EXCEPT !.remove = {}])[f] = disk[f]
<1>1. CASE s.type = "add"
  BY <1>1 DEF Planned, Patching!About, Patching!Written
<1>2. CASE s.type = "delete"
  BY <1>2 DEF Planned, Patching!About, Patching!Written
<1>3. CASE s.type = "update"
  BY <1>3 DEF Planned, Patching!About, Patching!Written
<1> QED BY <1>1, <1>2, <1>3 DEF WellFormed

\* What does not touch the files of a section leaves it made, or not begun.
LEMMA OthersStay ==
  ASSUME NEW s, WellFormed(s), \A f \in Patching!About(s) : disk'[f] = disk[f], begun' = begun
  PROVE  (Made(s) => Made(s)') /\ (Patching!Untouched(s) => Patching!Untouched(s)')
<1>1. Patching!Untouched(s) => Patching!Untouched(s)'
  BY DEF Patching!Untouched
<1>2. disk'[s.path] = disk[s.path] /\ \A f \in s.move : disk'[f] = disk[f]
  BY DEF Patching!About
<1> QED BY <1>1, <1>2 DEF Made, Copied, WellFormed

\* Of a move only the writing: it is moved by half.  Other sections are made, or not begun.
LEMMA WrittenByHalf ==
  ASSUME NEW s, WellFormed(s), NEW c, Planned(s, c), Patching!Untouched(s),
         disk' = Patching!Written([c EXCEPT !.remove = {}]), begun' = begun
  PROVE  Patching!Untouched(s)' \/ Made(s)' \/ HalfMoved(s)'
<1>1. CASE s.type = "add"
  BY <1>1 DEF Planned, Made, WellFormed, Patching!Written
<1>2. CASE s.type = "delete"
  <2>1. \A f \in {One, Other} : disk'[f] = disk[f]
    BY <1>2 DEF Planned, Patching!Written
  <2> QED BY <2>1 DEF Patching!Untouched, Patching!About, WellFormed
<1>3. CASE s.type = "update" /\ s.move = {}
  BY <1>3 DEF Planned, Made, WellFormed, Patching!Written
<1>4. CASE s.type = "update" /\ s.move # {}
  <2>1. PICK lines \in Patching!NewContents(begun[s.path], s.chunks) : c = [write |-> s.move, lines |-> lines, remove |-> {s.path}]
    BY <1>4 DEF Planned
  <2>2. \A f \in s.move : disk'[f] = lines
    BY <2>1 DEF WellFormed, Patching!Written
  <2>3. disk'[s.path] = disk[s.path] /\ disk[s.path] = begun[s.path]
    BY <2>1 DEF WellFormed, Patching!Written, Patching!Untouched, Patching!About
  <2> QED BY <1>4, <2>2, <2>3 DEF HalfMoved, Copied
<1> QED BY <1>1, <1>2, <1>3, <1>4 DEF WellFormed

\* A sequence is one of what it holds.
LEMMA SeqOfItself == ASSUME NEW S, NEW t \in Seq(S) PROVE t \in Seq(Range(t))
<1>1. t = [i \in 1..Len(t) |-> t[i]] /\ Len(t) \in Nat
  OBVIOUS
<1>2. \A i \in 1..Len(t) : t[i] \in Range(t)
  BY <1>1 DEF Range
<1> QED BY <1>1, <1>2

LEMMA PatchSteps == ASSUME PatchInv, Patching!Next PROVE PatchInv'
<1>s. \A i \in 1..Len(patch) : WellFormed(patch[i])
  BY DEF PatchInv, Separate
<1>p. patch' = patch /\ begun' = begun
  BY DEF Patching!Next, Patching!Verify, Patching!Answer, Patching!Apply, Patching!ApplyFails
<1>d. Separate(patch)'
  BY <1>p DEF PatchInv, Separate, Patching!About
<1>n. Len(patch) \in Nat \ {0} /\ DOMAIN patch = 1..Len(patch)
  BY DEF PatchInv, Separate
<1>1. CASE Patching!Verify
  <2>1. applying = "called" /\ disk = begun /\ disk' = begun'
    BY <1>1, <1>p DEF Patching!Verify, PatchInv, PatchInOrder
  <2>2. CASE \E i \in DOMAIN patch : Patching!ChangesOf(patch[i]) = {}
    <3>1. applying' = "failed"
      BY <1>1, <2>2 DEF Patching!Verify
    <3>2. PICK i \in 1..Len(patch) : Patching!ChangesOf(patch[i]) = {}
      BY <2>2, <1>n
    <3>3. Misfits(patch[i])
      BY <3>2, <2>1, <1>s, NothingFound
    <3>4. Misfits(patch[i])'
      BY <3>3, <1>p DEF Misfits
    <3> QED BY <1>d, <1>p, <2>1, <3>1, <3>4 DEF PatchInv, PatchInOrder
  <2>3. CASE \A i \in DOMAIN patch : Patching!ChangesOf(patch[i]) # {}
    <3>1. applying' = "asking" /\ changes' = [i \in DOMAIN patch |-> CHOOSE c \in Patching!ChangesOf(patch[i]) : TRUE]
      BY <1>1, <2>3 DEF Patching!Verify
    <3>2. \A i \in 1..Len(patch) : changes'[i] \in Patching!ChangesOf(patch[i])
      BY <3>1, <2>3, <1>n
    <3>3. \A i \in 1..Len(patch) : Planned(patch[i], changes'[i])
      BY <3>2, <2>1, <1>s, FoundIsPlanned
    <3>4. changes' \in Seq(Range(changes')) /\ Len(changes') = Len(patch)
      BY <3>1, <1>n DEF Range
    <3>5. \A i \in 1..Len(patch) : Planned(patch[i], changes[i])'
      BY <3>3, <1>p DEF Planned
    <3>6. ChangesArePlanned'
      BY <3>4, <3>5, <1>p, <1>n DEF ChangesArePlanned
    <3> QED BY <1>d, <1>p, <2>1, <3>1, <3>4, <3>6 DEF PatchInv, PatchInOrder
  <2> QED BY <2>2, <2>3
<1>2. ASSUME NEW allowed \in BOOLEAN, Patching!Answer(allowed) PROVE PatchInv'
  <2>1. applying = "asking" /\ disk = begun /\ disk' = begun' /\ changes' = changes /\ applying' \in {"applying", "rejected"}
    BY <1>2, <1>p DEF Patching!Answer, PatchInv, PatchInOrder
  <2>2. ChangesArePlanned /\ Len(changes) = Len(patch)
    BY <2>1 DEF PatchInv
  <2>3. ChangesArePlanned'
    BY <2>1, <2>2, <1>p DEF ChangesArePlanned, Planned
  <2>4. \A i \in 1..Len(patch) : Patching!Untouched(patch[i])'
    BY <2>1, <1>p DEF Patching!Untouched
  <2>5. NextIs(0)'
    BY <2>4, <1>n, <1>p DEF NextIs, MadeUpTo
  <2>6. PatchInOrder'
    BY <2>1, <2>5, <1>n, <1>p DEF PatchInOrder, NextIs
  <2> QED BY <1>d, <1>n, <1>p, <2>1, <2>2, <2>3, <2>5, <2>6 DEF PatchInv
<1>3. CASE Patching!Apply \/ Patching!ApplyFails
  <2>1. applying = "applying" /\ ChangesArePlanned /\ Len(changes) # 0 /\ NextIs(Len(patch) - Len(changes))
    BY <1>3 DEF Patching!Apply, Patching!ApplyFails, PatchInv
  <2>2. PICK n : n = Len(patch) - Len(changes)
    OBVIOUS
  <2>3. PICK s : s = patch[n + 1]
    OBVIOUS
  <2>4. PICK c : c = Head(changes)
    OBVIOUS
  <2>5. changes \in Seq(Range(changes)) /\ Len(changes) \in 1..Len(patch) /\ n \in 0..(Len(patch) - 1)
    BY <2>1, <2>2, <1>n DEF ChangesArePlanned
  <2>6. c = changes[1] /\ WellFormed(s) /\ Planned(s, c) /\ Patching!Untouched(s)
    BY <2>1, <2>2, <2>3, <2>4, <2>5, <1>s DEF ChangesArePlanned, NextIs
  <2>7. disk' = Patching!Written(c) \/ disk' = Patching!Written([c EXCEPT !.remove = {}]) \/ disk' = disk
    BY <1>3, <2>4 DEF Patching!Apply, Patching!ApplyFails
  <2>8. \A f \in {One, Other} : f \notin Patching!About(s) => disk'[f] = disk[f]
    BY <2>6, <2>7, WritesAbout
  <2>9. \A i \in 1..Len(patch) : i # n + 1 =>
          (Made(patch[i]) => Made(patch[i])') /\ (Patching!Untouched(patch[i]) => Patching!Untouched(patch[i])')
    <3> SUFFICES ASSUME NEW i \in 1..Len(patch), i # n + 1
                 PROVE  (Made(patch[i]) => Made(patch[i])') /\ (Patching!Untouched(patch[i]) => Patching!Untouched(patch[i])')
      OBVIOUS
    <3>1. PICK t : t = patch[i]
      OBVIOUS
    <3>2. WellFormed(t) /\ Patching!About(t) \cap Patching!About(s) = {}
      BY <3>1, <2>3, <2>5, <1>s DEF PatchInv, Separate
    <3>3. Patching!About(t) \subseteq {One, Other}
      BY <3>2 DEF WellFormed, Patching!About
    <3>4. (Made(t) => Made(t)') /\ (Patching!Untouched(t) => Patching!Untouched(t)')
      BY <3>2, <3>3, <2>8, <1>p, OthersStay
    <3>5. patch'[i] = t
      BY <3>1, <1>p
    <3> QED BY <3>1, <3>4, <3>5 DEF Made, Copied, Patching!Untouched
  <2>10. MadeUpTo(n)'
    BY <2>1, <2>2, <2>5, <2>9, <1>n, <1>p DEF NextIs, MadeUpTo
  <2>11. \A f \in {One, Other} : (\A i \in 1..Len(patch) : f \notin Patching!About(patch[i])) => disk'[f] = begun[f]
    BY <2>3, <2>5, <2>8 DEF PatchInv, PatchInOrder
  <2>12. \A f \in {One, Other} : (\A i \in 1..Len(patch') : f \notin Patching!About(patch'[i])) => disk'[f] = begun'[f]
    BY <2>11, <1>p
  <2>13. CASE Patching!Apply
    <3>1. disk' = Patching!Written(c) /\ changes' = Tail(changes) /\ applying' = IF Len(changes) = 1 THEN "done" ELSE "applying"
      BY <2>13, <2>4 DEF Patching!Apply
    <3>2. Made(s)'
      BY <3>1, <2>6, <1>p, WrittenMakes
    <3>3. Made(patch[n + 1])'
      BY <3>2, <2>3, <1>p DEF Made, Copied
    <3>4. CASE Len(changes) = 1
      <4>1. \A i \in 1..Len(patch') : Made(patch[i])'
        BY <3>4, <3>3, <2>2, <2>5, <2>10, <1>n, <1>p DEF MadeUpTo
      <4> QED BY <3>1, <3>4, <4>1, <2>12, <1>d DEF PatchInv, PatchInOrder
    <3>5. CASE Len(changes) # 1
      <4>1. Len(changes') = Len(changes) - 1 /\ changes' \in Seq(Range(changes'))
            /\ \A i \in 1..Len(changes') : changes'[i] = changes[i + 1]
        <5>1. Tail(changes) \in Seq(Range(changes)) /\ Len(Tail(changes)) = Len(changes) - 1
              /\ \A i \in 1..Len(Tail(changes)) : Tail(changes)[i] = changes[i + 1]
          BY <2>5
        <5> QED BY <3>1, <5>1, SeqOfItself
      <4>2. \A i \in 1..Len(changes') : Planned(patch[Len(patch) - Len(changes) + i], changes[i])'
        <5> SUFFICES ASSUME NEW i \in 1..Len(changes')
                     PROVE  Planned(patch[Len(patch) - Len(changes) + i], changes[i])'
          OBVIOUS
        <5>1. PICK t, d : t = patch[n + 1 + i] /\ d = changes[i + 1]
          OBVIOUS
        <5>2. i + 1 \in 1..Len(changes) /\ n + 1 + i = Len(patch) - Len(changes) + (i + 1)
          BY <4>1, <2>2, <2>5, <1>n
        <5>3. Planned(t, d)
          BY <5>1, <5>2, <2>1 DEF ChangesArePlanned
        <5>4. Planned(t, d)'
          BY <5>3, <1>p DEF Planned
        <5>5. Len(patch') - Len(changes') + i = n + 1 + i /\ changes'[i] = d
          BY <5>1, <4>1, <2>2, <2>5, <1>n, <1>p
        <5> QED BY <5>1, <5>4, <5>5, <1>p DEF Planned
      <4>3. ChangesArePlanned'
        BY <4>1, <4>2, <2>5, <1>n, <1>p DEF ChangesArePlanned
      <4>4. \A i \in (n + 2)..Len(patch) : Patching!Untouched(patch[i])'
        BY <2>1, <2>2, <2>5, <2>9, <1>n DEF NextIs, MadeUpTo
      <4>5. NextIs(n + 1)'
        <5>1. \A i \in 1..(n + 1) : Made(patch[i])'
          BY <3>3, <2>5, <2>10 DEF MadeUpTo
        <5>2. n + 2 \in (n + 2)..Len(patch) /\ n + 1 + 1 = n + 2 /\ \A i \in (n + 1 + 2)..Len(patch') : i \in (n + 2)..Len(patch)
          <6>1. Len(patch') = Len(patch)
            BY <1>p
          <6>2. PICK p, q : p = Len(patch) /\ q = Len(changes)
            OBVIOUS
          <6>3. p \in Nat /\ q \in 1..p /\ q # 1 /\ n = p - q
            BY <6>2, <3>5, <2>2, <2>5, <1>n
          <6>4. n + 2 <= p /\ n \in Nat
            BY <6>3
          <6> QED BY <6>1, <6>2, <6>3, <6>4
        <5>3. Patching!Untouched(patch[n + 1 + 1])' /\ \A i \in (n + 1 + 2)..Len(patch') : Patching!Untouched(patch[i])'
          BY <4>4, <5>2
        <5> QED BY <5>1, <5>3 DEF NextIs, MadeUpTo
      <4>6. Len(patch') - Len(changes') = n + 1 /\ n + 1 \in 0..(Len(patch') - 1) /\ Len(changes') # 0
        BY <4>1, <3>5, <2>2, <2>5, <1>n, <1>p
      <4>7. applying' = "applying"
        BY <3>1, <3>5
      <4>8. PatchInOrder'
        BY <4>5, <4>6, <4>7, <2>12 DEF PatchInOrder, NextIs
      <4> QED BY <4>3, <4>5, <4>6, <4>7, <4>8, <1>d DEF PatchInv
    <3> QED BY <3>4, <3>5
  <2>14. CASE Patching!ApplyFails
    <3>1. applying' = "broken" /\ (disk' = disk \/ disk' = Patching!Written([c EXCEPT !.remove = {}]))
      BY <2>14, <2>4 DEF Patching!ApplyFails
    <3>2. Patching!Untouched(s)' \/ Made(s)' \/ HalfMoved(s)'
      <4>1. CASE disk' = disk
        BY <4>1, <2>6, <1>p DEF Patching!Untouched
      <4>2. CASE disk' = Patching!Written([c EXCEPT !.remove = {}])
        BY <4>2, <2>6, <1>p, WrittenByHalf
      <4> QED BY <3>1, <4>1, <4>2
    <3>3. Patching!Untouched(patch[n + 1])' \/ Made(patch[n + 1])' \/ HalfMoved(patch[n + 1])'
      BY <3>2, <2>3, <1>p DEF Patching!Untouched, Made, HalfMoved, Copied
    <3>4. PatchInOrder'
      BY <3>1, <3>3, <2>5, <2>10, <2>12, <1>p DEF PatchInOrder
    <3> QED BY <3>1, <3>4, <1>d DEF PatchInv
  <2> QED BY <1>3, <2>13, <2>14
<1> QED BY <1>1, <1>2, <1>3 DEF Patching!Next

LEMMA PatchStutters == ASSUME PatchInv, UNCHANGED patchVars PROVE PatchInv'
<1>1. disk' = disk /\ patch' = patch /\ applying' = applying /\ changes' = changes /\ begun' = begun
  BY DEF patchVars
<1>2. Separate(patch)'
  BY <1>1 DEF PatchInv, Separate, Patching!About
<1>3. \A n : (NextIs(n) <=> NextIs(n)') /\ (MadeUpTo(n) <=> MadeUpTo(n)')
  BY <1>1 DEF NextIs, MadeUpTo, Made, Copied, Patching!Untouched, Patching!About
<1>4. PatchInOrder'
  <2>1. ASSUME NEW i \in 1..Len(patch)
        PROVE  /\ (Made(patch[i]) => Made(patch[i])') /\ (HalfMoved(patch[i]) => HalfMoved(patch[i])')
               /\ (Misfits(patch[i]) => Misfits(patch[i])') /\ (Patching!Untouched(patch[i]) => Patching!Untouched(patch[i])')
    <3>1. PICK s : s = patch[i] /\ s = patch'[i]
      BY <1>1
    <3>2. (Made(s) => Made(s)') /\ (HalfMoved(s) => HalfMoved(s)')
      BY <1>1 DEF Made, HalfMoved, Copied
    <3>3. (Misfits(s) => Misfits(s)') /\ (Patching!Untouched(s) => Patching!Untouched(s)')
      BY <1>1 DEF Misfits, Patching!Untouched
    <3> QED BY <3>1, <3>2, <3>3 DEF Made, HalfMoved, Copied, Misfits, Patching!Untouched
  <2>3. \A n \in 0..(Len(patch) - 1) : n + 1 \in 1..Len(patch)
    BY DEF PatchInv, Separate
  <2> QED BY <1>1, <1>3, <2>1, <2>3 DEF PatchInv, PatchInOrder
<1>5. ChangesArePlanned <=> ChangesArePlanned'
  BY <1>1 DEF ChangesArePlanned, Planned
<1> QED BY <1>1, <1>2, <1>3, <1>4, <1>5 DEF PatchInv

LEMMA PatchInvariant == ASSUME One # Other PROVE SessionSpec => []PatchInv
<1>1. SessionInit => PatchInv
  BY PatchStarts, InitPatchInv
<1>2. PatchInv /\ [SessionNext]_sessionVars => PatchInv'
  BY PatchSteps, PatchStutters, Steps DEF PartsStep
<1> QED BY <1>1, <1>2, PTL DEF SessionSpec

\* Verify, Answer, Apply of apply_patch.ts: nothing is written before every section is verified
\* and the user allows it; the sections are written in their order, and where a write fails
\* those before it are made and those behind it not begun.
THEOREM PatchesGoInOrder == ASSUME One # Other PROVE SessionSpec => []PatchInOrder
<1>1. PatchInv => PatchInOrder
  BY DEF PatchInv
<1> QED BY <1>1, PatchInvariant, PTL
=============================================================================
