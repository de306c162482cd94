-------------------------------- MODULE Patch --------------------------------
(***************************************************************************)
(* The tool that applies a patch of several files: tool/apply_patch.ts     *)
(* verifies every section, asks once and writes one file after the other;  *)
(* patch/index.ts finds the places of the chunks of a section.             *)
(*                                                                         *)
(* A file is the sequence of its lines; it ends with a line feed after a   *)
(* patch.  Lines are equal, or the same up to white space, which stands    *)
(* for the three passes that ignore it and the spelling of punctuation.    *)
(***************************************************************************)
EXTENDS Integers, SequencesExt

CONSTANTS
    Paths, Absent,
    Blank,     \* the text of an empty line
    Cases      \* the files and the sections, as parsePatch returns them, of each call
\* Each section of a patch is about files of its own: of two sections about one file
\* the second would be made from what the first has found.

VARIABLES
    disk,    \* the lines of each file
    patch,   \* the sections
    tool,    \* where the tool is
    changes, \* what is still to be written
    begun    \* the files as the tool has found them

patchVars == <<disk, patch, tool, changes, begun>>

Empty == [text |-> Blank, padded |-> FALSE]
EndsEmpty(lines) == lines # <<>> /\ Last(lines) = Empty
WithoutEmpty(lines) == IF EndsEmpty(lines) THEN Front(lines) ELSE lines

Begin(case) ==
    /\ disk = case.files /\ begun = disk
    /\ patch = case.patch
    /\ tool = "called" /\ changes = <<>>

Init == \E case \in Cases : Begin(case)

-----------------------------------------------------------------------------
(* Where the chunks of a section belong: the number of lines before them *)

Equal(lines, others) == lines = others
Alike(lines, others) == \A j \in DOMAIN lines : lines[j].text = others[j].text

EqualPlaces(lines, pattern, start) ==
    {i \in start..(Len(lines) - Len(pattern)) : Equal(SubSeq(lines, i + 1, i + Len(pattern)), pattern)}

AlikePlaces(lines, pattern, start) ==
    {i \in start..(Len(lines) - Len(pattern)) : Alike(SubSeq(lines, i + 1, i + Len(pattern)), pattern)}

\* Mutant: white space is ignored from the beginning.
SeekAlike(lines, pattern, start) ==
    IF pattern = <<>> THEN {}
    ELSE {i \in AlikePlaces(lines, pattern, start) : \A j \in AlikePlaces(lines, pattern, start) : i <= j}

\* The first place where the lines are equal, else the first where they are alike.
SeekSequence(lines, pattern, start) ==
    LET exact == EqualPlaces(lines, pattern, start)
        places == IF exact # {} THEN exact ELSE AlikePlaces(lines, pattern, start)
    IN IF pattern = <<>> THEN {} ELSE {i \in places : \A j \in places : i <= j}

\* Mutant: the line feed that was dropped from the pattern counts.
FoundCounting(lines, chunk, start) ==
    LET at == SeekSequence(lines, chunk.old, start)
    IN IF at = {} /\ EndsEmpty(chunk.old)
       THEN {[at |-> i, count |-> Len(chunk.old), lines |-> WithoutEmpty(chunk.new)] :
                i \in SeekSequence(lines, Front(chunk.old), start)}
       ELSE {[at |-> i, count |-> Len(chunk.old), lines |-> chunk.new] : i \in at}

\* Old lines that are not found are looked for without an empty last line.
Found(lines, chunk, start) ==
    LET at == SeekSequence(lines, chunk.old, start)
    IN IF at = {} /\ EndsEmpty(chunk.old)
       THEN {[at |-> i, count |-> Len(chunk.old) - 1, lines |-> WithoutEmpty(chunk.new)] :
                i \in SeekSequence(lines, Front(chunk.old), start)}
       ELSE {[at |-> i, count |-> Len(chunk.old), lines |-> chunk.new] : i \in at}

\* A chunk with a context begins after the line that is its context.
Starts(lines, chunk, at) ==
    IF chunk.context = <<>> THEN {at} ELSE {i + 1 : i \in SeekSequence(lines, chunk.context, at)}

\* A chunk without old lines goes to the end, before an empty last line.
Addition(lines, chunk) == [at |-> Len(WithoutEmpty(lines)), count |-> 0, lines |-> chunk.new]

\* Mutant: the next chunk is looked for where this one begins.
NextFrom(so, start, r) == [at |-> start, replacements |-> Append(so.replacements, r)]

\* The next chunk is looked for behind this one.
After(so, start, r) == [at |-> IF r.count = 0 THEN start ELSE r.at + r.count, replacements |-> Append(so.replacements, r)]

\* What has been found so far, with one more chunk; nothing, when it is not found.
WithChunk(lines, so, chunk) ==
    UNION {{After(so, start, r) : r \in IF chunk.old = <<>> THEN {Addition(lines, chunk)} ELSE Found(lines, chunk, start)} :
              start \in Starts(lines, chunk, so.at)}

ComputeReplacements(lines, chunks) ==
    FoldLeft(LAMBDA sos, chunk : UNION {WithChunk(lines, so, chunk) : so \in sos},
             {[at |-> 0, replacements |-> <<>>]}, chunks)

Splice(lines, r) ==
    SubSeq(lines, 1, Min({r.at, Len(lines)})) \o r.lines \o SubSeq(lines, r.at + r.count + 1, Len(lines))

\* Mutant: the places of the later ones are not those of the file any more.
ApplyForward(lines, replacements) == FoldLeft(Splice, lines, replacements)

\* From the last place to the first; of two at one place the later one first.
ApplyReplacements(lines, replacements) ==
    LET before(i, j) == \/ replacements[i].at < replacements[j].at
                        \/ replacements[i].at = replacements[j].at /\ i < j
        order == SortSeq([i \in DOMAIN replacements |-> i], before)
    IN FoldRight(LAMBDA i, so : Splice(so, replacements[i]), order, lines)

\* The contents that the chunks make of the lines; an empty last line becomes the
\* line feed of the one before it.
NewContents(lines, chunks) ==
    {WithoutEmpty(ApplyReplacements(lines, so.replacements)) : so \in ComputeReplacements(lines, chunks)}

-----------------------------------------------------------------------------
(* The tool *)

Existing == {f \in Paths : disk[f] # Absent}

\* What a section changes: the file to write, with its lines, and the one to remove;
\* nothing, when the section does not fit the files.
ChangesOf(section) ==
    CASE section.type = "add" -> {[write |-> {section.path}, lines |-> WithoutEmpty(section.lines), remove |-> {}]}
      [] section.type = "delete" -> {[write |-> {}, lines |-> <<>>, remove |-> {f}] : f \in {section.path} \cap Existing}
      [] section.type = "update" ->
           {[write |-> IF section.move = {} THEN {section.path} ELSE section.move, lines |-> lines,
             remove |-> IF section.move = {} THEN {} ELSE {section.path}] :
               lines \in UNION {NewContents(disk[f], section.chunks) : f \in {section.path} \cap Existing}}

Written(change) ==
    [f \in Paths |-> CASE f \in change.remove -> Absent
                       [] f \in change.write \ change.remove -> change.lines
                       [] OTHER -> disk[f]]

\* Mutant: a section is written as soon as it is verified.
VerifyOneByOne ==
    /\ tool = "called"
    /\ LET found == [i \in DOMAIN patch |-> ChangesOf(patch[i])]
       IN IF \E i \in DOMAIN patch : found[i] = {}
          THEN /\ tool' = "failed" /\ UNCHANGED changes
               /\ IF found[1] = {} THEN UNCHANGED disk
                  ELSE disk' = Written(CHOOSE c \in found[1] : TRUE)
          ELSE tool' = "asking" /\ changes' = [i \in DOMAIN patch |-> CHOOSE c \in found[i] : TRUE] /\ UNCHANGED disk
    /\ UNCHANGED <<patch, begun>>

\* All sections are verified before anything is written.
Verify ==
    /\ tool = "called"
    /\ LET found == [i \in DOMAIN patch |-> ChangesOf(patch[i])]
       IN IF \E i \in DOMAIN patch : found[i] = {}
          THEN tool' = "failed" /\ UNCHANGED changes
          ELSE tool' = "asking" /\ changes' = [i \in DOMAIN patch |-> CHOOSE c \in found[i] : TRUE]
    /\ UNCHANGED <<disk, patch, begun>>

Answer(allowed) ==
    /\ tool = "asking"
    /\ tool' = IF allowed THEN "applying" ELSE "rejected"
    /\ UNCHANGED <<disk, patch, changes, begun>>

\* A moved file is written in its new place, then removed from the old one.
Apply ==
    /\ tool = "applying"
    /\ disk' = Written(Head(changes))
    /\ changes' = Tail(changes)
    /\ tool' = IF Len(changes) = 1 THEN "done" ELSE "applying"
    /\ UNCHANGED <<patch, begun>>

\* A file cannot be written, or not removed: the call dies and what is written stays.
ApplyFails ==
    /\ tool = "applying" /\ tool' = "broken"
    /\ \/ UNCHANGED disk
       \/ disk' = Written([Head(changes) EXCEPT !.remove = {}])
    /\ UNCHANGED <<patch, changes, begun>>

Next == Verify \/ (\E allowed \in BOOLEAN : Answer(allowed)) \/ Apply \/ ApplyFails

-----------------------------------------------------------------------------
(* What a section means, without a way to find it *)

Replaces(chunk) == chunk.old # <<>>
End(chunks, places, i) == places[i] + Len(chunks[i].old)

\* The chunks have places, one behind the other, with old lines that the file has there,
\* and contexts before them.
Fits(lines, chunks, places, contexts) ==
    \A i \in DOMAIN chunks :
        /\ Replaces(chunks[i]) => places[i] \in AlikePlaces(lines, chunks[i].old, 0)
        /\ ~Replaces(chunks[i]) => places[i] = Len(WithoutEmpty(lines))
        /\ chunks[i].context # <<>> =>
              /\ contexts[i] \in AlikePlaces(lines, chunks[i].context, 0)
              /\ Replaces(chunks[i]) => contexts[i] < places[i]
        /\ \A j \in 1..(i - 1) :
              /\ Replaces(chunks[j]) /\ Replaces(chunks[i]) => End(chunks, places, j) <= places[i]
              /\ Replaces(chunks[j]) /\ chunks[i].context # <<>> => End(chunks, places, j) <= contexts[i]
              /\ chunks[j].context # <<>> /\ Replaces(chunks[i]) => contexts[j] < places[i]
              /\ chunks[j].context # <<>> /\ chunks[i].context # <<>> => contexts[j] < contexts[i]

\* Lines that are only alike are replaced if none behind them are equal.
Prefers(lines, chunk, place) ==
    EqualPlaces(lines, chunk.old, place) # {} => place \in EqualPlaces(lines, chunk.old, place)

\* The lines, with each chunk's new lines in the place of its old ones.
Patched(lines, chunks, places) ==
    LET at(k) == {i \in DOMAIN chunks : Replaces(chunks[i]) /\ places[i] = k - 1}
        within(k) == {i \in DOMAIN chunks : places[i] < k /\ k <= End(chunks, places, i)}
        piece(k) == IF at(k) # {} THEN chunks[CHOOSE i \in at(k) : TRUE].new
                    ELSE IF within(k) # {} THEN <<>> ELSE <<lines[k]>>
        added == FlattenSeq([i \in DOMAIN chunks |-> IF Replaces(chunks[i]) THEN <<>> ELSE chunks[i].new])
        pieces == [k \in DOMAIN lines |-> piece(k)]
        n == Len(WithoutEmpty(lines))
    IN FlattenSeq(SubSeq(pieces, 1, n)) \o added \o FlattenSeq(SubSeq(pieces, n + 1, Len(lines)))

\* An addition before an empty last line that another chunk replaces, with the line
\* before it, has no place of its own.
Straddles(lines, chunks, places) ==
    \E i, j \in DOMAIN chunks : ~Replaces(chunks[i]) /\ places[j] < places[i] /\ places[i] < End(chunks, places, j)

\* The chunks without the empty last lines of some.
Shortened(chunks) ==
    {[i \in DOMAIN chunks |-> IF i \in short THEN [chunks[i] EXCEPT !.old = Front(@), !.new = WithoutEmpty(@)] ELSE chunks[i]] :
        short \in SUBSET {i \in DOMAIN chunks : Len(chunks[i].old) > 1 /\ EndsEmpty(chunks[i].old)}}

Placed(lines, chunks) ==
    {pc \in [DOMAIN chunks -> (0..Len(lines)) \X (0..Len(lines))] :
        Fits(lines, chunks, [i \in DOMAIN chunks |-> pc[i][1]], [i \in DOMAIN chunks |-> pc[i][2]])}

IsPatched(lines, chunks, result) ==
    \E shorter \in Shortened(chunks) : \E pc \in Placed(lines, shorter) :
        LET places == [i \in DOMAIN chunks |-> pc[i][1]]
        IN \/ Straddles(lines, shorter, places)
           \/ /\ result = WithoutEmpty(Patched(lines, shorter, places))
              /\ \A i \in DOMAIN shorter : Replaces(shorter[i]) => Prefers(lines, shorter[i], places[i])

About(section) == {section.path} \cup section.move

Untouched(section) == \A f \in About(section) : disk[f] = begun[f]

Done(section) ==
    CASE section.type = "add" -> disk[section.path] = WithoutEmpty(section.lines)
      [] section.type = "delete" -> disk[section.path] = Absent
      [] section.type = "update" ->
           IF section.move = {} THEN IsPatched(begun[section.path], section.chunks, disk[section.path])
           ELSE /\ disk[section.path] = Absent
                /\ \A f \in section.move : IsPatched(begun[section.path], section.chunks, disk[f])

-----------------------------------------------------------------------------

\* A patch that does not fit, or is not allowed, changes nothing; one that is applied
\* has put every chunk in a place that fits, and one that breaks off leaves each section
\* done or not begun, but for a moved file that may be in both places.
PatchIsExact ==
    /\ tool \in {"called", "asking", "failed", "rejected"} => disk = begun
    /\ tool = "done" => \A i \in DOMAIN patch : Done(patch[i])
    /\ tool = "broken" => \A i \in DOMAIN patch :
          Untouched(patch[i]) \/ Done(patch[i]) \/ (patch[i].move # {} /\ disk[patch[i].path] = begun[patch[i].path])
    /\ \A f \in Paths : (\A i \in DOMAIN patch : f \notin About(patch[i])) => disk[f] = begun[f]

\* Where no line differs by white space only, and no chunk ends with an empty line, a
\* patch is refused only if no places fit.
Plain(lines, chunks) ==
    /\ \A i \in DOMAIN lines : ~lines[i].padded
    /\ \A i \in DOMAIN chunks : ~EndsEmpty(chunks[i].old)

RefusedForAReason ==
    tool = "failed" => \E i \in DOMAIN patch :
        \/ patch[i].type # "add" /\ begun[patch[i].path] = Absent
        \/ /\ patch[i].type = "update"
           /\ Plain(begun[patch[i].path], patch[i].chunks) => Placed(begun[patch[i].path], patch[i].chunks) = {}

PatchesFit == PatchIsExact /\ RefusedForAReason
=============================================================================
