----------------------------- MODULE EditReplace -----------------------------
(***************************************************************************)
(* The place that an edit replaces: replace of tool/edit.ts tries nine     *)
(* ways to find the old text, from equal to similar, and takes the first   *)
(* that names a text which is in the file once.                            *)
(*                                                                         *)
(* A text is the sequence of its lines.  A line is a word behind its       *)
(* indentation, or empty; no word is part of another or similar to it.     *)
(* With such lines EscapeNormalizedReplacer and MultiOccurrenceReplacer    *)
(* name what SimpleReplacer has named.                                     *)
(***************************************************************************)
EXTENDS Integers, SequencesExt

CONSTANTS
    NotFound, Multiple, \* the errors
    Words, Indented, \* the words of lines, and those that may be indented
    NoWord,          \* the word of an empty line
    MaxLines         \* how long a file is

VARIABLES
    old,     \* oldString
    all,     \* replaceAll
    text,    \* the file
    replaced \* what was replaced: a text and the lines it begins in, or an error
\* The file stays what it was, its new text is not built.

replaceVars == <<old, all, text, replaced>>

-----------------------------------------------------------------------------
(* Calls of edit on small files *)

Lines == [word : Words \cup {NoWord}, indent : {0}] \cup [word : Indented, indent : {1}]
IsBlank(line) == line.word = NoWord
IsEmpty(lines) == \A i \in DOMAIN lines : IsBlank(lines[i])

Olds == {lines \in BoundedSeq(Lines, 3) : ~IsEmpty(lines)}

\* Long files meet long old texts only.
EditCalls ==
    [old : Olds, all : BOOLEAN, text : BoundedSeq(Lines, 3) \ {<<>>}]
    \cup [old : {lines \in Olds : Len(lines) = 3}, all : {FALSE}, text : BoundedSeq(Lines, MaxLines) \ {<<>>}]

\* An edit, for an instance in which none is looked at.
NoEdit == [old |-> <<>>, all |-> FALSE, text |-> <<>>]

-----------------------------------------------------------------------------
Begin(edit) == old = edit.old /\ all = edit.all /\ text = edit.text /\ replaced = <<>>

Init == \E edit \in EditCalls : Begin(edit)

-----------------------------------------------------------------------------
(* Texts *)

Trimmed(lines) == [i \in DOMAIN lines |-> lines[i].word]
WordsOf(lines) == SelectSeq(Trimmed(lines), LAMBDA w : w # NoWord)
WithoutLast(lines) == IF IsBlank(Last(lines)) THEN Front(lines) ELSE lines
Block(i, n) == SubSeq(text, i, i + n - 1)
Starts(n) == 1..(Len(text) - n + 1)

Indentation(lines) == {lines[i].indent : i \in {j \in DOMAIN lines : ~IsBlank(lines[j])}}
Flush(lines) ==
    [i \in DOMAIN lines |-> IF IsBlank(lines[i]) THEN lines[i] ELSE [lines[i] EXCEPT !.indent = @ - Min(Indentation(lines))]]

\* The text without the white space before its first word and behind its last.
Trim(lines) ==
    LET first == Min({i \in DOMAIN lines : ~IsBlank(lines[i])})
        last == Max({i \in DOMAIN lines : ~IsBlank(lines[i])})
    IN SubSeq([lines EXCEPT ![first].indent = 0], first, last)

\* The lines in which a text begins: there it is the end of a line.
Occurrences(search) ==
    LET n == Len(search)
        ends(line) == IsBlank(search[1]) \/ (line.word = search[1].word /\ search[1].indent <= line.indent)
        begins(line) == IsBlank(search[n]) \/ line = search[n]
    IN {i \in Starts(n) :
          /\ n = 1 => text[i].word = search[1].word /\ search[1].indent <= text[i].indent
          /\ n > 1 => ends(text[i]) /\ begins(text[i + n - 1])
          /\ \A j \in 2..(n - 1) : text[i + j - 1] = search[j]}

-----------------------------------------------------------------------------
(* The replacers: the texts that each names, in its order *)

\* The blocks of the file, n lines each, that begin in some lines.
Blocks(starts, n) == LET order == SetToSortSeq(starts, <) IN [k \in DOMAIN order |-> Block(order[k], n)]

SimpleReplacer == <<old>>

LineTrimmedReplacer ==
    LET search == WithoutLast(old)
    IN Blocks({i \in Starts(Len(search)) : Trimmed(Block(i, Len(search))) = Trimmed(search)}, Len(search))

\* Blocks that begin and end like the old text, each with the first end there is.
Anchored ==
    LET search == WithoutLast(old)
        ends(i) == {j \in (i + 2)..Len(text) : text[j].word = Last(search).word}
    IN {<<i, Min(ends(i))>> : i \in {i \in DOMAIN text : text[i].word = search[1].word /\ ends(i) # {}}}

\* In how many of the lines between, of how many, a block is the old text; three in ten are enough.
Checked(c) == Min({Len(WithoutLast(old)), c[2] - c[1] + 1}) - 2
Equals(c) ==
    Cardinality({j \in 1..Checked(c) : text[c[1] + j].word = old[j + 1].word /\ ~IsBlank(old[j + 1])})
Similarity(c) == IF Checked(c) <= 0 THEN <<1, 1>> ELSE <<Equals(c), Checked(c)>>
Less(s, r) == s[1] * r[2] < r[1] * s[2]

\* Mutant: the anchors are not looked at when the lines between are.
BlockAnchorAlone ==
    IF Len(old) < 3 THEN <<>>
    ELSE Blocks({i \in Starts(Len(WithoutLast(old))) : text[i].word = old[1].word}, Len(WithoutLast(old)))

\* One candidate is taken as it is, of several the first that is most similar.
BlockAnchorReplacer ==
    IF Len(old) < 3 THEN <<>>
    ELSE LET block(c) == SubSeq(text, c[1], c[2])
             best == {c \in Anchored : \A d \in Anchored :
                        \/ Less(Similarity(d), Similarity(c))
                        \/ ~Less(Similarity(c), Similarity(d)) /\ c[1] <= d[1]}
         IN CASE Cardinality(Anchored) = 1 -> SetToSeq({block(c) : c \in Anchored})
              [] OTHER -> SetToSeq({block(c) : c \in {b \in best : ~Less(Similarity(b), <<3, 10>>)}})

\* The lines that are the old text's only word, then blocks with the same words.
WhitespaceNormalizedReplacer ==
    Blocks({i \in Starts(1) : WordsOf(Block(i, 1)) = WordsOf(old)}, 1)
    \o (IF Len(old) = 1 THEN <<>>
        ELSE Blocks({i \in Starts(Len(old)) : WordsOf(Block(i, Len(old))) = WordsOf(old)}, Len(old)))

IndentationFlexibleReplacer ==
    Blocks({i \in Starts(Len(old)) : ~IsEmpty(Block(i, Len(old))) /\ Flush(Block(i, Len(old))) = Flush(old)}, Len(old))

TrimmedBoundaryReplacer ==
    IF Trim(old) = old THEN <<>>
    ELSE <<Trim(old)>> \o Blocks({i \in Starts(Len(old)) : ~IsEmpty(Block(i, Len(old))) /\ Trim(Block(i, Len(old))) = Trim(old)},
                                 Len(old))

\* Blocks of the old text's length with its ends, half of whose lines between are its own.
ContextAwareReplacer ==
    LET search == WithoutLast(old)
        between(c) == {j \in 1..(Len(search) - 2) : ~IsBlank(text[c[1] + j]) \/ ~IsBlank(search[j + 1])}
        equal(c) == {j \in between(c) : text[c[1] + j].word = search[j + 1].word}
    IN IF Len(old) < 3 THEN <<>>
       ELSE Blocks({c[1] : c \in {d \in Anchored : /\ d[2] - d[1] + 1 = Len(search)
                                                   /\ 2 * Cardinality(equal(d)) >= Cardinality(between(d))}},
                   Len(search))

\* Mutant: what is equal but for white space is tried first.
ReplacersTrimmedFirst ==
    <<LineTrimmedReplacer, SimpleReplacer, BlockAnchorReplacer, WhitespaceNormalizedReplacer,
      IndentationFlexibleReplacer, TrimmedBoundaryReplacer, ContextAwareReplacer>>

Replacers ==
    <<SimpleReplacer, LineTrimmedReplacer, BlockAnchorReplacer, WhitespaceNormalizedReplacer,
      IndentationFlexibleReplacer, TrimmedBoundaryReplacer, ContextAwareReplacer>>

\* What replaceAll replaces: a text that overlaps the one before is left out.
Replaced(search) ==
    LET apart(i, j) == j > i + Len(search) - 1
                       \/ (j = i + Len(search) - 1 /\ (Len(search) = 1 \/ IsBlank(Last(search)) \/ IsBlank(search[1])))
    IN FoldLeft(LAMBDA so, i : IF \A j \in so : apart(j, i) THEN so \cup {i} ELSE so, {},
                SetToSortSeq(Occurrences(search), <))

\* Mutant: the first of several is replaced.
ReplaceFirst ==
    /\ replaced = <<>>
    /\ LET searches == SelectSeq(FlattenSeq(Replacers), LAMBDA s : Occurrences(s) # {})
       IN replaced' = IF searches = <<>> THEN <<NotFound>>
                      ELSE <<searches[1], IF all THEN Replaced(searches[1]) ELSE {Min(Occurrences(searches[1]))}>>
    /\ UNCHANGED <<old, all, text>>

Replace ==
    /\ replaced = <<>>
    /\ LET searches == SelectSeq(FlattenSeq(Replacers), LAMBDA s : Occurrences(s) # {})
           single == SelectSeq(searches, LAMBDA s : all \/ Cardinality(Occurrences(s)) = 1)
       IN replaced' = CASE searches = <<>> -> <<NotFound>>
                        [] searches # <<>> /\ single = <<>> -> <<Multiple>>
                        [] OTHER -> <<single[1], Replaced(single[1])>>
    /\ UNCHANGED <<old, all, text>>

Next == Replace
Spec == Init /\ [][Next]_replaceVars

-----------------------------------------------------------------------------
(* Properties *)

Done == Len(replaced) = 2
Search == replaced[1]

\* A block is alike if it has the words of the old text, or its first and last line.
Alike(lines) ==
    \/ WordsOf(lines) = WordsOf(old)
    \/ lines[1].word = old[1].word /\ Last(lines).word = Last(WithoutLast(old)).word

Same(lines) == Trimmed(lines) = Trimmed(WithoutLast(old))
Parts == UNION {{Block(i, n) : i \in Starts(n)} : n \in DOMAIN text}
SamePlaces == {i \in Starts(Len(WithoutLast(old))) : Same(Block(i, Len(WithoutLast(old))))}

\* An edit replaces a text that is in the file once and is alike to the old one: the old
\* one itself if that is there once, and all of it with replaceAll if it is there.  It is not
\* found only if no lines are its lines but for white space, and there are several only
\* if a text that is alike is in several places.
ReplacesOld ==
    /\ Done => Alike(Search)
    /\ Done /\ ~all => Occurrences(Search) = replaced[2] /\ Cardinality(replaced[2]) = 1
    /\ replaced # <<>> /\ (IF all THEN Occurrences(old) # {} ELSE Cardinality(Occurrences(old)) = 1) =>
          Done /\ Search = old
    /\ Done /\ all => \A i \in Occurrences(Search) : \E j \in replaced[2] : j <= i /\ i < j + Len(Search)
    /\ replaced = <<NotFound>> => SamePlaces = {} /\ Occurrences(old) = {}
    /\ replaced = <<Multiple>> => ~all /\ \E s \in {old, Trim(old)} \cup Parts : Alike(s) /\ Cardinality(Occurrences(s)) > 1

\* "The edit will FAIL if `oldString` is found multiple times in the file" (edit.txt:9).
\* The code goes on to the next replacer.
SeveralFail == replaced # <<>> /\ ~all /\ Cardinality(Occurrences(old)) > 1 => replaced = <<Multiple>>
=============================================================================
