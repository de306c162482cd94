----------------------------- MODULE PatchCases -----------------------------
(***************************************************************************)
(* Calls of apply_patch on small files: one section with up to two chunks  *)
(* against all of them, and two sections, or one that moves its file,      *)
(* against some.                                                           *)
(***************************************************************************)
LOCAL INSTANCE SequencesExt
LOCAL INSTANCE TLC

CONSTANTS
    One, Other,        \* files
    Missing,
    This, That, Blank, \* texts of lines
    Long               \* how long a file is

Line(text) == [text |-> text, padded |-> FALSE]
Contents(n) == BoundedSeq({Line(This), Line(That), Line(Blank)}, n)
Padded == BoundedSeq({Line(This), Line(Blank), [text |-> This, padded |-> TRUE]}, 3)
OnDisk(one, other) == (One :> one) @@ (Other :> other)

Chunks == [context : {<<>>, <<Line(This)>>},
           old : {<<>>, <<Line(This)>>, <<Line(This), Line(That)>>, <<Line(This), Line(Blank)>>},
           new : {<<>>, <<Line(That)>>}]
OneChunk == <<[context |-> <<>>, old |-> <<Line(This)>>, new |-> <<Line(That)>>]>>

Section(type, path, move, lines, chunks) ==
    [type |-> type, path |-> path, move |-> move, lines |-> lines, chunks |-> chunks]
Update(path, chunks) == Section("update", path, {}, <<>>, chunks)
Seconds == {Section("add", Other, {}, lines, <<>>) : lines \in Contents(2)}
    \cup {Section("delete", Other, {}, <<>>, <<>>), Update(Other, OneChunk)}

Cases ==
    [files : {OnDisk(lines, Missing) : lines \in Contents(Long) \cup Padded},
     patch : {<<Update(One, chunks)>> : chunks \in BoundedSeq(Chunks, 2)}]
    \cup
    [files : {OnDisk(one, other) : one \in Contents(1) \cup {Missing}, other \in {Missing, <<Line(This)>>}},
     patch : {<<Update(One, OneChunk), second>> : second \in Seconds}
        \cup {<<Section("update", One, {Other}, <<>>, OneChunk)>>}]
=============================================================================
