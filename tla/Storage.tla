------------------------------- MODULE Storage -------------------------------
(***************************************************************************)
(* The sessions that older versions left in files: index.ts imports them   *)
(* with storage/json-migration.ts when the program starts and finds no     *)
(* database, and the migrations of storage/storage.ts, which run before    *)
(* its first use in a process, bring them from the directory of a project  *)
(* (1) and take the diffs out of a session's file (2).                     *)
(*                                                                         *)
(* The program may be killed anywhere, also within the write of a file; it *)
(* is started again.  What a file holds of a session is its record with    *)
(* the diffs (full) or without them (slim); its messages stand for all the *)
(* files below it.  The migrations delete nothing, so what they pass over  *)
(* stays where it is.                                                      *)
(***************************************************************************)
EXTENDS Naturals

CONSTANTS
    MaxRecords, \* the sessions are 1..MaxRecords, in the order in which glob finds them
    MaxStarts, \* bounds
    MaxWork

VARIABLES
    origin,   \* what each session was when the program came
    plain,    \* is the database of this installation's channel the turing.db of the marker?
    files,    \* session/<project>/<id>.json
    messages, \* sessions whose messages are in the storage directory
    diffs,    \* session_diff/<id>.json
    marker,   \* how many migrations have been done
    opened,   \* is there a turing.db?
    rows,     \* sessions in the database
    batch,    \* the transaction of an import: where it is and what it has inserted
    process,  \* down, importing or running
    migration, \* where the state of storage.ts is: the migration, the session, its step
    failed,   \* did a migration fail, or the marker fail to be read?
    dropped,  \* sessions whose batch could not be inserted
    removed,  \* sessions that the user has removed
    starts, work

storageVars == <<origin, plain, files, messages, diffs, marker, opened, rows, batch, process, migration,
                 failed, dropped, removed, starts, work>>

Records == 1..MaxRecords
NotLoaded == [step |-> 0, at |-> 1, half |-> FALSE]
Loaded == [step |-> 3, at |-> 1, half |-> FALSE]
NoBatch == [at |-> 1, rows |-> {}]

\* In a project's directory: of a project with a commit; the like, but a record without
\* an id; of a project that is global, has no commit or whose worktree is gone; no JSON.
InProject == {"taken", "nameless", "skipped", "ruined"}
\* In the storage directory: with diffs; without; with diffs, but not what migration 2
\* decodes; in another directory than that of the project it names; its project has no
\* file; no JSON.
InStorage == {"full", "slim", "odd", "moved", "orphan", "broken"}

\* The file of a session of an older version.  What migration 1 brings names its old project.
Left(o) == CASE o \in {"slim", "broken"} -> o [] o \in InProject -> "none" [] OTHER -> "full"
Decodes(s) == files[s] = "full" /\ origin[s] \notin {"nameless", "odd"}
NamesOther(s) == origin[s] \in {"taken", "moved"}

Init ==
    /\ origin \in [Records -> InProject \cup InStorage]
    /\ plain \in BOOLEAN
    /\ files = [s \in Records |-> Left(origin[s])]
    /\ messages = {s \in Records : origin[s] \in InStorage}
    /\ diffs = [s \in Records |-> "none"]
    /\ marker = 0 /\ opened = FALSE /\ rows = {} /\ batch = NoBatch
    /\ process = "down" /\ migration = NotLoaded
    /\ failed = FALSE /\ dropped = {} /\ removed = {} /\ starts = 0 /\ work = 0

-----------------------------------------------------------------------------
(* index.ts *)

\* Mutant: every start imports.
StartImporting ==
    /\ process = "down" /\ starts < MaxStarts
    /\ starts' = starts + 1
    /\ process' = "importing"
    /\ opened' = plain
    /\ UNCHANGED <<origin, plain, files, messages, diffs, marker, rows, batch, migration, failed, dropped, removed, work>>

\* Opening the database makes its file, before anything is imported.
Start ==
    /\ process = "down" /\ starts < MaxStarts
    /\ starts' = starts + 1
    /\ process' = IF opened THEN "running" ELSE "importing"
    /\ opened' = plain
    /\ UNCHANGED <<origin, plain, files, messages, diffs, marker, rows, batch, migration, failed, dropped, removed, work>>

Step(n) == migration.step = n
At == migration.at

\* Which file is written next: a session by migration 1, its diffs and then the session
\* by migration 2, the marker by the loop over the migrations.
CopiesFile == Step(1) /\ At \in Records /\ origin[At] \in {"taken", "nameless"} /\ ~migration.half
WritesDiffs == Step(2) /\ At \in Records /\ Decodes(At) /\ ~migration.half
WritesSlim == Step(2) /\ At \in Records /\ Decodes(At) /\ migration.half
Marks == migration.step \in {1, 2} /\ At \notin Records

\* The kill cuts the file that is being written; a marker that is cut counts as none.
Crash ==
    /\ process # "down"
    /\ process' = "down" /\ batch' = NoBatch /\ migration' = NotLoaded
    /\ \/ UNCHANGED <<files, diffs, marker>>
       \/ /\ CopiesFile \/ (WritesSlim /\ ~NamesOther(At))
          /\ files' = [files EXCEPT ![At] = "broken"] /\ UNCHANGED <<diffs, marker>>
       \/ WritesDiffs /\ diffs' = [diffs EXCEPT ![At] = "cut"] /\ UNCHANGED <<files, marker>>
       \/ Marks /\ marker' = 0 /\ UNCHANGED <<files, diffs>>
    /\ UNCHANGED <<origin, plain, messages, opened, rows, failed, dropped, removed, starts, work>>

-----------------------------------------------------------------------------
(* json-migration.ts: one transaction *)

\* A file that cannot be read and a session whose project has no file are passed over.
Importable == {s \in Records : files[s] \in {"full", "slim"} /\ origin[s] # "orphan"}

\* Mutant: there is no transaction.
ImportAlone ==
    /\ process = "importing" /\ batch.at \in Records
    /\ \E last \in batch.at..MaxRecords :
          LET chunk == (batch.at..last) \cap Importable
          IN /\ batch' = [batch EXCEPT !.at = last + 1]
             /\ rows' = rows \cup chunk
    /\ UNCHANGED <<origin, plain, files, messages, diffs, marker, opened, process, migration, failed, dropped, removed,
                   starts, work>>

\* The next batch, of any size; if it cannot be inserted, the import goes on without it.
Import ==
    /\ process = "importing" /\ batch.at \in Records
    /\ \E last \in batch.at..MaxRecords :
          LET chunk == (batch.at..last) \cap Importable
          IN \/ batch' = [at |-> last + 1, rows |-> batch.rows \cup chunk] /\ UNCHANGED dropped
             \/ batch' = [batch EXCEPT !.at = last + 1] /\ dropped' = dropped \cup chunk
    /\ UNCHANGED <<origin, plain, files, messages, diffs, marker, opened, rows, process, migration, failed, removed,
                   starts, work>>

\* What is there already is left alone: onConflictDoNothing.
Commit ==
    /\ process = "importing" /\ batch.at \notin Records
    /\ rows' = rows \cup batch.rows /\ batch' = NoBatch
    /\ process' = "running"
    /\ UNCHANGED <<origin, plain, files, messages, diffs, marker, opened, migration, failed, dropped, removed, starts, work>>

-----------------------------------------------------------------------------
(* The migrations of storage.ts *)

NextSession == [migration EXCEPT !.at = @ + 1, !.half = FALSE]
Halfway == [migration EXCEPT !.half = TRUE]

\* The first call that needs the directory; the others wait for it.  A marker that cannot
\* be read counts as none.
Load ==
    /\ process = "running" /\ Step(0)
    /\ \/ migration' = [NotLoaded EXCEPT !.step = marker + 1] /\ UNCHANGED failed
       \/ migration' = [NotLoaded EXCEPT !.step = 1] /\ failed' = TRUE
    /\ UNCHANGED <<origin, plain, files, messages, diffs, marker, opened, rows, batch, process, dropped, removed, starts, work>>

\* A session's file is copied before its messages, over what an earlier try has copied.
Copy ==
    /\ Step(1) /\ At \in Records /\ origin[At] # "ruined"
    /\ IF CopiesFile
       THEN /\ files' = [files EXCEPT ![At] = "full"]
            /\ migration' = IF origin[At] = "taken" THEN Halfway ELSE NextSession
            /\ UNCHANGED messages
       ELSE /\ messages' = IF origin[At] = "taken" THEN messages \cup {At} ELSE messages
            /\ migration' = NextSession
            /\ UNCHANGED files
    /\ UNCHANGED <<origin, plain, diffs, marker, opened, rows, batch, process, failed, dropped, removed, starts, work>>

\* Mutant: the session is written first.
StripFirst ==
    /\ Step(2) /\ At \in Records /\ files[At] # "broken"
    /\ IF migration.half
       THEN diffs' = [diffs EXCEPT ![At] = "old"] /\ migration' = NextSession /\ UNCHANGED files
       ELSE IF WritesDiffs
       THEN /\ files' = IF NamesOther(At) THEN files ELSE [files EXCEPT ![At] = "slim"]
            /\ migration' = Halfway /\ UNCHANGED diffs
       ELSE migration' = NextSession /\ UNCHANGED <<files, diffs>>
    /\ UNCHANGED <<origin, plain, messages, marker, opened, rows, batch, process, failed, dropped, removed, starts, work>>

\* The diffs get their own file, then the session is written without them, to the directory
\* of the project that it names: its own file stays as it is when that is another one.
Strip ==
    /\ Step(2) /\ At \in Records /\ files[At] # "broken"
    /\ IF WritesDiffs
       THEN diffs' = [diffs EXCEPT ![At] = "old"] /\ migration' = Halfway /\ UNCHANGED files
       ELSE /\ files' = IF WritesSlim /\ ~NamesOther(At) THEN [files EXCEPT ![At] = "slim"] ELSE files
            /\ migration' = NextSession /\ UNCHANGED diffs
    /\ UNCHANGED <<origin, plain, messages, marker, opened, rows, batch, process, failed, dropped, removed, starts, work>>

\* Mutant: a migration that fails counts.
FailCounted ==
    /\ migration.step \in {1, 2} /\ At \in Records
    /\ migration' = Loaded /\ marker' = migration.step /\ failed' = TRUE
    /\ UNCHANGED <<origin, plain, files, messages, diffs, opened, rows, batch, process, dropped, removed, starts, work>>

\* A file cannot be written, or not be read, as one that is no JSON never can: the
\* migrations end here, and the directory is used as it is.
MigrationFails ==
    /\ migration.step \in {1, 2} /\ At \in Records
    /\ migration' = Loaded /\ failed' = TRUE
    /\ UNCHANGED <<origin, plain, files, messages, diffs, marker, opened, rows, batch, process, dropped, removed, starts, work>>

\* Mutant: the marker is not written.
MarkNothing ==
    /\ Marks
    /\ migration' = [NotLoaded EXCEPT !.step = migration.step + 1]
    /\ UNCHANGED <<origin, plain, files, messages, diffs, marker, opened, rows, batch, process, failed, dropped, removed,
                   starts, work>>

Mark ==
    /\ Marks
    /\ marker' = migration.step
    /\ migration' = [NotLoaded EXCEPT !.step = migration.step + 1]
    /\ UNCHANGED <<origin, plain, files, messages, diffs, opened, rows, batch, process, failed, dropped, removed, starts, work>>

-----------------------------------------------------------------------------
(* The program at work *)

\* summary.ts and revert.ts write the diffs of a session.
WriteDiffs ==
    /\ process = "running" /\ Step(3) /\ work < MaxWork
    /\ \E s \in rows : diffs' = [diffs EXCEPT ![s] = "new"]
    /\ work' = work + 1
    /\ UNCHANGED <<origin, plain, files, messages, marker, opened, rows, batch, process, migration, failed, dropped,
                   removed, starts>>

\* Session.remove deletes rows, no file.
Remove ==
    /\ process = "running" /\ work < MaxWork
    /\ \E s \in rows : rows' = rows \ {s} /\ removed' = removed \cup {s}
    /\ work' = work + 1
    /\ UNCHANGED <<origin, plain, files, messages, diffs, marker, opened, batch, process, migration, failed, dropped, starts>>

Next ==
    \/ Start \/ Crash \/ Import \/ Commit
    \/ Load \/ Copy \/ Strip \/ MigrationFails \/ Mark
    \/ WriteDiffs \/ Remove

Spec == Init /\ [][Next]_storageVars

-----------------------------------------------------------------------------
(* Properties *)

TypeOK ==
    /\ files \in [Records -> {"none", "full", "slim", "broken"}]
    /\ diffs \in [Records -> {"none", "cut", "old", "new"}]
    /\ messages \subseteq Records /\ marker \in 0..2 /\ rows \subseteq Records
    /\ batch \in [at : 1..MaxRecords + 1, rows : SUBSET Records]
    /\ process \in {"down", "importing", "running"}
    /\ migration \in [step : 0..3, at : 1..MaxRecords + 1, half : BOOLEAN]

\* Wherever the program is killed and whatever cannot be read or written, a session of the
\* storage directory has its diffs in one place or the other.
DiffsKept ==
    \A s \in Records : origin[s] \in InStorage \ {"slim", "broken"} => files[s] = "full" \/ diffs[s] \in {"old", "new"}

\* The marker counts what was done: what migration 1 takes is copied with its messages, and
\* everything that migration 2 decodes has a file for its diffs.
MarkerTells ==
    /\ marker >= 1 => \A s \in Records :
          /\ origin[s] \in {"taken", "nameless"} => files[s] # "none"
          /\ origin[s] = "taken" => s \in messages
    /\ marker = 2 => \A s \in Records : Decodes(s) => NamesOther(s) /\ diffs[s] \in {"old", "new"}

\* An import is there but for the batches that it could not insert, or not at all.
ImportedWhole ==
    plain => rows \cup removed \in {{}, {s \in Records : origin[s] \in {"full", "slim", "odd", "moved"}} \ dropped}

\* What the user removes does not come back with the next start.
RemovedStay == plain => rows \cap removed = {}

\* What an older version left is kept, and imported once.
SessionsKept == DiffsKept /\ MarkerTells /\ ImportedWhole /\ RemovedStay

\* Diffs that the program has written are replaced by those of an old file only after a
\* migration has failed, or the marker could not be read.
NewDiffsKept == [][\A s \in Records : diffs[s] = "new" /\ diffs'[s] # "new" => failed]_storageVars

=============================================================================
