---------------------------- MODULE SaveDirectory ----------------------------
(***************************************************************************)
(* The save directory of a receiving device, as both channels of the file  *)
(* transfer use it: one file name and the names made from it, each with a  *)
(* final file and a partial one.                                           *)
(*                                                                         *)
(* File contents are sequences of blocks; SHA-256 equality is equality of  *)
(* sequences.  A file on disk is an inode, so that a name can be renamed   *)
(* or removed while a coroutine still holds it open.                       *)
(*                                                                         *)
(* Definitions named Wrong... are never used by the specification.  Each   *)
(* is the definition that follows it with a plausible mistake in it, kept  *)
(* to show that some property notices.                                     *)
(***************************************************************************)
EXTENDS Integers, Sequences, FiniteSets

CONSTANTS
    Contents,     \* the contents the source file may have, a set of sequences
    Blocks,       \* the blocks those sequences are made of
    Hole,         \* what stands where no block of the sender's was written
    MaxPath,      \* save names: name, name(1), ... name(MaxPath - 1)
    DiskFails     \* the disk may refuse to read, remove or rename a file

ASSUME DirectoryOK ==
    /\ MaxPath \in Nat \ {0}
    /\ DiskFails \in BOOLEAN
    /\ Hole \notin Blocks
    /\ Contents # {} /\ Contents \subseteq Seq(Blocks)

Paths  == 1..MaxPath
Old    == 0                       \* inode of a file that was there before
NoFile == -1
Disk   == Seq(Blocks \union {Hole})

VARIABLES
    data,     \* inode -> content
    partial,  \* name -> inode of name.partial
    final     \* name -> inode of name

dirVars == <<data, partial, final>>

\* Before the first attempt: nothing, or a file of that name.
InitDirectory(inodes) ==
    /\ partial = [p \in Paths |-> NoFile]
    /\ \E old \in Contents, there \in {Old, NoFile} :
          /\ data = [i \in inodes |-> IF i = there THEN old ELSE <<>>]
          /\ final = [p \in Paths |-> IF p = 1 THEN there ELSE NoFile]

\* resolve_save_path: the name, or the first free one made from it.
Free(p) == final[p] = NoFile
FreeFrom(p) == {q \in p..MaxPath : Free(q)}
ResolveSavePath(p) == CHOOSE q \in FreeFrom(p) : \A r \in FreeFrom(p) : q <= r

\* resolve_conflict, for the path the user decided on.
ResolveConflict(p, f) ==
    IF Free(p) \/ partial[p] # NoFile \/ data[final[p]] = f
    THEN p ELSE ResolveSavePath(p)

\* find_duplicate: the name exists with this very content, nothing partial.
Duplicate(f) == /\ ~Free(1) /\ partial[1] = NoFile
                /\ data[final[1]] = f

\* validate_resume: what is there is the resume offset, unless it is longer
\* than the file, then it is deleted.
TooLong(p, f)   == partial[p] # NoFile /\ Len(data[partial[p]]) > Len(f)
ResumeOffset(p, f) ==
    IF partial[p] = NoFile \/ TooLong(p, f) THEN 0 ELSE Len(data[partial[p]])
AfterValidate(p, f) ==
    IF TooLong(p, f) THEN [partial EXCEPT ![p] = NoFile] ELSE partial

\* Writing one block at an offset.
WriteAt(s, o, b) ==
    [k \in 1..(IF o < Len(s) THEN Len(s) ELSE o + 1) |->
        IF k = o + 1 THEN b ELSE IF k <= Len(s) THEN s[k] ELSE Hole]

\* What compute_file_hash meets when it opens the partial file and reads it.
Unreadable(p) == partial[p] = NoFile \/ DiskFails

\* finalize: a file of that name is removed, the partial file takes the name.
FinalizeFile(p) ==
    /\ partial[p] # NoFile
    /\ final' = [final EXCEPT ![p] = partial[p]]
    /\ partial' = [partial EXCEPT ![p] = NoFile]

\* The rename fails, because the partial file is gone or the disk refuses, when
\* the old file is removed already; or that removal is what the disk refuses.
FinalizeLost(p) ==
    /\ \/ /\ Unreadable(p)
          /\ final' = [final EXCEPT ![p] = NoFile]
       \/ DiskFails /\ UNCHANGED final
    /\ UNCHANGED partial

\* Wrong: every error but a pause deletes the partial file.
WrongCleanUp(p, kind) ==
    partial' = IF kind # "paused" THEN [partial EXCEPT ![p] = NoFile] ELSE partial

\* finish_receive after an error: a cancelled receive and one that failed
\* verification delete the partial file, any other keeps it to resume from.
CleanUp(p, kind) ==
    partial' = IF kind \in {"cancel", "verify"}
               THEN [partial EXCEPT ![p] = NoFile] ELSE partial

-----------------------------------------------------------------------------
(* Properties of the directory, whatever channel writes to it.             *)

Saved(f) == \E p \in Paths : ~Free(p) /\ data[final[p]] = f

\* The directory as the user sees it.
Shelf == [p \in Paths |-> IF Free(p) THEN <<Hole>> ELSE data[final[p]]]

\* A file that has its final name keeps its content under that name for ever,
\* whatever path the user decides on: receiving never overwrites or removes it.
NoOverwrite ==
    [][\A p \in Paths : ~Free(p) =>
          final'[p] # NoFile /\ data'[final'[p]] = data[final[p]]]_dirVars
=============================================================================
