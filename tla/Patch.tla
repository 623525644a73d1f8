------------------------------- MODULE Patch -------------------------------
(***************************************************************************)
(* apply_patch (s05): check every hunk against the disk, then write.       *)
(*                                                                         *)
(* Between any two of its file operations another process may write the    *)
(* same files (a command that outlived its interrupted turn, an editor),   *)
(* and each operation may fail.  One patch is applied; a text that         *)
(* parse_patch refuses does nothing and is left out, as are directories,   *)
(* several names of one file, and the wording of diffs.                    *)
(***************************************************************************)
EXTENDS Chunks

CONSTANTS
  Paths,    \* the files' names
  Files,    \* every content a file may come to have
  Contents, \* those that are on the disk first, in Add hunks, and of other processes
  Edits,    \* the lists of chunks of the Update hunks
  MaxHunks  \* bound on the hunks of a patch

NoFile == [file |-> FALSE]
Empty  == Text(<<Bare(Blank)>>, FALSE)

ASSUME FilesAssumption ==
  /\ Contents \subseteq Files /\ Empty \in Files /\ NoFile \notin Files
  /\ \A file \in Files, chunks \in Edits : ApplyChunks(file, chunks) \in Files \cup {Unmatched}
ASSUME MaxHunksAssumption == MaxHunks \in Nat

\* AddFile, DeleteFile, UpdateFile.  dest is move_path, or the path itself.
Hunk ==
  [kind : {"add"}, path : Paths, contents : Contents]
    \cup [kind : {"delete"}, path : Paths]
    \cup [kind : {"update"}, path : Paths, dest : Paths, chunks : Edits]

Patches == UNION { [1 .. n -> Hunk] : n \in 1 .. MaxHunks }

VARIABLES
  disk,    \* every file's content, or NoFile
  phase,   \* "new", "checking", "writing" or "over"
  hunks,   \* the patch
  changes, \* the FileChanges computed so far
  written, \* how many of them have been written
  result,  \* how apply_patch ended
  before,  \* the disk when it began
  touched  \* files that others wrote, or a failing write tore, since then

vars == <<disk, phase, hunks, changes, written, result, before, touched>>

File == Files \cup {NoFile}

Change == [kind : {"add", "delete", "update"}, path : Paths, dest : Paths, content : File]

TypeOK ==
  /\ disk \in [Paths -> File] /\ before \in [Paths -> File]
  /\ phase \in {"new", "checking", "writing", "over"}
  /\ hunks \in Seq(Hunk)
  /\ changes \in Seq(Change) /\ Len(changes) <= Len(hunks)
  /\ written \in 0 .. Len(changes)
  /\ result \in {"none", "refused", "applied", "raised", "failed"}
  /\ touched \subseteq Paths

Init ==
  /\ disk \in [Paths -> {NoFile} \cup Contents]
  /\ phase = "new" /\ hunks = <<>> /\ changes = <<>> /\ written = 0
  /\ result = "none" /\ before = disk /\ touched = {}

-----------------------------------------------------------------------------
Begin(patch) ==
  /\ phase = "new"
  /\ phase' = "checking" /\ hunks' = patch /\ before' = disk /\ touched' = {}
  /\ UNCHANGED <<disk, changes, written, result>>

Over(how) == phase' = "over" /\ result' = how

\* Pass 1: the hunk that comes next.
Hunk1 == hunks[Len(changes) + 1]

Checking == phase = "checking" /\ Len(changes) < Len(hunks)

\* Mutant: the file that was moved away stays.
Effect_Copy(change, files) == [files EXCEPT ![change.dest] = change.content]

\* What a change does to the files.
Effect(change, files) ==
  [p \in Paths |->
     CASE p = change.dest                      -> change.content
       [] p = change.path /\ p # change.dest   -> NoFile
       [] OTHER                                -> files[p]]

\* Mutant: one pass, each change written as soon as it is computed.
Plan_AndWrite(change) ==
  /\ changes' = Append(changes, change)
  /\ disk' = Effect(change, disk)
  /\ IF Len(changes) + 1 = Len(hunks) THEN Over("applied") ELSE UNCHANGED <<phase, result>>
  /\ UNCHANGED <<hunks, written, before, touched>>

Plan(change) ==
  /\ changes' = Append(changes, change)
  /\ phase' = IF Len(changes) + 1 = Len(hunks) THEN "writing" ELSE "checking"
  /\ UNCHANGED <<disk, hunks, written, result, before, touched>>

CheckAdd ==
  /\ Checking /\ Hunk1.kind = "add"
  /\ disk[Hunk1.path] = NoFile
  /\ Plan([kind |-> "add", path |-> Hunk1.path, dest |-> Hunk1.path, content |-> Hunk1.contents])

\* Mutant: whether the file is there is left to unlink().
CheckDelete_Unchecked ==
  /\ Checking /\ Hunk1.kind = "delete"
  /\ Plan([kind |-> "delete", path |-> Hunk1.path, dest |-> Hunk1.path, content |-> NoFile])

CheckDelete ==
  /\ Checking /\ Hunk1.kind = "delete"
  /\ disk[Hunk1.path] # NoFile
  /\ Plan([kind |-> "delete", path |-> Hunk1.path, dest |-> Hunk1.path, content |-> NoFile])

CheckUpdate ==
  /\ Checking /\ Hunk1.kind = "update"
  /\ disk[Hunk1.path] # NoFile
  /\ LET new == ApplyChunks(disk[Hunk1.path], Hunk1.chunks) IN
     /\ new # Unmatched
     /\ Plan([kind |-> "update", path |-> Hunk1.path, dest |-> Hunk1.dest, content |-> new])

\* PatchError, from any of the three.
Refuse ==
  /\ Checking
  /\ LET file == disk[Hunk1.path] IN
     \/ Hunk1.kind = "add" /\ file # NoFile
     \/ Hunk1.kind # "add" /\ file = NoFile
     \/ /\ Hunk1.kind = "update" /\ file # NoFile
        /\ ApplyChunks(file, Hunk1.chunks) = Unmatched
  /\ Over("refused")
  /\ UNCHANGED <<disk, hunks, changes, written, before, touched>>

\* Pass 2: the change that comes next.
Change1 == changes[written + 1]

Writing == phase = "writing" /\ written < Len(changes)

\* The change removes the file at its path.
Unlinks(change) == change.kind = "delete" \/ change.dest # change.path

Write ==
  /\ Writing
  /\ ~(Unlinks(Change1) /\ disk[Change1.path] = NoFile)
  /\ disk' = Effect(Change1, disk)
  /\ written' = written + 1
  /\ IF written + 1 = Len(changes) THEN Over("applied") ELSE UNCHANGED <<phase, result>>
  /\ UNCHANGED <<hunks, changes, before, touched>>

\* unlink() of a file that is no longer there: the destination of a move has
\* been written, and FileNotFoundError is not a PatchError.
WriteRaises ==
  /\ Writing
  /\ Unlinks(Change1) /\ disk[Change1.path] = NoFile
  /\ disk' = Effect(Change1, disk)
  /\ Over("raised")
  /\ UNCHANGED <<hunks, changes, written, before, touched>>

-----------------------------------------------------------------------------
(* The operating system and the other processes.                           *)

\* A read fails, or a write, which may leave the file truncated, or the removal
\* of the file that was moved.
OsError ==
  /\ Checking \/ Writing
  /\ Over("failed")
  /\ \/ UNCHANGED <<disk, touched>>
     \/ /\ Writing /\ Change1.kind # "delete"
        /\ disk' = [disk EXCEPT ![Change1.dest] = Empty]
        /\ touched' = touched \cup {Change1.dest}
     \/ /\ Writing /\ Change1.dest # Change1.path
        /\ disk' = [disk EXCEPT ![Change1.dest] = Change1.content]
        /\ UNCHANGED touched
  /\ UNCHANGED <<hunks, changes, written, before>>

\* A command that was not stopped, an editor: between any two operations.
OthersWrite(p, file) ==
  /\ phase \in {"checking", "writing"}
  /\ disk' = [disk EXCEPT ![p] = file]
  /\ touched' = touched \cup {p}
  /\ UNCHANGED <<phase, hunks, changes, written, result, before>>

Next ==
  \/ \E patch \in Patches : Begin(patch)
  \/ CheckAdd \/ CheckDelete \/ CheckUpdate \/ Refuse
  \/ Write \/ WriteRaises
  \/ OsError
  \/ \E p \in Paths, file \in {NoFile} \cup Contents : OthersWrite(p, file)

Spec == Init /\ [][Next]_vars
=============================================================================
