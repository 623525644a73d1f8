-------------------------- MODULE PatchProperties --------------------------
(* What is claimed of apply_patch.                                          *)
EXTENDS Patch

Named(hunk) == {hunk.path} \cup (IF hunk.kind = "update" THEN {hunk.dest} ELSE {})

NamedPaths == UNION { Named(hunks[k]) : k \in DOMAIN hunks }

\* No file is named by two hunks.
Separate == \A j, k \in DOMAIN hunks : j # k => Named(hunks[j]) \cap Named(hunks[k]) = {}

\* What a hunk makes of the file it is about, by itself.
Outcome(hunk, file) ==
  CASE hunk.kind = "add"    -> IF file = NoFile THEN hunk.contents ELSE Unmatched
    [] hunk.kind = "delete" -> IF file = NoFile THEN Unmatched ELSE NoFile
    [] hunk.kind = "update" -> IF file = NoFile THEN Unmatched ELSE ApplyChunks(file, hunk.chunks)

\* The same file operations, one hunk after the other.
Dest(hunk) == IF hunk.kind = "update" THEN hunk.dest ELSE hunk.path
AfterHunk(files, hunk) ==
  IF files = Unmatched \/ Outcome(hunk, files[hunk.path]) = Unmatched THEN Unmatched
  ELSE Effect([path |-> hunk.path, dest |-> Dest(hunk), content |-> Outcome(hunk, files[hunk.path])], files)
InOrder == FoldLeft(AfterHunk, before, hunks)

-----------------------------------------------------------------------------
\* A patch that is refused, whichever hunk is at fault, has written nothing.
RefusedLeavesDisk ==
  result = "refused" => \A p \in Paths \ touched : disk[p] = before[p]

\* A patch reported as applied has done all it says: every hunk's file is what
\* the hunk makes of the file as it was, a moved file is gone from its old place
\* and no other file changed.  (Hunks about different files, nobody interfering.)
AppliedInFull ==
  result = "applied" /\ touched = {} /\ Separate =>
    /\ \A k \in DOMAIN hunks : LET hunk == hunks[k] IN
         /\ disk[Dest(hunk)] = Outcome(hunk, before[hunk.path])
         /\ hunk.path # Dest(hunk) => disk[hunk.path] = NoFile
    /\ \A p \in Paths \ NamedPaths : disk[p] = before[p]

\* An uncaught exception, which would end the turn, needs a patch that names a
\* file twice, or somebody else's hand: the checks of pass 1 foresee the rest.
RaisesOnlyOnConflict == result = "raised" => ~Separate \/ touched # {}

-----------------------------------------------------------------------------
\* "All or nothing": with nobody interfering and no operation failing, the disk
\* is as it was or as all the hunks, one after the other, make it.
AllOrNothing ==
  result \in {"refused", "applied", "raised"} /\ touched = {} =>
    disk = before \/ disk = InOrder
=============================================================================
