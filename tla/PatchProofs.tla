---------------------------- MODULE PatchProofs ----------------------------
(***************************************************************************)
(* Theorems about apply_patch, for any files, contents, edits and number   *)
(* of hunks.                                                               *)
(*                                                                         *)
(* What a patch promises when it is over says little of the steps before.  *)
(* IndInv adds it: the first pass leaves the disk alone, each change       *)
(* computed is what its hunk makes of the disk as it was, and in the       *)
(* second pass the changes written are on the disk and the files of the    *)
(* others are still as they were.                                          *)
(***************************************************************************)
EXTENDS PatchProperties, SequenceTheorems, TLAPS

Undisturbed == touched = {} /\ Separate

\* The passes and their counters.
Passes ==
  /\ phase = "new" => changes = <<>> /\ written = 0 /\ touched = {} /\ before = disk /\ result = "none"
  /\ phase = "checking" => written = 0 /\ Len(changes) < Len(hunks) /\ result = "none"
  /\ phase = "writing" => Len(changes) = Len(hunks) /\ written < Len(changes) /\ result = "none"
  /\ result = "applied" => Len(changes) = Len(hunks) /\ written = Len(changes)

\* Nothing is written before every hunk has been checked, nor if one is refused.
FirstPassOnlyReads ==
  phase = "checking" \/ result = "refused" => \A p \in Paths \ touched : disk[p] = before[p]

\* The change is what the hunk makes of the disk as it was.
Foreseen(change, hunk) ==
  /\ change.path = hunk.path /\ change.dest = Dest(hunk)
  /\ change.content = Outcome(hunk, before[hunk.path])
  /\ Unlinks(change) => before[hunk.path] # NoFile

ChangesForeseen ==
  touched = {} => \A k \in 1 .. Len(changes) : Foreseen(changes[k], hunks[k])

\* The disk in the second pass: hunks up to `written' done, the others not begun.
Done(hunk) ==
  /\ disk[Dest(hunk)] = Outcome(hunk, before[hunk.path])
  /\ hunk.path # Dest(hunk) => disk[hunk.path] = NoFile

SecondPassInOrder ==
  Undisturbed /\ (phase = "writing" \/ result = "applied") =>
    /\ \A k \in 1 .. Len(hunks) : k <= written => Done(hunks[k])
    /\ \A k \in 1 .. Len(hunks) : k > written => \A p \in Named(hunks[k]) : disk[p] = before[p]
    /\ \A p \in Paths \ NamedPaths : disk[p] = before[p]

IndInv ==
  /\ TypeOK /\ Passes
  /\ FirstPassOnlyReads /\ ChangesForeseen /\ SecondPassInOrder /\ RaisesOnlyOnConflict

-----------------------------------------------------------------------------
(* Types.                                                                  *)

LEMMA HunkTyped ==
  ASSUME NEW hunk \in Hunk
  PROVE  /\ hunk.kind \in {"add", "delete", "update"} /\ hunk.path \in Paths /\ Dest(hunk) \in Paths
         /\ Named(hunk) = {hunk.path, Dest(hunk)}
         /\ hunk.kind = "add" => hunk.contents \in Contents
         /\ hunk.kind = "update" => hunk.chunks \in Edits
<1>1. CASE hunk \in [kind : {"add"}, path : Paths, contents : Contents]
  BY <1>1 DEF Dest, Named
<1>2. CASE hunk \in [kind : {"delete"}, path : Paths]
  BY <1>2 DEF Dest, Named
<1>3. CASE hunk \in [kind : {"update"}, path : Paths, dest : Paths, chunks : Edits]
  BY <1>3 DEF Dest, Named
<1> QED BY <1>1, <1>2, <1>3 DEF Hunk

\* The hunk that is checked next, and the change that is written next.
LEMMA Hunk1Typed ==
  ASSUME TypeOK, Checking
  PROVE  Hunk1 \in Hunk
  BY ElementOfSeq DEF TypeOK, Checking, Hunk1

LEMMA Change1Typed ==
  ASSUME TypeOK, Writing
  PROVE  Change1 \in Change
  BY ElementOfSeq DEF TypeOK, Writing, Change1

\* What the changes do to the disk stays in the disk's type.
LEMMA EffectTyped ==
  ASSUME NEW change \in Change, NEW files \in [Paths -> File]
  PROVE  Effect(change, files) \in [Paths -> File]
  BY DEF Effect, Change, File

LEMMA PlanTyped ==
  ASSUME TypeOK, Checking, NEW change \in Change, Plan(change)
  PROVE  TypeOK'
<1>1. changes' \in Seq(Change) /\ Len(changes') = Len(changes) + 1
  BY AppendProperties DEF TypeOK, Plan
<1>2. phase' \in {"writing", "checking"}
  BY DEF Plan
<1> QED BY <1>1, <1>2 DEF TypeOK, Plan, Checking

LEMMA InitTyped == Init => TypeOK
<1> SUFFICES ASSUME Init PROVE TypeOK
  OBVIOUS
<1>1. disk \in [Paths -> File]
  BY FilesAssumption DEF Init, File
<1>2. hunks \in Seq(Hunk) /\ changes \in Seq(Change) /\ Len(changes) = 0 /\ Len(hunks) = 0
  BY EmptySeq DEF Init
<1> QED BY <1>1, <1>2 DEF Init, TypeOK

\* Each check that succeeds plans a change: what its hunk makes of the file.
LEMMA Checks ==
  ASSUME TypeOK, CheckAdd \/ CheckDelete \/ CheckUpdate
  PROVE  \E change \in Change :
           /\ Plan(change) /\ Checking
           /\ disk[Hunk1.path] = before[Hunk1.path] => Foreseen(change, Hunk1)
<1>1. CASE CheckAdd
  <2> DEFINE change == [kind |-> "add", path |-> Hunk1.path, dest |-> Hunk1.path, content |-> Hunk1.contents]
  <2>1. change \in Change
    BY <1>1, Hunk1Typed, HunkTyped, FilesAssumption DEF CheckAdd, Change, File
  <2>2. disk[Hunk1.path] = before[Hunk1.path] => Foreseen(change, Hunk1)
    BY <1>1 DEF CheckAdd, Foreseen, Dest, Outcome, Unlinks
  <2> QED BY <1>1, <2>1, <2>2 DEF CheckAdd
<1>2. CASE CheckDelete
  <2> DEFINE change == [kind |-> "delete", path |-> Hunk1.path, dest |-> Hunk1.path, content |-> NoFile]
  <2>1. change \in Change
    BY <1>2, Hunk1Typed, HunkTyped DEF CheckDelete, Change, File
  <2>2. disk[Hunk1.path] = before[Hunk1.path] => Foreseen(change, Hunk1)
    BY <1>2 DEF CheckDelete, Foreseen, Dest, Outcome, Unlinks
  <2> QED BY <1>2, <2>1, <2>2 DEF CheckDelete
<1>3. CASE CheckUpdate
  <2> DEFINE new == ApplyChunks(disk[Hunk1.path], Hunk1.chunks)
             change == [kind |-> "update", path |-> Hunk1.path, dest |-> Hunk1.dest, content |-> new]
  <2>1. /\ Hunk1.kind = "update" /\ Hunk1 \in Hunk /\ Checking
        /\ disk[Hunk1.path] # NoFile /\ new # Unmatched /\ Plan(change)
    BY <1>3, Hunk1Typed DEF CheckUpdate
  <2>2. Hunk1.path \in Paths /\ Hunk1.dest \in Paths /\ Hunk1.chunks \in Edits
    BY <2>1, HunkTyped DEF Dest
  <2>3. disk[Hunk1.path] \in Files
    BY <2>1, <2>2 DEF TypeOK, File
  <2>4. new \in File
    BY <2>1, <2>2, <2>3, FilesAssumption DEF File
  <2>5. change \in Change
    BY <2>2, <2>4 DEF Change
  <2>6. disk[Hunk1.path] = before[Hunk1.path] => Foreseen(change, Hunk1)
    BY <2>1 DEF Foreseen, Dest, Outcome, Unlinks
  <2> QED BY <2>1, <2>5, <2>6
<1> QED BY <1>1, <1>2, <1>3

LEMMA StepTyped == TypeOK /\ Passes /\ [Next]_vars => TypeOK'
<1> SUFFICES ASSUME TypeOK, Passes, [Next]_vars PROVE TypeOK'
  OBVIOUS
<1>1. ASSUME NEW patch \in Patches, Begin(patch) PROVE TypeOK'
  <2>1. patch \in Seq(Hunk)
    <3>1. PICK n \in 1 .. MaxHunks : patch \in [1 .. n -> Hunk]
      BY <1>1 DEF Patches
    <3> QED BY <3>1, MaxHunksAssumption, SeqDef
  <2>2. Len(patch) \in Nat /\ changes' = <<>> /\ Len(changes') = 0
    BY <1>1, <2>1, LenProperties DEF Begin, Passes
  <2> QED BY <1>1, <2>1, <2>2 DEF Begin, TypeOK
<1>2. CASE CheckAdd \/ CheckDelete \/ CheckUpdate
  BY <1>2, Checks, PlanTyped
<1>3. CASE Refuse
  BY <1>3 DEF Refuse, Over, TypeOK
<1>4. CASE Write
  <2>1. disk' \in [Paths -> File]
    BY <1>4, Change1Typed, EffectTyped DEF Write, TypeOK
  <2>2. written' \in 0 .. Len(changes)
    BY <1>4, LenProperties DEF Write, Writing, TypeOK
  <2> QED BY <1>4, <2>1, <2>2 DEF Write, Over, TypeOK
<1>5. CASE WriteRaises
  <2>1. disk' \in [Paths -> File]
    BY <1>5, Change1Typed, EffectTyped DEF WriteRaises, TypeOK
  <2> QED BY <1>5, <2>1 DEF WriteRaises, Over, TypeOK
<1>6. CASE OsError
  <2>1. Writing => Change1 \in Change
    BY Change1Typed
  <2>2. disk' \in [Paths -> File] /\ touched' \subseteq Paths
    BY <1>6, <2>1, FilesAssumption DEF OsError, TypeOK, Change, File
  <2> QED BY <1>6, <2>2 DEF OsError, Over, TypeOK
<1>7. ASSUME NEW p \in Paths, NEW file \in {NoFile} \cup Contents, OthersWrite(p, file) PROVE TypeOK'
  BY <1>7, FilesAssumption DEF OthersWrite, TypeOK, File
<1>8. CASE UNCHANGED vars
  BY <1>8 DEF vars, TypeOK
<1> QED BY <1>1, <1>2, <1>3, <1>4, <1>5, <1>6, <1>7, <1>8 DEF Next

-----------------------------------------------------------------------------
(* The passes.                                                             *)

\* What Plan leaves behind.
LEMMA Planned ==
  ASSUME TypeOK, Passes, Checking, NEW change \in Change, Plan(change)
  PROVE  /\ Len(changes') = Len(changes) + 1 /\ changes'[Len(changes) + 1] = change
         /\ \A k \in 1 .. Len(changes) : changes'[k] = changes[k]
         /\ Passes'
<1>1. /\ Len(changes') = Len(changes) + 1 /\ changes'[Len(changes) + 1] = change
      /\ \A k \in 1 .. Len(changes) : changes'[k] = changes[k]
  BY AppendProperties DEF TypeOK, Plan
<1>2. Len(changes) \in Nat /\ Len(hunks) \in Nat /\ Len(hunks') = Len(hunks)
  BY LenProperties DEF TypeOK, Plan
<1>3. /\ phase' = IF Len(changes) + 1 = Len(hunks) THEN "writing" ELSE "checking"
      /\ written' = written /\ result' = result /\ written = 0 /\ result = "none"
      /\ Len(changes) < Len(hunks)
  BY DEF Plan, Passes, Checking
<1>4. Passes'
  BY <1>1, <1>2, <1>3 DEF Passes
<1> QED BY <1>1, <1>4

LEMMA StepPasses == TypeOK /\ Passes /\ [Next]_vars => Passes'
<1> SUFFICES ASSUME TypeOK, Passes, [Next]_vars PROVE Passes'
  OBVIOUS
<1>1. ASSUME NEW patch \in Patches, Begin(patch) PROVE Passes'
  <2>1. Len(hunks') > 0
    <3>1. PICK n \in 1 .. MaxHunks : patch \in [1 .. n -> Hunk]
      BY <1>1 DEF Patches
    <3>2. patch \in Seq(Hunk) /\ Len(patch) = n
      BY <3>1, MaxHunksAssumption, SeqDef, LenProperties
    <3> QED BY <1>1, <3>2, MaxHunksAssumption DEF Begin
  <2>2. Len(changes') = 0 /\ written' = 0 /\ result' = "none" /\ phase' = "checking"
    BY <1>1 DEF Begin, Passes
  <2> QED BY <2>1, <2>2 DEF Passes
<1>2. CASE CheckAdd \/ CheckDelete \/ CheckUpdate
  BY <1>2, Checks, Planned
<1>3. CASE Refuse
  BY <1>3 DEF Refuse, Over, Passes, Checking
<1>4. CASE Write
  <2>1. Len(changes') = Len(changes) /\ Len(hunks') = Len(hunks) /\ written' = written + 1
    BY <1>4 DEF Write
  <2>2. written \in Nat /\ Len(changes) \in Nat /\ written < Len(changes) /\ Len(changes) = Len(hunks)
    BY <1>4, LenProperties DEF Write, Writing, TypeOK, Passes
  <2>3. CASE written + 1 = Len(changes)
    BY <1>4, <2>1, <2>2, <2>3 DEF Write, Over, Passes
  <2>4. CASE written + 1 # Len(changes)
    BY <1>4, <2>1, <2>2, <2>4 DEF Write, Writing, Passes
  <2> QED BY <2>3, <2>4
<1>5. CASE WriteRaises \/ OsError
  BY <1>5 DEF WriteRaises, OsError, Over, Passes
<1>6. ASSUME NEW p \in Paths, NEW file \in {NoFile} \cup Contents, OthersWrite(p, file) PROVE Passes'
  BY <1>6 DEF OthersWrite, Passes
<1>7. CASE UNCHANGED vars
  BY <1>7 DEF vars, Passes
<1> QED BY <1>1, <1>2, <1>3, <1>4, <1>5, <1>6, <1>7 DEF Next

-----------------------------------------------------------------------------
(* The first pass.                                                         *)

LEMMA StepReads == TypeOK /\ Passes /\ FirstPassOnlyReads /\ [Next]_vars => FirstPassOnlyReads'
<1> SUFFICES ASSUME TypeOK, Passes, FirstPassOnlyReads, [Next]_vars PROVE FirstPassOnlyReads'
  OBVIOUS
<1>1. ASSUME NEW patch \in Patches, Begin(patch) PROVE FirstPassOnlyReads'
  BY <1>1 DEF Begin, FirstPassOnlyReads
<1>2. CASE CheckAdd \/ CheckDelete \/ CheckUpdate
  BY <1>2 DEF CheckAdd, CheckDelete, CheckUpdate, Plan, Checking, FirstPassOnlyReads
<1>3. CASE Refuse
  BY <1>3 DEF Refuse, Checking, FirstPassOnlyReads
<1>4. CASE Write \/ WriteRaises
  BY <1>4 DEF Write, Writing, WriteRaises, Over, Passes, FirstPassOnlyReads
<1>5. CASE OsError
  BY <1>5 DEF OsError, Over, FirstPassOnlyReads
<1>6. ASSUME NEW p \in Paths, NEW file \in {NoFile} \cup Contents, OthersWrite(p, file)
      PROVE  FirstPassOnlyReads'
  BY <1>6 DEF OthersWrite, FirstPassOnlyReads, TypeOK
<1>7. CASE UNCHANGED vars
  BY <1>7 DEF vars, FirstPassOnlyReads
<1> QED BY <1>1, <1>2, <1>3, <1>4, <1>5, <1>6, <1>7 DEF Next

\* One more change, computed from the disk as it still is.
LEMMA PlanForeseen ==
  ASSUME TypeOK, Passes, ChangesForeseen, Checking, NEW change \in Change, Plan(change),
         touched = {} => Foreseen(change, Hunk1)
  PROVE  ChangesForeseen'
<1> SUFFICES ASSUME touched' = {}, NEW k \in 1 .. Len(changes')
             PROVE  Foreseen(changes[k], hunks[k])'
  BY DEF ChangesForeseen
<1>1. touched = {} /\ hunks' = hunks /\ before' = before
  BY DEF Plan
<1>2. /\ Len(changes') = Len(changes) + 1 /\ changes'[Len(changes) + 1] = change
      /\ \A j \in 1 .. Len(changes) : changes'[j] = changes[j]
      /\ Len(changes) \in Nat
  BY Planned, LenProperties DEF TypeOK
<1>3. CASE k = Len(changes) + 1
  BY <1>1, <1>2, <1>3 DEF Foreseen, Hunk1
<1>4. CASE k \in 1 .. Len(changes)
  BY <1>1, <1>2, <1>4 DEF ChangesForeseen, Foreseen
<1> QED BY <1>2, <1>3, <1>4

LEMMA StepForeseen ==
  TypeOK /\ Passes /\ FirstPassOnlyReads /\ ChangesForeseen /\ [Next]_vars => ChangesForeseen'
<1> SUFFICES ASSUME TypeOK, Passes, FirstPassOnlyReads, ChangesForeseen, [Next]_vars
             PROVE  ChangesForeseen'
  OBVIOUS
<1>1. ASSUME NEW patch \in Patches, Begin(patch) PROVE ChangesForeseen'
  BY <1>1 DEF Begin, Passes, ChangesForeseen
<1>2. CASE CheckAdd \/ CheckDelete \/ CheckUpdate
  <2>1. PICK change \in Change :
          /\ Plan(change) /\ Checking
          /\ disk[Hunk1.path] = before[Hunk1.path] => Foreseen(change, Hunk1)
    BY <1>2, Checks
  <2>2. touched = {} => disk[Hunk1.path] = before[Hunk1.path]
    BY <2>1, Hunk1Typed, HunkTyped DEF FirstPassOnlyReads, Checking
  <2> QED BY <2>1, <2>2, PlanForeseen
<1>3. CASE Refuse \/ Write \/ WriteRaises
  BY <1>3 DEF Refuse, Write, WriteRaises, ChangesForeseen, Foreseen
<1>4. CASE OsError
  BY <1>4 DEF OsError, ChangesForeseen, Foreseen
<1>5. ASSUME NEW p \in Paths, NEW file \in {NoFile} \cup Contents, OthersWrite(p, file)
      PROVE  ChangesForeseen'
  BY <1>5 DEF OthersWrite, ChangesForeseen
<1>6. CASE UNCHANGED vars
  BY <1>6 DEF vars, ChangesForeseen, Foreseen
<1> QED BY <1>1, <1>2, <1>3, <1>4, <1>5, <1>6 DEF Next

-----------------------------------------------------------------------------
(* The second pass.                                                        *)

LEMMA NamedOnDisk ==
  ASSUME TypeOK, NEW k \in 1 .. Len(hunks)
  PROVE  /\ hunks[k] \in Hunk /\ hunks[k].path \in Paths /\ Dest(hunks[k]) \in Paths
         /\ Named(hunks[k]) = {hunks[k].path, Dest(hunks[k])}
         /\ Named(hunks[k]) \subseteq NamedPaths
<1>1. hunks[k] \in Hunk /\ k \in DOMAIN hunks
  BY ElementOfSeq, LenProperties DEF TypeOK
<1> QED BY <1>1, HunkTyped DEF NamedPaths

\* The change that is written next: its hunk, and the files it is about, which
\* are as they were when it was foreseen.
LEMMA Change1Foreseen ==
  ASSUME TypeOK, Passes, ChangesForeseen, SecondPassInOrder, Undisturbed, Writing
  PROVE  /\ written + 1 \in 1 .. Len(hunks)
         /\ Foreseen(Change1, hunks[written + 1])
         /\ \A p \in Named(hunks[written + 1]) : disk[p] = before[p]
<1>1. written + 1 \in 1 .. Len(changes) /\ Len(changes) = Len(hunks) /\ written + 1 > written
  BY LenProperties DEF TypeOK, Writing, Passes
<1> QED BY <1>1 DEF Undisturbed, ChangesForeseen, SecondPassInOrder, Writing, Change1

LEMMA WriteInOrder ==
  ASSUME TypeOK, Passes, ChangesForeseen, SecondPassInOrder, Write
  PROVE  SecondPassInOrder'
<1> SUFFICES ASSUME Undisturbed' PROVE SecondPassInOrder'
  BY DEF SecondPassInOrder
<1> DEFINE hunk == hunks[written + 1]
<1>1. /\ Undisturbed /\ Writing /\ hunks' = hunks /\ before' = before /\ NamedPaths' = NamedPaths
      /\ disk' = Effect(Change1, disk) /\ written' = written + 1 /\ written \in Nat
  BY LenProperties DEF Write, Writing, Undisturbed, Separate, NamedPaths, TypeOK
<1>2. written + 1 \in 1 .. Len(hunks) /\ Foreseen(Change1, hunk)
  BY <1>1, Change1Foreseen
<1>3. /\ hunk.path \in Paths /\ Dest(hunk) \in Paths
      /\ Named(hunk) = {hunk.path, Dest(hunk)} /\ Named(hunk) \subseteq NamedPaths
  BY <1>2, NamedOnDisk
<1>4. \A p \in Paths \ Named(hunk) : disk'[p] = disk[p]
  BY <1>1, <1>2, <1>3 DEF Effect, Foreseen
<1>5. ASSUME NEW k \in 1 .. Len(hunks), k # written + 1
      PROVE  Named(hunks[k]) \subseteq Paths \ Named(hunk)
  <2>1. Named(hunks[k]) \cap Named(hunk) = {}
    BY <1>1, <1>2, <1>5, LenProperties DEF Undisturbed, Separate, TypeOK
  <2> QED BY <1>5, <2>1, NamedOnDisk
<1>6. ASSUME NEW k \in 1 .. Len(hunks), k <= written + 1 PROVE Done(hunks[k])'
  <2>1. CASE k = written + 1
    BY <1>1, <1>2, <1>3, <2>1 DEF Done, Effect, Foreseen
  <2>2. CASE k # written + 1
    <3>1. Done(hunks[k])
      BY <1>1, <1>6, <2>2 DEF SecondPassInOrder, Writing
    <3>2. hunks[k].path \in Paths \ Named(hunk) /\ Dest(hunks[k]) \in Paths \ Named(hunk)
      BY <1>5, <2>2, NamedOnDisk
    <3> QED BY <1>1, <1>4, <3>1, <3>2 DEF Done
  <2> QED BY <2>1, <2>2
<1>7. ASSUME NEW k \in 1 .. Len(hunks), k > written + 1, NEW p \in Named(hunks[k])
      PROVE  disk'[p] = before[p]
  <2>1. k # written + 1 /\ k > written
    BY <1>1, <1>7
  <2>2. disk[p] = before[p]
    BY <1>1, <1>7, <2>1 DEF SecondPassInOrder, Writing
  <2> QED BY <1>4, <1>5, <1>7, <2>1, <2>2
<1>8. ASSUME NEW p \in Paths \ NamedPaths PROVE disk'[p] = before[p]
  BY <1>1, <1>3, <1>4, <1>8 DEF SecondPassInOrder, Writing
<1> QED BY <1>1, <1>6, <1>7, <1>8 DEF SecondPassInOrder

LEMMA StepInOrder ==
  /\ TypeOK /\ Passes /\ FirstPassOnlyReads /\ ChangesForeseen /\ SecondPassInOrder
  /\ [Next]_vars
  => SecondPassInOrder'
<1> SUFFICES ASSUME TypeOK, Passes, FirstPassOnlyReads, ChangesForeseen, SecondPassInOrder,
                    [Next]_vars
             PROVE  SecondPassInOrder'
  OBVIOUS
<1>1. ASSUME NEW patch \in Patches, Begin(patch) PROVE SecondPassInOrder'
  BY <1>1 DEF Begin, Passes, SecondPassInOrder
<1>2. CASE CheckAdd \/ CheckDelete \/ CheckUpdate
  <2>1. /\ Checking /\ disk' = disk /\ before' = before /\ hunks' = hunks /\ written' = 0
        /\ touched' = touched /\ result' = "none"
    BY <1>2, Checks DEF Plan, Checking, Passes
  <2>2. touched = {} => \A p \in Paths : disk[p] = before[p]
    BY <2>1 DEF FirstPassOnlyReads, Checking
  <2>3. \A k \in 1 .. Len(hunks) : Named(hunks[k]) \subseteq Paths
    BY NamedOnDisk
  <2> QED BY <2>1, <2>2, <2>3 DEF SecondPassInOrder, Undisturbed, Separate, NamedPaths
<1>3. CASE Write
  BY <1>3, WriteInOrder
<1>4. CASE Refuse \/ WriteRaises
  BY <1>4 DEF Refuse, WriteRaises, Over, SecondPassInOrder
<1>5. CASE OsError
  BY <1>5 DEF OsError, Over, SecondPassInOrder
<1>6. ASSUME NEW p \in Paths, NEW file \in {NoFile} \cup Contents, OthersWrite(p, file)
      PROVE  SecondPassInOrder'
  BY <1>6 DEF OthersWrite, SecondPassInOrder, Undisturbed
<1>7. CASE UNCHANGED vars
  BY <1>7 DEF vars, SecondPassInOrder, Undisturbed, Separate, Done, NamedPaths
<1> QED BY <1>1, <1>2, <1>3, <1>4, <1>5, <1>6, <1>7 DEF Next

LEMMA StepRaises ==
  /\ TypeOK /\ Passes /\ ChangesForeseen /\ SecondPassInOrder /\ RaisesOnlyOnConflict
  /\ [Next]_vars
  => RaisesOnlyOnConflict'
<1> SUFFICES ASSUME TypeOK, Passes, ChangesForeseen, SecondPassInOrder, RaisesOnlyOnConflict,
                    [Next]_vars
             PROVE  RaisesOnlyOnConflict'
  OBVIOUS
<1>1. ASSUME NEW patch \in Patches, Begin(patch) PROVE RaisesOnlyOnConflict'
  BY <1>1 DEF Begin, Passes, RaisesOnlyOnConflict
<1>2. CASE CheckAdd \/ CheckDelete \/ CheckUpdate
  BY <1>2, Checks DEF Plan, Checking, Passes, RaisesOnlyOnConflict
<1>3. CASE Refuse \/ Write
  BY <1>3 DEF Refuse, Write, Writing, Over, Passes, RaisesOnlyOnConflict
<1>4. CASE WriteRaises
  <2> SUFFICES ASSUME Undisturbed PROVE FALSE
    BY <1>4 DEF WriteRaises, RaisesOnlyOnConflict, Undisturbed, Separate
  <2>1. Writing /\ Unlinks(Change1) /\ disk[Change1.path] = NoFile
    BY <1>4 DEF WriteRaises
  <2>2. /\ written + 1 \in 1 .. Len(hunks) /\ Foreseen(Change1, hunks[written + 1])
        /\ \A p \in Named(hunks[written + 1]) : disk[p] = before[p]
    BY <2>1, Change1Foreseen
  <2>3. hunks[written + 1].path \in Named(hunks[written + 1])
    BY DEF Named
  <2> QED BY <2>1, <2>2, <2>3 DEF Foreseen
<1>5. CASE OsError
  BY <1>5 DEF OsError, Over, RaisesOnlyOnConflict
<1>6. ASSUME NEW p \in Paths, NEW file \in {NoFile} \cup Contents, OthersWrite(p, file)
      PROVE  RaisesOnlyOnConflict'
  BY <1>6 DEF OthersWrite, RaisesOnlyOnConflict
<1>7. CASE UNCHANGED vars
  BY <1>7 DEF vars, RaisesOnlyOnConflict, Separate
<1> QED BY <1>1, <1>2, <1>3, <1>4, <1>5, <1>6, <1>7 DEF Next

-----------------------------------------------------------------------------
(* The theorems.                                                           *)

LEMMA InitInv == Init => IndInv
<1> SUFFICES ASSUME Init PROVE IndInv
  OBVIOUS
<1>1. TypeOK
  BY InitTyped
<1>2. Len(changes) = 0
  BY EmptySeq DEF Init
<1> QED BY <1>1, <1>2 DEF Init, IndInv, Passes, FirstPassOnlyReads, ChangesForeseen, SecondPassInOrder,
                          RaisesOnlyOnConflict

\* The invariant the others follow from holds in every state.
THEOREM Inductive == Spec => []IndInv
<1>1. IndInv /\ [Next]_vars => IndInv'
  BY StepTyped, StepPasses, StepReads, StepForeseen, StepInOrder, StepRaises DEF IndInv
<1> QED BY <1>1, InitInv, PTL DEF Spec

\* Whatever the patch, the files and the others do, the state keeps its type.
THEOREM TypeCorrect == Spec => []TypeOK
<1>1. IndInv => TypeOK
  BY DEF IndInv
<1> QED BY <1>1, Inductive, PTL

\* A patch that is refused has written nothing: pass 1 only reads.
THEOREM Refusal == Spec => []RefusedLeavesDisk
<1>1. IndInv => RefusedLeavesDisk
  BY DEF IndInv, FirstPassOnlyReads, RefusedLeavesDisk
<1> QED BY <1>1, Inductive, PTL

\* A patch reported as applied has done all it says, and nothing else.
THEOREM Applied == Spec => []AppliedInFull
<1>1. IndInv => AppliedInFull
  <2> SUFFICES ASSUME IndInv, result = "applied", touched = {}, Separate PROVE AppliedInFull
    BY DEF AppliedInFull
  <2>1. /\ written = Len(hunks) /\ DOMAIN hunks = 1 .. Len(hunks)
        /\ \A k \in 1 .. Len(hunks) : k <= written
    BY LenProperties DEF IndInv, Passes, TypeOK
  <2> QED BY <2>1 DEF IndInv, SecondPassInOrder, Undisturbed, Done, AppliedInFull
<1> QED BY <1>1, Inductive, PTL

\* unlink() raises only if two hunks name one file or another process interferes.
THEOREM Raises == Spec => []RaisesOnlyOnConflict
<1>1. IndInv => RaisesOnlyOnConflict
  BY DEF IndInv
<1> QED BY <1>1, Inductive, PTL
=============================================================================
