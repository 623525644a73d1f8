------------------------- MODULE RolloutProperties -------------------------
(* What is claimed of Rollout.tla.                                          *)
EXTENDS Rollout, SequencesExt

\* What a reader gets of the file now, if it does not raise.
Read == ReadRollout(file)
Readable == ~ReadRaises(file)

\* What may be found on disk: the session's lines, and the beginnings of forks.
OnDisk(lines) ==
  {lines} \cup UNION {Prefixes(ForkLines(lines, keep)) : keep \in 0 .. MaxTurns}

Failed == \E i \in DOMAIN log : ~log[i].ok

\* The lines of the session's calls of _append, with how they ended.
Appended == [i \in DOMAIN log |-> log[i].line]

\* The lines of these turns, and how many are of a kind.
Of(lines, turns)    == Selected(lines, { i \in DOMAIN lines : lines[i].turn \in turns })
Number(kind, lines) == Len(Only(lines, {kind}))

\* A session is read back from its file line by line: in order, nothing twice,
\* nothing that was not appended, and nothing that was appended left out,
\* except a line whose append failed and the one that was appended next, which
\* has come into the same row.  A process that ends takes the line with it that
\* it was writing.  (Half a character makes the reader raise, and moves no row.)
AppendedLinesAreRead ==
  LET rows == Rows(file) \ {1} IN
  /\ 1 \in Rows(file) /\ file[1] = Meta
  /\ \A i, j \in rows : i < j => file[i].n < file[j].n
  /\ \A i \in rows : file[i] \in Range(Appended) \cup Range(doing)
  /\ \A i \in DOMAIN log : log[i].ok /\ (i = 1 \/ log[i - 1].ok) =>
       \E j \in rows : file[j] = log[i].line

\* While no append has failed and no compaction has been made, resume() gives
\* back the session's history: without what the session started with and items
\* of types it does not know, and without the item that was being recorded when
\* the process ended.
ReplayIsHistory ==
  LET replay == ResponseItems(Read)
      known  == ResponseItems(Tail(history))
  IN Readable /\ ~Failed /\ ~compacted =>
       IsPrefix(replay, known) /\ Len(known) - Len(replay) <= Len(doing)

\* If a turn's task_complete is in a file, be it the session's or a fork's,
\* whole or not, then everything is that the turn recorded for the model, with
\* an output for each of its calls: also if appends have failed.
CompleteTurnsReplayWhole == Readable =>
  \A lines \in OnDisk(Read) : \A i \in DOMAIN lines : lines[i].kind = "complete" =>
    LET turnNo == lines[i].turn
        replay == Of(ResponseItems(lines), {turnNo})
    IN /\ replay = Of(ResponseItems(Appended), {turnNo})
       /\ Number("call", replay) = Number("output", replay)

\* While no append has failed, a fork made now replays exactly the first turns
\* of the session so far, has that many turns and one session_meta, its own;
\* and fewer turns of a fork are what as many of the session are.
ForksKeepFirstTurns ==
  LET lines == Read IN
  Readable /\ ~Failed => \A keep \in 0 .. MaxTurns :
    LET fork == ForkLines(lines, keep) IN
    /\ ResponseItems(fork) = Of(ResponseItems(lines), 0 .. keep)
    /\ Number("started", fork) = Min({keep, Number("started", lines)})
    /\ Number("meta", fork) = 1
    /\ \A again \in 0 .. keep : ForkLines(fork, again) = ForkLines(lines, again)
=============================================================================
