---------------------------- MODULE RolloutFile ----------------------------
(***************************************************************************)
(* A rollout file (s10) as its readers find it: a sequence of tokens, each *)
(* a whole line of JSON, the end of a line, or what a write that did not   *)
(* come to its end has left.  A line that follows such a rest directly is  *)
(* in the same row of the file, and is lost with it.                       *)
(***************************************************************************)
EXTENDS Integers, Sequences, Selection

Items   == {"user", "assistant", "call", "output"}
Endings == {"complete", "aborted", "error"}
Kinds   == {"meta", "context", "started", "event"} \cup Items \cup Endings

\* A line, by what it records, the turn it is of and its place in the session.
\* Of a kind that is not persisted: items of other types, context_compacted.
Line(kind, turn, n) == [kind |-> kind, turn |-> turn, n |-> n]

\* The end of a line; a part of a line; a part that ends inside a character.
Newline == Line("newline", 0, 0)
Cut     == Line("cut", 0, 0)
Broken  == Line("broken", 0, 0)

\* Mutant: outputs have been forgotten in the list of types.
Persisted_NoOutputs(line) == line.kind \in Kinds \ {"output"}

\* should_persist
Persisted(line) == line.kind \in Kinds

Meta == Line("meta", 0, 0)

\* What has been written when a write of the line stops before its end.
Partial(line) == {<<>>, <<Cut>>, <<Broken>>, <<line>>}

Whole(line) == <<line, Newline>>

\* A line alone in its row.
InRow(file, i) ==
  /\ file[i].kind \in Kinds
  /\ i = 1 \/ file[i - 1] = Newline
  /\ i = Len(file) \/ file[i + 1] = Newline

\* The file is opened as UTF-8, strictly: half a character is not a row that
\* does not parse but an exception of the loop over the rows.
ReadRaises(file) == \E i \in DOMAIN file : file[i] = Broken

\* Mutant: the reader stops at the first row it cannot parse.
Rows_Stops(file) ==
  { i \in DOMAIN file : InRow(file, i) /\ \A j \in 1 .. i : file[j] = Newline \/ InRow(file, j) }

\* Where the rows are that parse; read_rollout passes over the others.
Rows(file) == { i \in DOMAIN file : InRow(file, i) }

\* read_rollout: the lines of these rows, in their order.
ReadRollout(file) == Selected(file, Rows(file))

\* Where the lines of these kinds are, and these lines alone.
KindAt(lines, kinds) == { i \in DOMAIN lines : lines[i].kind \in kinds }
Only(lines, kinds)   == Selected(lines, KindAt(lines, kinds))

\* Rollout.response_items, which is what resume() replays.
ResponseItems(lines) == Only(lines, Items)

\* Where the turns start.
Starts(lines) == Selected([i \in DOMAIN lines |-> i], KindAt(lines, {"started"}))

\* Mutant: one turn too few.
ForkEnd_Early(lines, keep) ==
  LET starts == Starts(lines) IN
  IF keep > 0 /\ Len(starts) >= keep THEN starts[keep] - 1 ELSE Len(lines)

\* fork() breaks off at the first task_started that is one too many.
ForkEnd(lines, keep) ==
  LET starts == Starts(lines) IN
  IF Len(starts) > keep THEN starts[keep + 1] - 1 ELSE Len(lines)

\* The lines of the new file: a session_meta of its own, and the copied ones.
ForkLines(lines, keep) ==
  <<Meta>> \o Only(SubSeq(lines, 1, ForkEnd(lines, keep)), Kinds \ {"meta"})
=============================================================================
