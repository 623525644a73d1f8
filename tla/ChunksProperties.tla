-------------------------- MODULE ChunksProperties --------------------------
(***************************************************************************)
(* What _apply_chunks must achieve, said without a cursor: the chunks      *)
(* replace stretches of the file that lie one after the other.  The        *)
(* behaviours feed the algorithm one more chunk at a time.                 *)
(***************************************************************************)
EXTENDS Chunks

CONSTANTS
  Contents,   \* the files to start from
  Candidates, \* the chunks a patch may contain
  MaxChunks   \* bound on the chunks of a patch

\* What the theorems assume of them.
UpdateChunk == [context : Line \cup {NoContext}, old : Seq(Line), new : Seq(Line), eof : BOOLEAN]

PatchesTyped ==
  /\ Contents # {} /\ Contents \subseteq [lines : Seq(Line), newline : BOOLEAN]
  /\ Candidates \subseteq UpdateChunk

VARIABLES content, chunks
vars == <<content, chunks>>

Init == content \in Contents /\ chunks = <<>>

AddChunk(chunk) ==
  /\ Len(chunks) < MaxChunks
  /\ chunks' = Append(chunks, chunk)
  /\ UNCHANGED content

Next == \E chunk \in Candidates : AddChunk(chunk)

Spec == Init /\ [][Next]_vars

-----------------------------------------------------------------------------
\* places[k] is a position of chunk k's old lines, at or after the end of those
\* of the chunk before it and, if it has a context, after a line like that.
Placement(places, looseness) ==
  LET end(k) == IF k = 0 THEN 0 ELSE places[k] + Len(chunks[k].old)
      lines  == content.lines IN
  \A k \in DOMAIN chunks :
    /\ end(k - 1) <= places[k] /\ end(k) <= Len(lines)
    /\ MatchesAt(lines, chunks[k].old, places[k], looseness)
    /\ chunks[k].context # NoContext =>
         \E i \in end(k - 1) .. places[k] - 1 : MatchesAt(lines, <<chunks[k].context>>, i, looseness)

Placements == [DOMAIN chunks -> 0 .. Len(content.lines)]

\* The file with every stretch replaced: a line kept, or the new lines where a
\* stretch starts.
Replaced(places) ==
  LET lines == content.lines
      Old   == { i \in 1 .. Len(lines) : \E k \in DOMAIN chunks :
                   i \in places[k] + 1 .. places[k] + Len(chunks[k].old) }
      News(i) == LET Here(new, k) == IF places[k] = i THEN new \o chunks[k].new ELSE new IN
                 FoldLeft(Here, <<>>, [k \in DOMAIN chunks |-> k])
      Kept(i) == IF i \in 1 .. Len(lines) /\ i \notin Old THEN <<lines[i]>> ELSE <<>> IN
  FlattenSeq([i \in 1 .. Len(lines) + 1 |-> News(i - 1) \o Kept(i)])

\* Only a chunk whose search starts at the top claims to be at the end of the
\* file: seek_sequence forgets where the search starts when it looks there.
NoLateAnchor == \A k \in DOMAIN chunks : chunks[k].eof => k = 1 /\ chunks[k].context = NoContext

\* What comes out is the file with stretches like the old lines replaced, in
\* order and without overlap, and nothing else changed: the cursor never loses
\* or repeats a line.  (A chunk anchored at the end, after another, may overlap it.)
EditsInOrder ==
  NoLateAnchor => LET result == ApplyChunks(content, chunks) IN
    \/ result = Unmatched
    \/ \E places \in Placements :
         /\ Placement(places, 2)
         /\ result = Joined(Replaced(places), content.newline)

\* If the patch fits somewhere as it is written, it is not refused: taking the
\* first place for a chunk never spoils a later one.
ExactPatchApplies ==
  (\A k \in DOMAIN chunks : ~chunks[k].eof) /\ (\E places \in Placements : Placement(places, 0))
    => ApplyChunks(content, chunks) # Unmatched
=============================================================================
