------------------------------- MODULE Chunks -------------------------------
(***************************************************************************)
(* How an update hunk is located in a file and applied (s05): seek_sequence *)
(* and _apply_chunks.  Positions count from 0, as in the code.             *)
(*                                                                         *)
(* A line is what the three comparisons tell apart: its text without the   *)
(* white space at both ends, and whether there is any at either end.       *)
(***************************************************************************)
EXTENDS Integers, Sequences, SequencesExt, FiniteSetsExt

CONSTANTS
  Texts,  \* texts of lines, white space at the ends removed
  Blank   \* the empty one

ASSUME BlankAssumption == Blank \in Texts

Line == [lead : BOOLEAN, text : Texts, trail : BOOLEAN]
Bare(text) == [lead |-> FALSE, text |-> text, trail |-> FALSE]

\* str.rstrip and str.strip.
Rstrip(line) == IF line.text = Blank THEN Bare(Blank) ELSE [line EXCEPT !.trail = FALSE]
Strip(line)  == Bare(line.text)

\* The comparisons, in the order in which they are tried.
Normalize(looseness, line) ==
  CASE looseness = 0 -> line
    [] looseness = 1 -> Rstrip(line)
    [] looseness = 2 -> Strip(line)

MatchesAt(lines, pattern, i, looseness) ==
  \A k \in 1 .. Len(pattern) :
    Normalize(looseness, lines[i + k]) = Normalize(looseness, pattern[k])

NotFound == -1

\* Mutant: the last position is left out.
Hits_ShortRange(lines, pattern, from) ==
  { hit \in (0 .. 2) \X (from .. Len(lines) - Len(pattern) - 1) :
      MatchesAt(lines, pattern, hit[2], hit[1]) }

\* The pairs <<looseness, position>> that match, from position `from' on.
Hits(lines, pattern, from) ==
  { hit \in (0 .. 2) \X (from .. Len(lines) - Len(pattern)) :
      MatchesAt(lines, pattern, hit[2], hit[1]) }

\* The tightest comparison decides, then the position.
First(hits) ==
  LET tightest == Min({ hit[1] : hit \in hits }) IN
  Min({ hit[2] : hit \in { h \in hits : h[1] = tightest } })

\* seek_sequence: with eof, the end of the file is tried before anything else.
Seek(lines, pattern, start, eof) ==
  LET last == Len(lines) - Len(pattern) IN
  CASE pattern = <<>>                             -> start
    [] pattern # <<>> /\ last < 0                 -> NotFound
    [] pattern # <<>> /\ last >= 0 /\ eof /\ Hits(lines, pattern, last) # {} -> last
    [] OTHER ->
         LET hits == Hits(lines, pattern, start) IN
         IF hits = {} THEN NotFound ELSE First(hits)

-----------------------------------------------------------------------------
\* An UpdateChunk: the line that narrows the search, or NoContext, the lines to
\* replace and their replacement, and whether they end the file.
Chunk(context, old, new, eof) == [context |-> context, old |-> old, new |-> new, eof |-> eof]

NoContext == [context |-> FALSE]
Unmatched == [matched |-> FALSE]

\* Where the search for a chunk's old lines starts: after its context, if any.
SearchFrom(lines, cursor, chunk) ==
  IF chunk.context = NoContext THEN cursor
  ELSE LET found == Seek(lines, <<chunk.context>>, cursor, FALSE) IN
       IF found = NotFound THEN NotFound ELSE found + 1

\* Mutant: the cursor moves by the new lines.
Advance_New(at, chunk) == at + Len(chunk.new)

\* The first line after the replaced ones.
Advance(at, chunk) == at + Len(chunk.old)

\* One round of the loop of _apply_chunks.  progress: the cursor into the old
\* lines and the result so far, or Unmatched.
Step(lines, progress, chunk) ==
  LET from == SearchFrom(lines, progress.cursor, chunk)
      at   == Seek(lines, chunk.old, from, chunk.eof) IN
  IF from = NotFound \/ at = NotFound THEN Unmatched
  ELSE [cursor |-> Advance(at, chunk),
        result |-> progress.result \o SubSeq(lines, progress.cursor + 1, at) \o chunk.new]

\* The loop: the progress after all the chunks.
Progress(lines, chunks) ==
  LET after[n \in 0 .. Len(chunks)] ==
        IF n = 0 THEN [cursor |-> 0, result |-> <<>>]
        ELSE IF after[n - 1] = Unmatched THEN Unmatched ELSE Step(lines, after[n - 1], chunks[n])
  IN  after[Len(chunks)]

\* A file's content: its lines, and whether the last one ends in a newline.
\* An empty file is one empty line.
Text(lines, newline) == [lines |-> lines, newline |-> newline]

\* "\n".join(result), and the newline if there was one: without it, an empty
\* last line reads back as the newline of the line before.
Joined(lines, newline) ==
  CASE lines = <<>> -> Text(<<Bare(Blank)>>, newline)
    [] Len(lines) > 1 /\ ~newline /\ Last(lines) = Bare(Blank) -> Text(Front(lines), TRUE)
    [] OTHER -> Text(lines, newline)

\* _apply_chunks.
ApplyChunks(content, chunks) ==
  LET lines == content.lines
      end   == Progress(lines, chunks) IN
  IF end = Unmatched THEN Unmatched
  ELSE Joined(end.result \o SubSeq(lines, end.cursor + 1, Len(lines)), content.newline)
=============================================================================
