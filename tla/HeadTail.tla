------------------------------ MODULE HeadTail ------------------------------
(***************************************************************************)
(* HeadTailBuffer (s06): the beginning and the end of an output, with a    *)
(* bound on each, and a count of what was dropped between them.  The end   *)
(* is kept in the pieces in which it came.                                 *)
(***************************************************************************)
EXTENDS Integers, Sequences, SequencesExt, FiniteSetsExt

CONSTANT MaxChars  \* max_chars

ASSUME MaxCharsAssumption == MaxChars \in Nat

Half == MaxChars \div 2

EmptyBuffer == [head |-> <<>>, tail |-> <<>>, dropped |-> 0]

Size(pieces) == Len(FlattenSeq(pieces))

\* How many pieces the loop of append() pops: as few as bring the rest within Half.
Oldest(pieces) ==
  CHOOSE n \in 0 .. Len(pieces) :
    /\ Size(SubSeq(pieces, n + 1, Len(pieces))) <= Half
    /\ \A m \in 0 .. n - 1 : Size(SubSeq(pieces, m + 1, Len(pieces))) > Half

\* append(text): fill the head, put the rest behind the tail, pop what is too old.
Appended(buffer, text) ==
  LET take   == Min({Len(text), Half - Len(buffer.head)})
      pieces == Append(buffer.tail, SubSeq(text, take + 1, Len(text)))
      n      == Oldest(pieces) IN
  IF take = Len(text)
  THEN [buffer EXCEPT !.head = @ \o text]
  ELSE [head    |-> buffer.head \o SubSeq(text, 1, take),
        tail    |-> SubSeq(pieces, n + 1, Len(pieces)),
        dropped |-> buffer.dropped + Size(SubSeq(pieces, 1, n))]

\* What render() shows of the text, and how much went through the buffer.
Kept(buffer)  == buffer.head \o FlattenSeq(buffer.tail)
Total(buffer) == Len(Kept(buffer)) + buffer.dropped
=============================================================================
