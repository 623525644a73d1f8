--------------------------- MODULE LibraryProofs ---------------------------
(* Three libraries.  That a patch which fits as it is written is not refused  *)
(* (s05), that the verdict of a line is its strictest and "always allow this" *)
(* allows no more than that (s09), and that a call meets the fate its hooks   *)
(* gave it (s14).                                                             *)
EXTENDS Libraries, SequenceLemmas

-----------------------------------------------------------------------------
(* Where seek_sequence looks.                                              *)

\* Of a set of positions that is not empty, Min is one, and the least.
LEMMA MinIsLeast ==
  ASSUME NEW S \in SUBSET Nat, S # {}
  PROVE  Min(S) \in S /\ \A y \in S : Min(S) <= y
  BY Least DEF Min

LEMMA HitsTyped ==
  ASSUME NEW lines \in Seq(Line), NEW pattern \in Seq(Line), NEW from \in Nat
  PROVE  \A hit \in Hits(lines, pattern, from) :
           /\ hit[1] \in 0 .. 2 /\ hit[2] \in Nat /\ from <= hit[2] /\ hit[2] + Len(pattern) <= Len(lines)
           /\ hit = <<hit[1], hit[2]>>
<1>1. Len(lines) \in Nat /\ Len(pattern) \in Nat
  BY LenProperties
<1> QED BY <1>1 DEF Hits

\* The first hit is one, and no later than any that is exact.
LEMMA FirstIsHit ==
  ASSUME NEW lines \in Seq(Line), NEW pattern \in Seq(Line), NEW from \in Nat,
         Hits(lines, pattern, from) # {}
  PROVE  LET first == First(Hits(lines, pattern, from))
         IN  /\ first \in Nat /\ from <= first /\ first + Len(pattern) <= Len(lines)
             /\ \A place \in Nat : <<0, place>> \in Hits(lines, pattern, from) => first <= place
<1>1. PICK hits : hits = Hits(lines, pattern, from)
  OBVIOUS
<1>2. \A hit \in hits : /\ hit[1] \in Nat /\ hit[2] \in Nat /\ from <= hit[2] /\ hit[2] + Len(pattern) <= Len(lines)
  BY <1>1, HitsTyped
<1>a. PICK degrees : degrees = { hit[1] : hit \in hits }
  OBVIOUS
<1>b. degrees \in SUBSET Nat /\ degrees # {}
  BY <1>1, <1>2, <1>a
<1>3. PICK tightest : tightest = Min(degrees)
  OBVIOUS
<1>4. tightest \in degrees /\ \A degree \in degrees : tightest <= degree
  BY <1>3, <1>b, MinIsLeast
<1>5. PICK places : places = { hit[2] : hit \in { h \in hits : h[1] = tightest } }
  OBVIOUS
<1>6. places \in SUBSET Nat /\ places # {}
  BY <1>2, <1>4, <1>5, <1>a
<1>7. PICK first : first = First(hits)
  OBVIOUS
<1>8. first \in places /\ \A place \in places : first <= place
  BY <1>3, <1>5, <1>6, <1>7, <1>a, MinIsLeast DEF First
<1>9. ASSUME NEW place \in Nat, <<0, place>> \in hits PROVE first <= place
  <2>1. tightest = 0
    <3>1. 0 \in degrees
      BY <1>9, <1>a
    <3> QED BY <1>4, <1>b, <3>1
  <2>2. place \in places
    BY <1>5, <1>9, <2>1
  <2> QED BY <1>8, <2>2
<1>10. PICK hit \in hits : first = hit[2]
  BY <1>5, <1>8
<1> QED BY <1>1, <1>2, <1>7, <1>9, <1>10

\* What is found lies in the file.
LEMMA SeekTyped ==
  ASSUME NEW lines \in Seq(Line), NEW pattern \in Seq(Line), NEW start \in 0 .. Len(lines), NEW eof \in BOOLEAN
  PROVE  LET found == Seek(lines, pattern, start, eof)
         IN  found = NotFound \/ (found \in Nat /\ found + Len(pattern) <= Len(lines))
<1>1. /\ Len(lines) \in Nat /\ Len(pattern) \in Nat /\ start \in Nat /\ start <= Len(lines)
      /\ pattern = <<>> => Len(pattern) = 0
  BY LenProperties, EmptySeq
<1>2. CASE pattern = <<>>
  BY <1>1, <1>2 DEF Seek
<1>3. CASE pattern # <<>> /\ Len(lines) - Len(pattern) < 0
  BY <1>3 DEF Seek
<1>4. CASE pattern # <<>> /\ ~(Len(lines) - Len(pattern) < 0)
  <2>1. PICK last \in Nat : last = Len(lines) - Len(pattern)
    BY <1>1, <1>4
  <2>2. last >= 0 /\ ~(last < 0) /\ last + Len(pattern) <= Len(lines)
    BY <1>1, <2>1
  <2>3. \/ Seek(lines, pattern, start, eof) = last
        \/ /\ Hits(lines, pattern, start) = {}
           /\ Seek(lines, pattern, start, eof) = NotFound
        \/ /\ Hits(lines, pattern, start) # {}
           /\ Seek(lines, pattern, start, eof) = First(Hits(lines, pattern, start))
    BY <1>4, <2>1, <2>2 DEF Seek
  <2> QED BY <1>1, <2>1, <2>2, <2>3, FirstIsHit
<1> QED BY <1>2, <1>3, <1>4

\* What fits exactly is found there or before.
LEMMA SeekFinds ==
  ASSUME NEW lines \in Seq(Line), NEW pattern \in Seq(Line), NEW start \in Nat, NEW place \in Nat,
         start <= place, place + Len(pattern) <= Len(lines), MatchesAt(lines, pattern, place, 0)
  PROVE  /\ Seek(lines, pattern, start, FALSE) \in Nat
         /\ start <= Seek(lines, pattern, start, FALSE) /\ Seek(lines, pattern, start, FALSE) <= place
<1>1. Len(lines) \in Nat /\ Len(pattern) \in Nat
  BY LenProperties
<1>2. CASE pattern = <<>>
  BY <1>2 DEF Seek
<1>3. CASE pattern # <<>>
  <2>1. ~(Len(lines) - Len(pattern) < 0) /\ Len(lines) - Len(pattern) >= 0
    BY <1>1
  <2>2. <<0, place>> \in Hits(lines, pattern, start)
    <3>1. <<0, place>> \in (0 .. 2) \X (start .. Len(lines) - Len(pattern))
      BY <1>1
    <3> QED BY <3>1 DEF Hits
  <2>3. Seek(lines, pattern, start, FALSE) = First(Hits(lines, pattern, start))
    BY <1>3, <2>1, <2>2 DEF Seek
  <2> QED BY <2>2, <2>3, FirstIsHit
<1> QED BY <1>2, <1>3
-----------------------------------------------------------------------------
(* The loop of _apply_chunks.                                              *)

\* How far the loop is in these lines.
Partial(lines) == [cursor : 0 .. Len(lines), result : Seq(Line)]

\* What a round finds: where the search starts, and the place.
LEMMA SearchTyped ==
  ASSUME NEW lines \in Seq(Line), NEW cursor \in 0 .. Len(lines), NEW chunk \in UpdateChunk
  PROVE  SearchFrom(lines, cursor, chunk) = NotFound \/ SearchFrom(lines, cursor, chunk) \in 0 .. Len(lines)
<1>1. Len(lines) \in Nat
  BY LenProperties
<1>2. CASE chunk.context = NoContext
  BY <1>2 DEF SearchFrom
<1>3. CASE chunk.context # NoContext
  <2>1. chunk.context \in Line
    BY <1>3 DEF UpdateChunk
  <2>2. PICK one : one = <<chunk.context>>
    OBVIOUS
  <2>3. one \in Seq(Line) /\ Len(one) = 1
    BY <2>1, <2>2
  <2>4. PICK found : found = Seek(lines, one, cursor, FALSE)
    OBVIOUS
  <2>5. found = NotFound \/ (found \in Nat /\ found + 1 <= Len(lines))
    BY <2>3, <2>4, SeekTyped
  <2>6. SearchFrom(lines, cursor, chunk) = IF found = NotFound THEN NotFound ELSE found + 1
    BY <1>3, <2>2, <2>4 DEF SearchFrom
  <2> QED BY <1>1, <2>5, <2>6
<1> QED BY <1>2, <1>3

LEMMA StepTyped ==
  ASSUME NEW lines \in Seq(Line), NEW progress \in Partial(lines), NEW chunk \in UpdateChunk
  PROVE  Step(lines, progress, chunk) \in Partial(lines) \cup {Unmatched}
<1>1. PICK N \in Nat : N = Len(lines)
  BY LenProperties
<1>2. /\ progress.cursor \in 0 .. N /\ progress.result \in Seq(Line)
      /\ chunk.old \in Seq(Line) /\ chunk.new \in Seq(Line) /\ chunk.eof \in BOOLEAN
  BY <1>1 DEF Partial, UpdateChunk
<1>3. PICK from, at_ : from = SearchFrom(lines, progress.cursor, chunk) /\ at_ = Seek(lines, chunk.old, from, chunk.eof)
  OBVIOUS
<1>4. CASE from = NotFound \/ at_ = NotFound
  BY <1>3, <1>4 DEF Step
<1>5. CASE ~(from = NotFound \/ at_ = NotFound)
  <2>1. from \in 0 .. N
    BY <1>1, <1>2, <1>3, <1>5, SearchTyped
  <2>2. at_ \in Nat /\ at_ + Len(chunk.old) <= N
    BY <1>1, <1>2, <1>3, <1>5, <2>1, SeekTyped
  <2>3. PICK old \in Nat : old = Len(chunk.old)
    BY <1>2, LenProperties
  <2>a. PICK c \in Nat : c = progress.cursor
    BY <1>2
  <2>4. PICK kept : kept = SubSeq(lines, progress.cursor + 1, at_) /\ c = progress.cursor
    BY <2>a
  <2>5. \A i \in c + 1 .. at_ : lines[i] \in Line
    <3>1. \A i \in c + 1 .. at_ : i \in 1 .. N
      BY <1>1, <2>2, <2>3, <2>4
    <3> QED BY <1>1, <3>1, ElementOfSeq
  <2>6. kept \in Seq(Line)
    <3>1. c + 1 \in Int /\ at_ \in Int
      BY <2>2, <2>4
    <3> QED BY <2>4, <2>5, <3>1, SubSeqProperties
  <2>7. PICK result : result = progress.result \o kept \o chunk.new
    OBVIOUS
  <2>8. result \in Seq(Line)
    BY <1>2, <2>6, <2>7, ConcatProperties
  <2>9. at_ + old \in 0 .. N
    BY <2>2, <2>3
  <2>10. Step(lines, progress, chunk) = [cursor |-> at_ + old, result |-> result]
    BY <1>3, <1>5, <2>3, <2>4, <2>7 DEF Step, Advance
  <2> QED BY <1>1, <2>8, <2>9, <2>10 DEF Partial
<1> QED BY <1>4, <1>5

\* Two records of different fields differ.
LEMMA MatchedIsNot ==
  ASSUME NEW a, NEW b
  PROVE  [cursor |-> a, result |-> b] # Unmatched /\ [lines |-> a, newline |-> b] # Unmatched
<1>1. DOMAIN [cursor |-> a, result |-> b] = {"cursor", "result"} /\ DOMAIN [lines |-> a, newline |-> b] = {"lines", "newline"}
  OBVIOUS
<1>2. DOMAIN Unmatched = {"matched"}
  BY DEF Unmatched
<1> QED BY <1>1, <1>2

\* The progress after every chunk.
Applies(after, lines, hunks) ==
  /\ after \in [0 .. Len(hunks) -> Partial(lines) \cup {Unmatched}]
  /\ after[0] = [cursor |-> 0, result |-> <<>>] /\ after[Len(hunks)] = Progress(lines, hunks)
  /\ \A n \in 1 .. Len(hunks) :
       after[n] = IF after[n - 1] = Unmatched THEN Unmatched ELSE Step(lines, after[n - 1], hunks[n])

LEMMA ProgressParts ==
  ASSUME NEW lines \in Seq(Line), NEW hunks \in Seq(UpdateChunk)
  PROVE  \E after : Applies(after, lines, hunks)
<1> DEFINE N == Len(hunks)
           V == Partial(lines) \cup {Unmatched}
           base == [cursor |-> 0, result |-> <<>>]
           round(v, n) == IF v = Unmatched THEN Unmatched ELSE Step(lines, v, hunks[n])
           step == [n \in 1 .. N |-> [v \in V |-> round(v, n)]]
           Is(g) == g = [n \in 0 .. N |-> IF n = 0 THEN base ELSE
                           IF g[n - 1] = Unmatched THEN Unmatched ELSE Step(lines, g[n - 1], hunks[n])]
<1>1. N \in Nat /\ base \in V
  <2>1. Len(lines) \in Nat /\ <<>> \in Seq(Line)
    BY LenProperties, EmptySeq
  <2>2. 0 \in 0 .. Len(lines)
    BY <2>1
  <2> QED BY <2>1, <2>2, LenProperties DEF Partial
<1>2. \A n \in 1 .. N, v \in V : round(v, n) \in V
  <2> TAKE n \in 1 .. N, v \in V
  <2>1. hunks[n] \in UpdateChunk
    BY ElementOfSeq
  <2> QED BY <2>1, StepTyped
<1> HIDE DEF base
<1>3. step \in [1 .. N -> [V -> V]]
  <2> HIDE DEF round, N, V
  <2> QED BY <1>2
<1>4. PICK g : Unrolls(g, N, V, base, step)
  <2> HIDE DEF step, N, V
  <2> QED BY <1>1, <1>3, Recursion
<1>5. \A n \in 1 .. N : g[n] = round(g[n - 1], n)
  <2> HIDE DEF N, V, round
  <2>1. \A n \in 1 .. N : g[n - 1] \in V
    BY <1>1, <1>4 DEF Unrolls
  <2>2. \A n \in 1 .. N, v \in V : step[n][v] = round(v, n)
    OBVIOUS
  <2> HIDE DEF step
  <2> QED BY <2>1, <2>2, <1>4 DEF Unrolls
<1>6. Is(g)
  <2> HIDE DEF step, N, V
  <2>1. \A n \in 0 .. N : n = 0 \/ n \in 1 .. N
    BY <1>1
  <2>2. \A n \in 0 .. N : g[n] = IF n = 0 THEN base ELSE
          IF g[n - 1] = Unmatched THEN Unmatched ELSE Step(lines, g[n - 1], hunks[n])
    BY <1>4, <1>5, <2>1 DEF Unrolls
  <2>3. g = [n \in 0 .. N |-> g[n]]
    BY <1>4 DEF Unrolls
  <2> QED BY <2>2, <2>3
<1> DEFINE after == CHOOSE h : Is(h)
<1>7. Is(after)
  <2> HIDE DEF Is
  <2> QED BY <1>6
<1>8. Progress(lines, hunks) = after[N]
  BY DEF Progress, base
<1> HIDE DEF after, step
<1>9. after[0] = base /\ \A n \in 1 .. N : after[n] = round(after[n - 1], n)
  <2> HIDE DEF N
  <2>1. \A n \in 0 .. N : after[n] = IF n = 0 THEN base ELSE
          IF after[n - 1] = Unmatched THEN Unmatched ELSE Step(lines, after[n - 1], hunks[n])
    BY <1>7
  <2>2. 0 \in 0 .. N /\ \A n \in 1 .. N : n \in 0 .. N /\ n # 0
    BY <1>1
  <2>3. after[0] = base
    BY <2>1, <2>2
  <2> QED BY <2>1, <2>2, <2>3, Zenon
<1> DEFINE S == { n \in Nat : n <= N => after[n] \in V }
<1>10. 0 \in S
  <2> HIDE DEF V, N
  <2> QED BY <1>1, <1>9
<1>11. ASSUME NEW n \in Nat, n \in S PROVE n + 1 \in S
  <2> HIDE DEF V, round
  <2>1. SUFFICES ASSUME n + 1 <= N PROVE after[n + 1] \in V
    OBVIOUS
  <2>2. n + 1 \in 1 .. N /\ (n + 1) - 1 = n /\ after[n] \in V
    BY <1>1, <1>11, <2>1
  <2>3. after[n + 1] = round(after[n], n + 1)
    BY <1>9, <2>2
  <2> HIDE DEF N
  <2> QED BY <2>2, <2>3, <1>2
<1>12. \A n \in Nat : n \in S
  <2> HIDE DEF S, N
  <2>1. S \in SUBSET Nat
    BY DEF S
  <2> QED BY <1>10, <1>11, <2>1, Induct
<1>13. after = [n \in 0 .. N |-> after[n]]
  BY <1>7
<1>14. after \in [0 .. N -> V]
  <2> HIDE DEF V, N
  <2>1. \A n \in 0 .. N : n \in Nat /\ n <= N
    BY <1>1
  <2> QED BY <1>12, <1>13, <2>1
<1>15. Applies(after, lines, hunks)
  BY <1>8, <1>9, <1>14 DEF Applies, base
<1> QED BY <1>15

-----------------------------------------------------------------------------
(* Taking the first place.                                                 *)

\* A round whose chunk fits at a place behind the cursor finds one no later.
LEMMA StepFits ==
  ASSUME NEW lines \in Seq(Line), NEW progress \in Partial(lines), NEW chunk \in UpdateChunk, ~chunk.eof,
         NEW place \in Nat, place + Len(chunk.old) <= Len(lines), progress.cursor <= place,
         MatchesAt(lines, chunk.old, place, 0),
         chunk.context # NoContext =>
           \E i \in Nat : progress.cursor <= i /\ i + 1 <= place /\ MatchesAt(lines, <<chunk.context>>, i, 0)
  PROVE  /\ Step(lines, progress, chunk) # Unmatched
         /\ Step(lines, progress, chunk).cursor <= place + Len(chunk.old)
<1>1. PICK old \in Nat, N \in Nat, c \in Nat : old = Len(chunk.old) /\ N = Len(lines) /\ c = progress.cursor
  <2>1. Len(chunk.old) \in Nat /\ Len(lines) \in Nat
    BY LenProperties DEF UpdateChunk
  <2> QED BY <2>1 DEF Partial
<1>2. chunk.old \in Seq(Line) /\ chunk.eof = FALSE /\ place + old <= N /\ c <= place /\ place \in Nat
  BY <1>1 DEF UpdateChunk
<1>3. PICK from : from = SearchFrom(lines, c, chunk)
  OBVIOUS
<1>4. from \in Nat /\ from <= place
  <2>1. CASE chunk.context = NoContext
    BY <1>1, <1>2, <1>3, <2>1 DEF SearchFrom
  <2>2. CASE chunk.context # NoContext
    <3>1. PICK one : one = <<chunk.context>>
      OBVIOUS
    <3>2. one \in Seq(Line) /\ Len(one) = 1
      BY <2>2, <3>1 DEF UpdateChunk
    <3>3. PICK i \in Nat : c <= i /\ i + 1 <= place /\ MatchesAt(lines, one, i, 0)
      BY <1>1, <2>2, <3>1
    <3>4. i + Len(one) <= Len(lines)
      BY <1>1, <1>2, <3>2, <3>3
    <3>5. PICK found : found = Seek(lines, one, c, FALSE)
      OBVIOUS
    <3>6. found \in Nat /\ found <= i
      BY <3>2, <3>3, <3>4, <3>5, SeekFinds
    <3>7. from = IF found = NotFound THEN NotFound ELSE found + 1
      BY <1>3, <2>2, <3>1, <3>5 DEF SearchFrom
    <3> QED BY <3>3, <3>6, <3>7 DEF NotFound
  <2> QED BY <2>1, <2>2
<1>5. PICK at_ : at_ = Seek(lines, chunk.old, from, FALSE)
  OBVIOUS
<1>6. at_ \in Nat /\ at_ <= place
  BY <1>1, <1>2, <1>4, <1>5, SeekFinds
<1>7. ~(from = NotFound \/ at_ = NotFound)
  BY <1>4, <1>6 DEF NotFound
<1>8. PICK result : result = progress.result \o SubSeq(lines, progress.cursor + 1, at_) \o chunk.new
  OBVIOUS
<1>9. Step(lines, progress, chunk) = [cursor |-> at_ + old, result |-> result]
  BY <1>1, <1>2, <1>3, <1>5, <1>7, <1>8 DEF Step, Advance
<1>10. at_ + old <= place + old
  BY <1>2, <1>6
<1> QED BY <1>1, <1>9, <1>10, MatchedIsNot

\* Chunks that fit as they are written, at these places, are all found.
FitsAt(lines, hunks, places) ==
  /\ \A k \in 1 .. Len(hunks) :
       /\ ~hunks[k].eof /\ places[k] \in Nat /\ places[k] + Len(hunks[k].old) <= Len(lines)
       /\ MatchesAt(lines, hunks[k].old, places[k], 0)
  /\ \A k \in 1 .. Len(hunks) :
       LET before == IF k = 1 THEN 0 ELSE places[k - 1] + Len(hunks[k - 1].old)
       IN  /\ before <= places[k]
           /\ hunks[k].context # NoContext =>
                \E i \in Nat : before <= i /\ i + 1 <= places[k] /\ MatchesAt(lines, <<hunks[k].context>>, i, 0)

LEMMA FittingIsFound ==
  ASSUME NEW lines \in Seq(Line), NEW hunks \in Seq(UpdateChunk), NEW places, FitsAt(lines, hunks, places)
  PROVE  Progress(lines, hunks) # Unmatched
<1>1. PICK after : Applies(after, lines, hunks)
  BY ProgressParts
<1>2. PICK N \in Nat : N = Len(hunks)
  BY LenProperties
<1> DEFINE end(n) == IF n = 0 THEN 0 ELSE places[n] + Len(hunks[n].old)
           S == { n \in Nat : n <= N => after[n] # Unmatched /\ after[n].cursor <= end(n) }
<1>3. 0 \in S
  BY <1>1, <1>2, MatchedIsNot DEF Applies
<1>4. ASSUME NEW n \in Nat, n \in S PROVE n + 1 \in S
  <2>1. SUFFICES ASSUME n + 1 <= N PROVE after[n + 1] # Unmatched /\ after[n + 1].cursor <= end(n + 1)
    OBVIOUS
  <2>2. /\ n + 1 \in 1 .. N /\ (n + 1) - 1 = n /\ n <= N /\ n \in 0 .. N /\ n + 1 # 0 /\ (n + 1 = 1 <=> n = 0)
        /\ after[n] # Unmatched /\ after[n].cursor <= end(n)
    BY <1>2, <1>4, <2>1
  <2>3. PICK progress, chunk, place : progress = after[n] /\ chunk = hunks[n + 1] /\ place = places[n + 1]
    OBVIOUS
  <2>4. progress \in Partial(lines) /\ chunk \in UpdateChunk
    BY <1>1, <1>2, <2>2, <2>3, ElementOfSeq DEF Applies
  <2>5. PICK before : before = end(n)
    OBVIOUS
  <2>6. /\ ~chunk.eof /\ place \in Nat /\ place + Len(chunk.old) <= Len(lines)
        /\ MatchesAt(lines, chunk.old, place, 0)
    BY <1>2, <2>2, <2>3 DEF FitsAt
  <2>7. /\ before <= place
        /\ chunk.context # NoContext =>
             \E i \in Nat : before <= i /\ i + 1 <= place /\ MatchesAt(lines, <<chunk.context>>, i, 0)
    BY <1>2, <2>2, <2>3, <2>5 DEF FitsAt
  <2>8. before \in Nat /\ progress.cursor \in Nat /\ progress.cursor <= before
    <3>1. Len(lines) \in Nat
      BY LenProperties
    <3>2. CASE n = 0
      BY <2>2, <2>3, <2>4, <2>5, <3>1, <3>2 DEF Partial
    <3>3. CASE n # 0
      <4>1. n \in 1 .. N
        BY <2>2, <3>3
      <4>2. hunks[n] \in UpdateChunk /\ places[n] \in Nat
        BY <1>2, <4>1, ElementOfSeq DEF FitsAt
      <4>3. Len(hunks[n].old) \in Nat
        BY <4>2, LenProperties DEF UpdateChunk
      <4> QED BY <2>2, <2>3, <2>4, <2>5, <3>1, <3>3, <4>2, <4>3 DEF Partial
    <3> QED BY <3>2, <3>3
  <2>9. progress.cursor <= place
    BY <2>6, <2>7, <2>8
  <2>10. chunk.context # NoContext =>
           \E i \in Nat : progress.cursor <= i /\ i + 1 <= place /\ MatchesAt(lines, <<chunk.context>>, i, 0)
    <3>1. \A i \in Nat : before <= i => progress.cursor <= i
      BY <2>8
    <3> QED BY <2>7, <3>1
  <2>11. Step(lines, progress, chunk) # Unmatched /\ Step(lines, progress, chunk).cursor <= place + Len(chunk.old)
    BY <2>4, <2>6, <2>9, <2>10, StepFits
  <2>12. after[n + 1] = Step(lines, progress, chunk)
    BY <1>1, <1>2, <2>2, <2>3 DEF Applies
  <2> QED BY <2>2, <2>3, <2>11, <2>12
<1>5. \A n \in Nat : n \in S
  <2> HIDE DEF S
  <2>1. S \in SUBSET Nat
    BY DEF S
  <2> QED BY <1>3, <1>4, <2>1, Induct
<1> QED BY <1>1, <1>2, <1>5 DEF Applies

\* What is read back is a file.
LEMMA JoinedIsText == ASSUME NEW lines, NEW newline PROVE Joined(lines, newline) # Unmatched
  BY MatchedIsNot DEF Joined, Text

PatchesKept == content \in Contents /\ chunks \in Seq(Candidates)

LEMMA ExactIsFound == PatchesTyped /\ PatchesKept => ExactPatchApplies
<1> SUFFICES ASSUME PatchesTyped, PatchesKept, \A k \in DOMAIN chunks : ~chunks[k].eof,
                    NEW places \in Placements, Placement(places, 0)
             PROVE  ApplyChunks(content, chunks) # Unmatched
  BY DEF ExactPatchApplies
<1>1. PICK lines, hunks : lines = content.lines /\ hunks = chunks
  OBVIOUS
<1>2. lines \in Seq(Line) /\ hunks \in Seq(UpdateChunk) /\ DOMAIN chunks = 1 .. Len(hunks) /\ Len(hunks) \in Nat
  <2>1. hunks \in Seq(Candidates)
    BY <1>1 DEF PatchesKept
  <2>2. hunks \in Seq(UpdateChunk)
    BY <2>1, SeqMonotonic DEF PatchesTyped
  <2> QED BY <1>1, <2>2, LenProperties DEF PatchesKept, PatchesTyped
<1>3. \A k \in 1 .. Len(hunks) : /\ hunks[k] \in UpdateChunk /\ places[k] \in Nat
                                 /\ Len(hunks[k].old) \in Nat
  <2>1. \A k \in 1 .. Len(hunks) : hunks[k] \in UpdateChunk
    BY <1>2, ElementOfSeq
  <2>2. \A k \in 1 .. Len(hunks) : Len(hunks[k].old) \in Nat
    BY <2>1, LenProperties DEF UpdateChunk
  <2>3. Len(lines) \in Nat
    BY <1>2, LenProperties
  <2>4. \A k \in 1 .. Len(hunks) : places[k] \in 0 .. Len(lines)
    BY <1>1, <1>2 DEF Placements
  <2> QED BY <2>1, <2>2, <2>3, <2>4
<1> DEFINE end(k) == IF k = 0 THEN 0 ELSE places[k] + Len(hunks[k].old)
<1>4. \A k \in 1 .. Len(hunks) :
        /\ end(k - 1) <= places[k] /\ end(k) <= Len(lines)
        /\ MatchesAt(lines, hunks[k].old, places[k], 0)
        /\ hunks[k].context # NoContext =>
             \E i \in end(k - 1) .. places[k] - 1 : MatchesAt(lines, <<hunks[k].context>>, i, 0)
  BY <1>1, <1>2 DEF Placement
<1>5. ASSUME NEW k \in 1 .. Len(hunks)
      PROVE  LET before == IF k = 1 THEN 0 ELSE places[k - 1] + Len(hunks[k - 1].old)
             IN  /\ before <= places[k]
                 /\ hunks[k].context # NoContext =>
                      \E i \in Nat : before <= i /\ i + 1 <= places[k] /\ MatchesAt(lines, <<hunks[k].context>>, i, 0)
  <2>1. PICK before : before = end(k - 1)
    OBVIOUS
  <2>2. before = (IF k = 1 THEN 0 ELSE places[k - 1] + Len(hunks[k - 1].old)) /\ before \in Nat
    <3>1. CASE k = 1
      BY <2>1, <3>1
    <3>2. CASE k # 1
      <4>1. k - 1 \in 1 .. Len(hunks) /\ k - 1 # 0
        BY <1>2, <3>2
      <4> QED BY <1>3, <2>1, <3>2, <4>1
    <3> QED BY <3>1, <3>2
  <2>3. before <= places[k]
    BY <1>4, <2>1
  <2>4. ASSUME hunks[k].context # NoContext
        PROVE  \E i \in Nat : before <= i /\ i + 1 <= places[k] /\ MatchesAt(lines, <<hunks[k].context>>, i, 0)
    <3>1. PICK i \in before .. places[k] - 1 : MatchesAt(lines, <<hunks[k].context>>, i, 0)
      BY <1>4, <2>1, <2>4
    <3>2. i \in Nat /\ before <= i /\ i + 1 <= places[k]
      BY <1>3, <2>2, <3>1
    <3> QED BY <3>1, <3>2
  <2> QED BY <2>2, <2>3, <2>4
<1>6. \A k \in 1 .. Len(hunks) : /\ ~hunks[k].eof /\ places[k] + Len(hunks[k].old) <= Len(lines)
                                 /\ MatchesAt(lines, hunks[k].old, places[k], 0)
  <2>1. \A k \in 1 .. Len(hunks) : k # 0
    OBVIOUS
  <2> QED BY <1>1, <1>2, <1>4, <2>1
<1>7. FitsAt(lines, hunks, places)
  <2> HIDE DEF end
  <2> QED BY <1>3, <1>5, <1>6 DEF FitsAt
<1>8. Progress(lines, hunks) # Unmatched
  BY <1>2, <1>7, FittingIsFound
<1> QED BY <1>1, <1>8, JoinedIsText DEF ApplyChunks

\* For any file and any chunks: a patch that fits somewhere as it is written is not refused, though each chunk
\* takes the first place it finds and the looser comparisons are tried everywhere (_apply_chunks, seek_sequence).
THEOREM AlwaysApplies == ASSUME PatchesTyped PROVE LibrariesSpec => []ExactPatchApplies
<1>0. PatchesTyped
  OBVIOUS
<1>1. LibrariesInit => PatchesKept
  <2>1. Init => PatchesKept
    BY EmptySeq DEF Init, PatchesKept
  <2>2. NoChunks => PatchesKept
    BY EmptySeq DEF NoChunks, PatchesKept, PatchesTyped
  <2> QED BY <2>1, <2>2 DEF LibrariesInit
<1>2. PatchesKept /\ [LibrariesNext]_<<chunksVars, policyVars, tree, hooksVars>> => PatchesKept'
  <2> SUFFICES ASSUME PatchesKept, [LibrariesNext]_<<chunksVars, policyVars, tree, hooksVars>> PROVE PatchesKept'
    OBVIOUS
  <2>1. CASE Next
    BY <2>1, AppendProperties DEF Next, AddChunk, PatchesKept
  <2>2. CASE UNCHANGED chunksVars
    BY <2>2 DEF chunksVars, PatchesKept
  <2> QED BY <2>1, <2>2 DEF LibrariesNext
<1>3. PatchesKept => ExactPatchApplies
  BY <1>0, ExactIsFound
<1> QED BY <1>1, <1>2, <1>3, PTL DEF LibrariesSpec

-----------------------------------------------------------------------------
(* The best rule for a view of the tokens (decide_tokens).                 *)

LEMMA SamePolicyMin == \A S : Policy!Min(S) = Min(S)
  BY DEF Policy!Min, Min

\* The best of every beginning of the rules.
Ranks(best, rules, view) ==
  /\ best[0] = Policy!NoRule /\ best[Len(rules)] = Policy!Best(rules, view)
  /\ \A n \in 1 .. Len(rules) :
       best[n] = IF Policy!Matches(rules[n], view) /\ Policy!Outranks(rules[n], best[n - 1]) THEN rules[n] ELSE best[n - 1]

LEMMA BestParts ==
  ASSUME NEW A, NEW rules \in Seq(A), NEW view
  PROVE  \E best : Ranks(best, rules, view)
<1> DEFINE N == Len(rules)
           V == A \cup {Policy!NoRule}
           better(n, v) == Policy!Matches(rules[n], view) /\ Policy!Outranks(rules[n], v)
           step == [n \in 1 .. N |-> [v \in V |-> IF better(n, v) THEN rules[n] ELSE v]]
           Is(g) == g = [n \in 0 .. N |-> IF n = 0 THEN Policy!NoRule ELSE
                           IF Policy!Matches(rules[n], view) /\ Policy!Outranks(rules[n], g[n - 1]) THEN rules[n]
                           ELSE g[n - 1]]
<1>1. N \in Nat /\ Policy!NoRule \in V /\ \A n \in 1 .. N : rules[n] \in V
  BY ElementOfSeq, LenProperties
<1>2. step \in [1 .. N -> [V -> V]]
  <2> HIDE DEF better, N, V
  <2> QED BY <1>1
<1>3. PICK g : Unrolls(g, N, V, Policy!NoRule, step)
  <2> HIDE DEF step, N, V
  <2> QED BY <1>1, <1>2, Recursion
<1>4. \A n \in 1 .. N : g[n] = IF better(n, g[n - 1]) THEN rules[n] ELSE g[n - 1]
  <2> HIDE DEF N, V, better
  <2>1. \A n \in 1 .. N : g[n - 1] \in V
    BY <1>1, <1>3 DEF Unrolls
  <2>2. \A n \in 1 .. N, v \in V : step[n][v] = IF better(n, v) THEN rules[n] ELSE v
    OBVIOUS
  <2> HIDE DEF step
  <2> QED BY <2>1, <2>2, <1>3 DEF Unrolls
<1>5. Is(g)
  <2> HIDE DEF step, N, V
  <2>1. \A n \in 0 .. N : n = 0 \/ n \in 1 .. N
    BY <1>1
  <2>2. \A n \in 0 .. N : g[n] = IF n = 0 THEN Policy!NoRule ELSE IF better(n, g[n - 1]) THEN rules[n] ELSE g[n - 1]
    <3> HIDE DEF better
    <3> QED BY <1>3, <1>4, <2>1 DEF Unrolls
  <2>3. g = [n \in 0 .. N |-> g[n]]
    BY <1>3 DEF Unrolls
  <2>4. g = [n \in 0 .. N |-> IF n = 0 THEN Policy!NoRule ELSE IF better(n, g[n - 1]) THEN rules[n] ELSE g[n - 1]]
    <3> HIDE DEF better
    <3> QED BY <2>2, <2>3
  <2> QED BY <2>4
<1> DEFINE best == CHOOSE h : Is(h)
<1>6. Is(best)
  <2> HIDE DEF Is
  <2> QED BY <1>5
<1>7. Policy!Best(rules, view) = best[N]
  BY DEF Policy!Best
<1> HIDE DEF best, step
<1>8. \A n \in 0 .. N : best[n] = IF n = 0 THEN Policy!NoRule ELSE IF better(n, best[n - 1]) THEN rules[n] ELSE best[n - 1]
  <2> HIDE DEF N
  <2> QED BY <1>6
<1>9. 0 \in 0 .. N /\ \A n \in 1 .. N : n \in 0 .. N /\ n # 0
  BY <1>1
<1>10. best[0] = Policy!NoRule
  <2> HIDE DEF N, better
  <2> QED BY <1>8, <1>9
<1>11. \A n \in 1 .. N : best[n] = IF better(n, best[n - 1]) THEN rules[n] ELSE best[n - 1]
  <2> HIDE DEF N, better
  <2> QED BY <1>8, <1>9, Zenon
<1>12. Ranks(best, rules, view)
  BY <1>7, <1>10, <1>11 DEF Ranks
<1> QED BY <1>12

\* One more rule is the best, or what was the best is.
LEMMA BestGrows ==
  ASSUME NEW A, NEW rules \in Seq(A), NEW rule \in A, NEW view
  PROVE  Policy!Best(Append(rules, rule), view) =
           IF Policy!Matches(rule, view) /\ Policy!Outranks(rule, Policy!Best(rules, view)) THEN rule
           ELSE Policy!Best(rules, view)
<1>1. PICK more : more = Append(rules, rule)
  OBVIOUS
<1>2. PICK N \in Nat : N = Len(rules)
  BY LenProperties
<1>3. more \in Seq(A) /\ Len(more) = N + 1 /\ more[N + 1] = rule /\ \A n \in 1 .. N : more[n] = rules[n]
  BY <1>1, <1>2, AppendProperties
<1>4. PICK p : Ranks(p, rules, view)
  BY BestParts
<1>5. PICK q : Ranks(q, more, view)
  BY <1>3, BestParts
<1> DEFINE S == { n \in Nat : n <= N => q[n] = p[n] }
<1>6. 0 \in S
  BY <1>4, <1>5 DEF Ranks
<1>7. ASSUME NEW n \in Nat, n \in S PROVE n + 1 \in S
  <2>1. SUFFICES ASSUME n + 1 <= N PROVE q[n + 1] = p[n + 1]
    OBVIOUS
  <2>2. n + 1 \in 1 .. N /\ n + 1 \in 1 .. N + 1 /\ (n + 1) - 1 = n /\ q[n] = p[n]
    BY <1>7, <2>1
  <2>3. /\ p[n + 1] = IF Policy!Matches(rules[n + 1], view) /\ Policy!Outranks(rules[n + 1], p[n]) THEN rules[n + 1] ELSE p[n]
        /\ q[n + 1] = IF Policy!Matches(more[n + 1], view) /\ Policy!Outranks(more[n + 1], q[n]) THEN more[n + 1] ELSE q[n]
    BY <1>2, <1>3, <1>4, <1>5, <2>2 DEF Ranks
  <2> QED BY <1>3, <2>2, <2>3
<1>8. \A n \in Nat : n \in S
  <2> HIDE DEF S
  <2>1. S \in SUBSET Nat
    BY DEF S
  <2> QED BY <1>6, <1>7, <2>1, Induct
<1>9. q[N] = Policy!Best(rules, view)
  BY <1>2, <1>4, <1>8 DEF Ranks
<1>10. N + 1 \in 1 .. N + 1 /\ (N + 1) - 1 = N
  OBVIOUS
<1>11. q[N + 1] = IF Policy!Matches(rule, view) /\ Policy!Outranks(rule, q[N]) THEN rule ELSE q[N]
  BY <1>3, <1>5, <1>10 DEF Ranks
<1>12. q[N + 1] = Policy!Best(more, view)
  BY <1>3, <1>5 DEF Ranks
<1> QED BY <1>1, <1>9, <1>11, <1>12

-----------------------------------------------------------------------------
(* The rule that is written back.                                          *)

Tokens == Policy!Words \cup {Policy!Operator}

LEMMA RunOfTokens ==
  ASSUME line \in Seq(Tokens), NEW segment \in Policy!Runs(line)
  PROVE  segment \in Seq(Tokens)
<1>1. PICK i \in 1 .. Len(line), j \in 1 .. Len(line) : segment = SubSeq(line, i, j)
  BY DEF Policy!Runs
<1>2. Len(line) \in Nat
  BY LenProperties
<1>3. \A k \in i .. j : line[k] \in Tokens
  <2>1. \A k \in i .. j : k \in 1 .. Len(line)
    BY <1>2
  <2> QED BY <2>1, ElementOfSeq
<1>4. i \in Int /\ j \in Int
  BY <1>2
<1> QED BY <1>1, <1>3, <1>4, SubSeqProperties

\* It matches what begins with the allowed words.
LEMMA MatchesBeginning ==
  ASSUME NEW T, NEW segment \in Seq(T), NEW view \in Seq(T), Policy!Matches(Policy!AllowRule(segment), view)
  PROVE  Policy!Begins(view, segment)
<1>1. PICK n \in Nat, m \in Nat : n = Len(segment) /\ m = Len(view)
  BY LenProperties
<1>2. PICK pattern : pattern = [i \in 1 .. n |-> {segment[i]}]
  OBVIOUS
<1>3. DOMAIN segment = 1 .. n /\ \A i \in 1 .. n : {segment[i]} \in SUBSET T
  BY <1>1, ElementOfSeq, LenProperties
<1>4. pattern \in Seq(SUBSET T) /\ Len(pattern) = n /\ DOMAIN pattern = 1 .. n /\ \A i \in 1 .. n : pattern[i] = {segment[i]}
  BY <1>2, <1>3
<1>5. Policy!AllowRule(segment).pattern = pattern
  BY <1>2, <1>3 DEF Policy!AllowRule
<1>6. n <= m /\ \A i \in 1 .. n : view[i] = segment[i]
  BY <1>1, <1>4, <1>5 DEF Policy!Matches
<1>7. PICK s : s = SubSeq(view, 1, n)
  OBVIOUS
<1>8. \A i \in 1 .. n : view[i] \in T
  <2>1. \A i \in 1 .. n : i \in 1 .. m
    BY <1>6
  <2> QED BY <1>1, <2>1, ElementOfSeq
<1>9. s \in Seq(T) /\ Len(s) = n /\ \A i \in 1 .. n : s[i] = view[i]
  BY <1>7, <1>8, SubSeqProperties
<1>10. s = segment
  BY <1>1, <1>6, <1>9, SeqEqual
<1> QED BY <1>1, <1>6, <1>7, <1>10 DEF Policy!Begins

\* The views of a command: it, and what it is called.
LEMMA Views ==
  ASSUME NEW s \in Policy!Commands, NEW pol
  PROVE  /\ s \in Seq(Policy!Words) /\ s # <<>>
         /\ \/ Policy!TokenViews(pol, s) = <<s>>
            \/ s[1] \in Paths /\ Policy!TokenViews(pol, s) = <<s, Policy!BareName(s)>>
<1>1. PICK n \in 1 .. LineLimit : s \in [1 .. n -> Policy!Words]
  BY DEF Policy!Commands
<1>2. n \in Nat /\ 1 <= n
  BY <1>1
<1>3. s \in Seq(Policy!Words) /\ Len(s) = n
  BY <1>1, <1>2
<1>4. s # <<>>
  BY <1>2, <1>3, EmptySeq
<1> QED BY <1>3, <1>4 DEF Policy!TokenViews, Policy!BareName

LEMMA BareIsSeq ==
  ASSUME NEW T, NEW s \in Seq(T), s # <<>>
  PROVE  Policy!BareName(s) \in Seq(T \cup {Basename(s[1])})
<1> DEFINE U == T \cup {Basename(s[1])}
<1>1. Tail(s) \in Seq(U)
  <2>1. Tail(s) \in Seq(T) /\ T \subseteq U
    BY HeadTailProperties
  <2> HIDE DEF U
  <2> QED BY <2>1, SeqMonotonic
<1>2. PICK one : one = <<Basename(s[1])>>
  OBVIOUS
<1>3. one \in Seq(U)
  BY <1>2
<1> HIDE DEF U
<1>4. one \o Tail(s) \in Seq(U)
  BY <1>1, <1>3, ConcatProperties
<1> QED BY <1>2, <1>4 DEF Policy!BareName, U

\* One more rule: a view's best rule stays, or it is the new one, and the view begins with the allowed words.
LEMMA ViewKeepsOrBegins ==
  ASSUME NEW A, NEW rules \in Seq(A), NEW T, NEW segment \in Seq(T), NEW view \in Seq(T)
  PROVE  LET rule == Policy!AllowRule(segment)
             old  == Policy!Best(rules, view)
             new  == Policy!Best(Append(rules, rule), view)
         IN  new = old \/ (new = rule /\ Policy!Begins(view, segment))
<1>1. PICK rule : rule = Policy!AllowRule(segment)
  OBVIOUS
<1>2. rules \in Seq(A \cup {rule}) /\ rule \in A \cup {rule}
  BY SeqMonotonic
<1>3. Policy!Best(Append(rules, rule), view) =
        IF Policy!Matches(rule, view) /\ Policy!Outranks(rule, Policy!Best(rules, view)) THEN rule
        ELSE Policy!Best(rules, view)
  BY <1>2, BestGrows
<1>4. Policy!Matches(rule, view) => Policy!Begins(view, segment)
  BY <1>1, MatchesBeginning
<1> QED BY <1>1, <1>3, <1>4

\* The decision of the first view with a rule.
Says(views, best) ==
  LET hits == { i \in DOMAIN views : best[i] # Policy!NoRule }
  IN  IF hits = {} THEN "prompt" ELSE best[Min(hits)].decision

\* It is what it was, or "allow".
LEMMA DecisionKept ==
  ASSUME NEW views, DOMAIN views \in SUBSET Nat, NEW old, NEW new, NEW rule, rule # Policy!NoRule, rule.decision = "allow",
         NEW Begun, \A i \in DOMAIN views : new[i] = old[i] \/ (new[i] = rule /\ i \in Begun)
  PROVE  Says(views, new) = Says(views, old) \/ (Says(views, new) = "allow" /\ \E i \in DOMAIN views : i \in Begun)
<1> USE DEF Says
<1>1. PICK oldHits, newHits : /\ oldHits = { i \in DOMAIN views : old[i] # Policy!NoRule }
                              /\ newHits = { i \in DOMAIN views : new[i] # Policy!NoRule }
  OBVIOUS
<1>2. oldHits \in SUBSET Nat /\ newHits \in SUBSET Nat /\ oldHits \subseteq newHits
  BY <1>1
<1>3. CASE newHits = {}
  BY <1>1, <1>2, <1>3
<1>4. CASE newHits # {}
  <2>1. PICK m : m = Min(newHits)
    OBVIOUS
  <2>2. m \in newHits /\ \A i \in newHits : m <= i
    BY <1>2, <1>4, <2>1, MinIsLeast
  <2>3. m \in DOMAIN views /\ m \in Nat
    BY <1>1, <2>2
  <2>4. CASE new[m] = rule /\ m \in Begun
    BY <1>1, <1>4, <2>1, <2>3, <2>4
  <2>5. CASE new[m] = old[m]
    <3>1. m \in oldHits
      BY <1>1, <2>2, <2>5
    <3>2. PICK l : l = Min(oldHits)
      OBVIOUS
    <3>3. l \in oldHits /\ \A i \in oldHits : l <= i
      BY <1>2, <3>1, <3>2, MinIsLeast
    <3>4. l = m
      <4>1. l <= m /\ m <= l /\ l \in Nat
        BY <1>2, <2>2, <3>1, <3>3
      <4> QED BY <2>3, <4>1
    <3> QED BY <1>1, <1>4, <2>1, <2>5, <3>1, <3>2, <3>4
  <2> QED BY <2>3, <2>4, <2>5
<1> QED BY <1>3, <1>4

-----------------------------------------------------------------------------
(* The commands of a line (split_segments).                                *)

IsRun(tokens, i, j) ==
  /\ i <= j /\ (i = 1 \/ tokens[i - 1] = Policy!Operator)
  /\ \A k \in i .. j : tokens[k] # Policy!Operator

\* One that an operator has ended, among the first n tokens.
Ended(tokens, i, j, n) == IsRun(tokens, i, j) /\ j + 1 <= n /\ tokens[j + 1] = Policy!Operator

EndedRuns(tokens, runs, n, l) ==
  /\ \A m \in 1 .. l : runs[m] = <<>> \/ \E i, j \in 1 .. n : Ended(tokens, i, j, n) /\ runs[m] = SubSeq(tokens, i, j)
  /\ \A i, j \in 1 .. n : Ended(tokens, i, j, n) => \E m \in 1 .. l : runs[m] = SubSeq(tokens, i, j)

AtHand(tokens, run, n) ==
  \E s \in 1 .. n + 1 : /\ s = 1 \/ tokens[s - 1] = Policy!Operator
                        /\ \A k \in s .. n : tokens[k] # Policy!Operator
                        /\ run = SubSeq(tokens, s, n)

\* The runs after n tokens.
Splits(tokens, runs, n) ==
  /\ runs \in Seq(Seq(Tokens)) /\ Len(runs) >= 1
  /\ EndedRuns(tokens, runs, n, Len(runs) - 1) /\ AtHand(tokens, runs[Len(runs)], n)

LEMMA SubSeqGrows ==
  ASSUME NEW A, NEW s \in Seq(A), NEW i \in Nat, NEW n \in Nat, 1 <= i, i <= n + 1, n + 1 <= Len(s)
  PROVE  /\ SubSeq(s, i, n) \in Seq(A) /\ SubSeq(s, i, n + 1) \in Seq(A)
         /\ Append(SubSeq(s, i, n), s[n + 1]) = SubSeq(s, i, n + 1)
<1>0. Len(s) \in Nat /\ \A k \in 1 .. Len(s) : s[k] \in A
  BY LenProperties, ElementOfSeq
<1>1. PICK m \in Nat : m = n + 1 - i
  OBVIOUS
<1>2. PICK p, q, x : p = SubSeq(s, i, n) /\ q = SubSeq(s, i, n + 1) /\ x = s[n + 1]
  OBVIOUS
<1>3. (\A k \in i .. n : s[k] \in A) /\ (\A k \in i .. n + 1 : s[k] \in A) /\ x \in A
  <2>1. \A k \in i .. n + 1 : k \in 1 .. Len(s)
    BY <1>0
  <2>2. (\A k \in i .. n : k \in i .. n + 1) /\ n + 1 \in i .. n + 1
    OBVIOUS
  <2> QED BY <1>0, <1>2, <2>1, <2>2
<1>4. /\ p \in Seq(A) /\ Len(p) = m /\ \A k \in 1 .. m : p[k] = s[i + k - 1]
      /\ q \in Seq(A) /\ Len(q) = m + 1 /\ \A k \in 1 .. m + 1 : q[k] = s[i + k - 1]
  <2>1. i \in Int /\ n \in Int /\ n + 1 \in Int
    OBVIOUS
  <2>a. (\A k \in i .. n : s[k] \in A) /\ (\A k \in i .. n + 1 : s[k] \in A) /\ p = SubSeq(s, i, n) /\ q = SubSeq(s, i, n + 1)
    BY <1>2, <1>3
  <2>2. p \in Seq(A) /\ Len(p) = (IF i <= n THEN n - i + 1 ELSE 0) /\ \A k \in 1 .. n - i + 1 : p[k] = s[i + k - 1]
    BY <2>1, <2>a, SubSeqProperties, SMTT(30)
  <2>3. q \in Seq(A) /\ Len(q) = (IF i <= n + 1 THEN n + 1 - i + 1 ELSE 0) /\ \A k \in 1 .. n + 1 - i + 1 : q[k] = s[i + k - 1]
    BY <2>1, <2>a, SubSeqProperties, SMTT(30)
  <2>4. m = n - i + 1 /\ m + 1 = n + 1 - i + 1 /\ (i <= n \/ m = 0)
    BY <1>1
  <2> QED BY <2>2, <2>3, <2>4
<1>5. PICK r : r = Append(p, x)
  OBVIOUS
<1>6. r \in Seq(A) /\ Len(r) = m + 1 /\ r[m + 1] = x /\ \A k \in 1 .. m : r[k] = p[k]
  BY <1>3, <1>4, <1>5, AppendProperties
<1>7. i + (m + 1) - 1 = n + 1
  BY <1>1
<1>8. \A k \in 1 .. m + 1 : r[k] = q[k]
  <2>1. \A k \in 1 .. m + 1 : k \in 1 .. m \/ k = m + 1
    BY <1>1
  <2>2. m + 1 \in 1 .. m + 1
    BY <1>1
  <2>3. q[m + 1] = x
    BY <1>2, <1>4, <1>7, <2>2
  <2> QED BY <1>4, <1>6, <2>1, <2>3
<1>9. r = q
  BY <1>4, <1>6, <1>8, SeqEqual
<1> QED BY <1>2, <1>4, <1>5, <1>9

\* The run at hand is the last.
LEMMA LastRun ==
  ASSUME NEW A, NEW runs \in Seq(A), NEW L \in Nat, L = Len(runs), L >= 1
  PROVE  /\ Policy!Last(runs) = runs[L] /\ runs[L] \in A
         /\ Policy!Front(runs) \in Seq(A) /\ Len(Policy!Front(runs)) = L - 1
         /\ \A m \in 1 .. L - 1 : Policy!Front(runs)[m] = runs[m]
<1>1. Policy!Last(runs) = runs[L] /\ runs[L] \in A
  <2>1. L \in 1 .. L
    OBVIOUS
  <2> QED BY <2>1, ElementOfSeq DEF Policy!Last
<1>2. PICK front : front = SubSeq(runs, 1, L - 1)
  OBVIOUS
<1>3. PICK l \in Nat : l = L - 1
  OBVIOUS
<1>4. front \in Seq(A) /\ Len(front) = l /\ \A m \in 1 .. l : front[m] = runs[m]
  <2>1. \A m \in 1 .. l : runs[m] \in A
    <3>1. \A m \in 1 .. l : m \in 1 .. L
      BY <1>3
    <3> QED BY <3>1, ElementOfSeq
  <2>2. front = SubSeq(runs, 1, l)
    BY <1>2, <1>3
  <2>3. 1 \in Int /\ l \in Int
    BY <1>3
  <2>4. front \in Seq(A) /\ Len(front) = (IF 1 <= l THEN l - 1 + 1 ELSE 0) /\ \A m \in 1 .. l - 1 + 1 : front[m] = runs[1 + m - 1]
    BY <2>1, <2>2, <2>3, SubSeqProperties
  <2>5. l - 1 + 1 = l /\ (1 <= l \/ l = 0) /\ \A m \in 1 .. l : 1 + m - 1 = m
    BY <1>3
  <2> QED BY <2>4, <2>5
<1>5. Policy!Front(runs) = front
  BY <1>2 DEF Policy!Front
<1> QED BY <1>1, <1>3, <1>4, <1>5

LEMMA SplitStarts == ASSUME NEW tokens \in Seq(Tokens) PROVE Splits(tokens, << <<>> >>, 0)
<1>1. PICK runs : runs = << <<>> >>
  OBVIOUS
<1>2. <<>> \in Seq(Tokens)
  BY EmptySeq
<1>3. runs \in Seq(Seq(Tokens)) /\ Len(runs) = 1 /\ runs[1] = <<>>
  BY <1>1, <1>2
<1>4. SubSeq(tokens, 1, 0) = <<>>
  <2>1. PICK p : p = SubSeq(tokens, 1, 0)
    OBVIOUS
  <2>2. p \in Seq(Tokens) /\ Len(p) = 0
    BY <2>1, SubSeqProperties
  <2> QED BY <2>1, <2>2, EmptySeq
<1>5. EndedRuns(tokens, runs, 0, 0)
  BY DEF EndedRuns
<1>6. 1 \in 1 .. 0 + 1
  OBVIOUS
<1>7. AtHand(tokens, runs[1], 0)
  BY <1>3, <1>4, <1>6 DEF AtHand
<1> QED BY <1>1, <1>3, <1>5, <1>7 DEF Splits

LEMMA SplitOperator ==
  ASSUME NEW tokens \in Seq(Tokens), NEW n \in Nat, n + 1 <= Len(tokens), tokens[n + 1] = Policy!Operator,
         NEW runs, Splits(tokens, runs, n)
  PROVE  Splits(tokens, Append(runs, <<>>), n + 1)
<1>1. PICK L \in Nat : /\ L = Len(runs) /\ runs \in Seq(Seq(Tokens)) /\ L >= 1
                       /\ EndedRuns(tokens, runs, n, L - 1) /\ AtHand(tokens, runs[L], n)
  BY LenProperties DEF Splits
<1>2. PICK s \in 1 .. n + 1 : /\ s = 1 \/ tokens[s - 1] = Policy!Operator
                              /\ \A k \in s .. n : tokens[k] # Policy!Operator
                              /\ runs[L] = SubSeq(tokens, s, n)
  BY <1>1 DEF AtHand
<1>3. PICK more : more = Append(runs, <<>>)
  OBVIOUS
<1>4. /\ more \in Seq(Seq(Tokens)) /\ Len(more) = L + 1 /\ more[L + 1] = <<>>
      /\ \A m \in 1 .. L : more[m] = runs[m]
  BY <1>1, <1>3, EmptySeq, AppendProperties
<1>5. ASSUME NEW i \in 1 .. n, IsRun(tokens, i, n) PROVE i = s
  <2>1. \A k \in i .. n : tokens[k] # Policy!Operator
    BY <1>5 DEF IsRun
  <2>2. i = 1 \/ tokens[i - 1] = Policy!Operator
    BY <1>5 DEF IsRun
  <2>3. i <= s
    <3>1. SUFFICES ASSUME s < i PROVE FALSE
      BY <1>2
    <3>2. i - 1 \in s .. n /\ i # 1
      BY <3>1, <1>2
    <3> QED BY <1>2, <2>2, <3>2
  <2>4. s <= i
    <3>1. SUFFICES ASSUME i < s PROVE FALSE
      BY <1>2
    <3>2. s - 1 \in i .. n /\ s # 1
      BY <3>1, <1>2
    <3> QED BY <1>2, <2>1, <3>2
  <2> QED BY <1>2, <2>3, <2>4
<1>6. ASSUME NEW m \in 1 .. L
      PROVE  more[m] = <<>> \/ \E i, j \in 1 .. n + 1 : Ended(tokens, i, j, n + 1) /\ more[m] = SubSeq(tokens, i, j)
  <2>1. CASE m \in 1 .. L - 1
    <3>1. runs[m] = <<>> \/ \E i, j \in 1 .. n : Ended(tokens, i, j, n) /\ runs[m] = SubSeq(tokens, i, j)
      BY <1>1, <2>1 DEF EndedRuns
    <3>2. \A i, j \in 1 .. n : i \in 1 .. n + 1 /\ j \in 1 .. n + 1 /\ (Ended(tokens, i, j, n) => Ended(tokens, i, j, n + 1))
      BY DEF Ended
    <3> QED BY <1>4, <3>1, <3>2
  <2>2. CASE m = L /\ s <= n
    <3>1. s \in 1 .. n + 1 /\ n \in 1 .. n + 1 /\ n + 1 <= n + 1
      BY <2>2
    <3>2. IsRun(tokens, s, n)
      BY <1>2, <2>2 DEF IsRun
    <3>3. Ended(tokens, s, n, n + 1)
      BY <3>1, <3>2 DEF Ended
    <3> QED BY <1>2, <1>4, <2>2, <3>1, <3>3
  <2>3. CASE m = L /\ ~(s <= n)
    <3>1. PICK p : p = SubSeq(tokens, s, n)
      OBVIOUS
    <3>2. p = <<>>
      <4>1. s \in Int /\ n \in Int /\ \A k \in s .. n : tokens[k] \in Tokens
        BY <2>3
      <4>2. p \in Seq(Tokens) /\ Len(p) = 0
        BY <2>3, <3>1, <4>1, SubSeqProperties
      <4> QED BY <4>2, EmptySeq
    <3> QED BY <1>2, <1>4, <2>3, <3>1, <3>2
  <2> QED BY <2>1, <2>2, <2>3
<1>7. ASSUME NEW i \in 1 .. n + 1, NEW j \in 1 .. n + 1, Ended(tokens, i, j, n + 1)
      PROVE  \E m \in 1 .. L : more[m] = SubSeq(tokens, i, j)
  <2>1. i \in 1 .. n /\ j \in 1 .. n
    BY <1>7 DEF Ended, IsRun
  <2>2. CASE j + 1 <= n
    <3>1. PICK m \in 1 .. L - 1 : runs[m] = SubSeq(tokens, i, j)
      BY <1>1, <1>7, <2>1, <2>2 DEF EndedRuns, Ended
    <3>2. m \in 1 .. L
      OBVIOUS
    <3> QED BY <1>4, <3>1, <3>2
  <2>3. CASE ~(j + 1 <= n)
    <3>1. j = n /\ L \in 1 .. L
      BY <1>1, <2>1, <2>3
    <3>2. i = s
      BY <1>5, <1>7, <2>1, <3>1 DEF Ended
    <3> QED BY <1>2, <1>4, <3>1, <3>2
  <2> QED BY <2>2, <2>3
<1>8. \E z \in 1 .. (n + 1) + 1 : /\ z = 1 \/ tokens[z - 1] = Policy!Operator
                                  /\ \A k \in z .. n + 1 : tokens[k] # Policy!Operator
                                  /\ more[L + 1] = SubSeq(tokens, z, n + 1)
  <2>1. PICK z \in Nat : z = n + 2
    OBVIOUS
  <2>2. z \in 1 .. (n + 1) + 1 /\ z - 1 = n + 1 /\ \A k \in z .. n + 1 : FALSE
    BY <2>1
  <2>3. PICK p : p = SubSeq(tokens, z, n + 1)
    OBVIOUS
  <2>4. p = <<>>
    <3>1. z \in Int /\ n + 1 \in Int /\ ~(z <= n + 1) /\ \A k \in z .. n + 1 : tokens[k] \in Tokens
      BY <2>1, <2>2
    <3>2. p \in Seq(Tokens) /\ Len(p) = 0
      BY <2>3, <3>1, SubSeqProperties
    <3> QED BY <3>2, EmptySeq
  <2> QED BY <1>4, <2>2, <2>3, <2>4
<1>9. Len(more) >= 1 /\ Len(more) - 1 = L
  BY <1>1, <1>4
<1>10. EndedRuns(tokens, more, n + 1, L)
  BY <1>6, <1>7 DEF EndedRuns
<1>11. AtHand(tokens, more[L + 1], n + 1)
  BY <1>8 DEF AtHand
<1> QED BY <1>3, <1>4, <1>9, <1>10, <1>11 DEF Splits

LEMMA SplitWord ==
  ASSUME NEW tokens \in Seq(Tokens), NEW n \in Nat, n + 1 <= Len(tokens), tokens[n + 1] # Policy!Operator,
         NEW runs, Splits(tokens, runs, n)
  PROVE  Splits(tokens, Append(Policy!Front(runs), Append(Policy!Last(runs), tokens[n + 1])), n + 1)
<1>1. PICK L \in Nat : /\ L = Len(runs) /\ runs \in Seq(Seq(Tokens)) /\ L >= 1
                       /\ EndedRuns(tokens, runs, n, L - 1) /\ AtHand(tokens, runs[L], n)
  BY LenProperties DEF Splits
<1>2. PICK s \in 1 .. n + 1 : /\ s = 1 \/ tokens[s - 1] = Policy!Operator
                              /\ \A k \in s .. n : tokens[k] # Policy!Operator
                              /\ runs[L] = SubSeq(tokens, s, n)
  BY <1>1 DEF AtHand
<1>3. PICK grown : grown = Append(runs[L], tokens[n + 1])
  OBVIOUS
<1>4. grown = SubSeq(tokens, s, n + 1) /\ grown \in Seq(Tokens)
  <2>1. s \in Nat /\ 1 <= s /\ s <= n + 1
    BY <1>2
  <2> QED BY <1>2, <1>3, <2>1, SubSeqGrows
<1>5. PICK more : more = Append(Policy!Front(runs), grown)
  OBVIOUS
<1>6. /\ more \in Seq(Seq(Tokens)) /\ Len(more) = L /\ more[L] = grown /\ \A m \in 1 .. L - 1 : more[m] = runs[m]
      /\ Policy!Last(runs) = runs[L]
  <2>1. PICK A, front : A = Seq(Tokens) /\ front = Policy!Front(runs)
    OBVIOUS
  <2>2. runs \in Seq(A) /\ grown \in A
    BY <1>1, <1>4, <2>1
  <2>3. /\ front \in Seq(A) /\ Len(front) = L - 1 /\ (\A m \in 1 .. L - 1 : front[m] = runs[m])
        /\ Policy!Last(runs) = runs[L]
    BY <1>1, <2>1, <2>2, LastRun
  <2>4. /\ more \in Seq(A) /\ Len(more) = Len(front) + 1 /\ more[Len(front) + 1] = grown
        /\ \A m \in 1 .. Len(front) : more[m] = front[m]
    BY <1>5, <2>1, <2>2, <2>3, AppendProperties
  <2> QED BY <1>1, <2>1, <2>3, <2>4
<1>7. ASSUME NEW m \in 1 .. L - 1
      PROVE  more[m] = <<>> \/ \E i, j \in 1 .. n + 1 : Ended(tokens, i, j, n + 1) /\ more[m] = SubSeq(tokens, i, j)
  <2>1. runs[m] = <<>> \/ \E i, j \in 1 .. n : Ended(tokens, i, j, n) /\ runs[m] = SubSeq(tokens, i, j)
    BY <1>1 DEF EndedRuns
  <2>2. \A i, j \in 1 .. n : i \in 1 .. n + 1 /\ j \in 1 .. n + 1 /\ (Ended(tokens, i, j, n) => Ended(tokens, i, j, n + 1))
    BY DEF Ended
  <2> QED BY <1>6, <2>1, <2>2
<1>8. ASSUME NEW i \in 1 .. n + 1, NEW j \in 1 .. n + 1, Ended(tokens, i, j, n + 1)
      PROVE  \E m \in 1 .. L - 1 : more[m] = SubSeq(tokens, i, j)
  <2>1. j # n /\ j + 1 <= n + 1
    BY <1>8 DEF Ended
  <2>2. i \in 1 .. n /\ j \in 1 .. n /\ j + 1 <= n
    BY <1>8, <2>1 DEF Ended, IsRun
  <2>3. Ended(tokens, i, j, n)
    BY <1>8, <2>2 DEF Ended
  <2>4. \E m \in 1 .. L - 1 : runs[m] = SubSeq(tokens, i, j)
    BY <1>1, <2>2, <2>3 DEF EndedRuns
  <2> QED BY <1>6, <2>4
<1>9. \E z \in 1 .. (n + 1) + 1 : /\ z = 1 \/ tokens[z - 1] = Policy!Operator
                                  /\ \A k \in z .. n + 1 : tokens[k] # Policy!Operator
                                  /\ more[L] = SubSeq(tokens, z, n + 1)
  <2>1. s \in 1 .. (n + 1) + 1 /\ \A k \in s .. n + 1 : k \in s .. n \/ k = n + 1
    BY <1>2
  <2> QED BY <1>2, <1>4, <1>6, <2>1
<1>10. EndedRuns(tokens, more, n + 1, L - 1)
  BY <1>7, <1>8 DEF EndedRuns
<1>11. AtHand(tokens, more[L], n + 1)
  BY <1>9 DEF AtHand
<1> QED BY <1>1, <1>3, <1>5, <1>6, <1>10, <1>11 DEF Splits

\* The runs after every token.
SplitsBy(runs, tokens) ==
  /\ runs[0] = << <<>> >>
  /\ \A n \in 1 .. Len(tokens) :
       runs[n] = IF tokens[n] = Policy!Operator THEN Append(runs[n - 1], <<>>)
                 ELSE Append(Policy!Front(runs[n - 1]), Append(Policy!Last(runs[n - 1]), tokens[n]))

LEMMA SplitKeeps ==
  ASSUME NEW tokens \in Seq(Tokens), NEW runs, SplitsBy(runs, tokens)
  PROVE  \A n \in 0 .. Len(tokens) : Splits(tokens, runs[n], n)
<1> DEFINE N == Len(tokens)
           S == { n \in Nat : n <= N => Splits(tokens, runs[n], n) }
<1>1. 0 \in S
  BY SplitStarts DEF SplitsBy
<1>2. ASSUME NEW n \in Nat, n \in S PROVE n + 1 \in S
  <2>1. SUFFICES ASSUME n + 1 <= N PROVE Splits(tokens, runs[n + 1], n + 1)
    OBVIOUS
  <2>2. n + 1 \in 1 .. N /\ (n + 1) - 1 = n /\ Splits(tokens, runs[n], n)
    <3>1. N \in Nat
      BY LenProperties
    <3> QED BY <1>2, <2>1, <3>1
  <2>3. runs[n + 1] = IF tokens[n + 1] = Policy!Operator THEN Append(runs[n], <<>>)
                      ELSE Append(Policy!Front(runs[n]), Append(Policy!Last(runs[n]), tokens[n + 1]))
    BY <2>2 DEF SplitsBy
  <2>4. CASE tokens[n + 1] = Policy!Operator
    BY <2>1, <2>2, <2>3, <2>4, SplitOperator
  <2>5. CASE tokens[n + 1] # Policy!Operator
    BY <2>1, <2>2, <2>3, <2>5, SplitWord
  <2> QED BY <2>4, <2>5
<1>3. \A n \in Nat : n \in S
  <2> HIDE DEF S
  <2>1. S \in SUBSET Nat
    BY DEF S
  <2> QED BY <1>1, <1>2, <2>1, Induct
<1> QED BY <1>3

LEMMA OneMore ==
  ASSUME NEW A, NEW s \in Seq(A), NEW x \in A
  PROVE  Append(s, x) \in Seq(A) /\ Append(s, x) # <<>>
<1>1. PICK more : more = Append(s, x)
  OBVIOUS
<1>2. more \in Seq(A) /\ Len(more) = Len(s) + 1 /\ Len(s) \in Nat
  BY <1>1, AppendProperties, LenProperties
<1>3. Len(more) # 0
  BY <1>2
<1> QED BY <1>1, <1>2, <1>3, EmptySeq

LEMMA SplitParts ==
  ASSUME NEW tokens \in Seq(Tokens)
  PROVE  \E runs : /\ SplitsBy(runs, tokens)
                   /\ Policy!SplitSegments(tokens) = Policy!Selected(runs[Len(tokens)],
                        { i \in DOMAIN runs[Len(tokens)] : runs[Len(tokens)][i] # <<>> })
<1> DEFINE N == Len(tokens)
           V == Seq(Seq(Tokens)) \ {<<>>}
           round(v, n) == IF tokens[n] = Policy!Operator THEN Append(v, <<>>)
                          ELSE Append(Policy!Front(v), Append(Policy!Last(v), tokens[n]))
           step == [n \in 1 .. N |-> [v \in V |-> round(v, n)]]
           Is(g) == g = [n \in 0 .. N |-> IF n = 0 THEN << <<>> >> ELSE
                           IF tokens[n] = Policy!Operator THEN Append(g[n - 1], <<>>)
                           ELSE Append(Policy!Front(g[n - 1]), Append(Policy!Last(g[n - 1]), tokens[n]))]
<1>1. N \in Nat /\ << <<>> >> \in V
  <2>1. PICK A : A = Seq(Tokens)
    OBVIOUS
  <2>2. <<>> \in A
    BY <2>1, EmptySeq
  <2>3. << <<>> >> \in Seq(A) /\ << <<>> >> # <<>>
    BY <2>2
  <2> QED BY <2>1, <2>3, LenProperties
<1>2. ASSUME NEW n \in 1 .. N, NEW v \in V PROVE round(v, n) \in V
  <2>1. PICK A : A = Seq(Tokens)
    OBVIOUS
  <2>2. v \in Seq(A) /\ v # <<>> /\ <<>> \in A /\ tokens[n] \in Tokens
    BY <2>1, EmptySeq, ElementOfSeq
  <2>3. PICK L \in Nat : L = Len(v) /\ L >= 1
    BY <2>2, LenProperties, EmptySeq
  <2>4. Policy!Last(v) \in A /\ Policy!Front(v) \in Seq(A)
    BY <2>2, <2>3, LastRun
  <2>5. Append(Policy!Last(v), tokens[n]) \in A
    BY <2>1, <2>2, <2>4, AppendProperties
  <2>6. PICK x, y : x = Append(v, <<>>) /\ y = Append(Policy!Front(v), Append(Policy!Last(v), tokens[n]))
    OBVIOUS
  <2>7. x \in Seq(A) /\ x # <<>> /\ y \in Seq(A) /\ y # <<>>
    BY <2>2, <2>4, <2>5, <2>6, OneMore
  <2> QED BY <2>1, <2>6, <2>7
<1>3. step \in [1 .. N -> [V -> V]]
  <2> HIDE DEF round, N, V
  <2> QED BY <1>2
<1>4. PICK g : Unrolls(g, N, V, << <<>> >>, step)
  <2> HIDE DEF step, N, V
  <2> QED BY <1>1, <1>3, Recursion
<1>5. \A n \in 1 .. N : g[n] = round(g[n - 1], n)
  <2> HIDE DEF N, V, round
  <2>1. \A n \in 1 .. N : g[n - 1] \in V
    BY <1>1, <1>4 DEF Unrolls
  <2>2. \A n \in 1 .. N, v \in V : step[n][v] = round(v, n)
    OBVIOUS
  <2> HIDE DEF step
  <2> QED BY <2>1, <2>2, <1>4 DEF Unrolls
<1>6. Is(g)
  <2> HIDE DEF step, N, V
  <2>1. \A n \in 0 .. N : n = 0 \/ n \in 1 .. N
    BY <1>1
  <2>2. \A n \in 0 .. N : g[n] = IF n = 0 THEN << <<>> >> ELSE round(g[n - 1], n)
    <3> HIDE DEF round
    <3> QED BY <1>4, <1>5, <2>1 DEF Unrolls
  <2>3. g = [n \in 0 .. N |-> g[n]]
    BY <1>4 DEF Unrolls
  <2>4. g = [n \in 0 .. N |-> IF n = 0 THEN << <<>> >> ELSE round(g[n - 1], n)]
    <3> HIDE DEF round
    <3> QED BY <2>2, <2>3
  <2> QED BY <2>4
<1> DEFINE runs == CHOOSE h : Is(h)
<1>7. Is(runs)
  <2> HIDE DEF Is
  <2> QED BY <1>6
<1>8. Policy!SplitSegments(tokens) = Policy!Selected(runs[N], { i \in DOMAIN runs[N] : runs[N][i] # <<>> })
  BY DEF Policy!SplitSegments
<1> HIDE DEF runs, step
<1>9. \A n \in 0 .. N : runs[n] = IF n = 0 THEN << <<>> >> ELSE round(runs[n - 1], n)
  <2> HIDE DEF N
  <2> QED BY <1>7
<1>10. 0 \in 0 .. N /\ \A n \in 1 .. N : n \in 0 .. N /\ n # 0
  BY <1>1
<1>11. runs[0] = << <<>> >>
  <2> HIDE DEF N, round
  <2> QED BY <1>9, <1>10
<1>12. \A n \in 1 .. N : runs[n] = round(runs[n - 1], n)
  <2> HIDE DEF N, round
  <2> QED BY <1>9, <1>10, Zenon
<1>13. SplitsBy(runs, tokens)
  BY <1>11, <1>12 DEF SplitsBy
<1> QED BY <1>8, <1>13

LEMMA SamePolicySelected == \A s, at_ : Policy!Selected(s, at_) = Selected(s, at_)
  BY DEF Policy!Selected, Selected

\* split_segments finds the maximal runs without an operator.
LEMMA SplitIsRuns ==
  ASSUME NEW tokens \in Seq(Tokens)
  PROVE  LET segments == Policy!SplitSegments(tokens)
         IN  /\ segments \in Seq(Seq(Tokens))
             /\ \A k \in 1 .. Len(segments) : segments[k] \in Policy!Runs(tokens)
             /\ \A run \in Policy!Runs(tokens) : \E k \in 1 .. Len(segments) : segments[k] = run
<1>1. PICK runs : /\ SplitsBy(runs, tokens)
                  /\ Policy!SplitSegments(tokens) = Policy!Selected(runs[Len(tokens)],
                       { i \in DOMAIN runs[Len(tokens)] : runs[Len(tokens)][i] # <<>> })
  BY SplitParts
<1>a. PICK N \in Nat : N = Len(tokens)
  BY LenProperties
<1>2. PICK all, segments, A :
        N = Len(tokens) /\ all = runs[N] /\ segments = Policy!SplitSegments(tokens) /\ A = Seq(Tokens)
  BY <1>a
<1>3. segments = Selected(all, { i \in DOMAIN all : all[i] # <<>> })
  BY <1>1, <1>2, SamePolicySelected
<1>4. Splits(tokens, all, N)
  BY <1>1, <1>2, SplitKeeps
<1>5. PICK L \in Nat : /\ L = Len(all) /\ L >= 1 /\ all \in Seq(A) /\ DOMAIN all = 1 .. L
                       /\ EndedRuns(tokens, all, N, L - 1) /\ AtHand(tokens, all[L], N)
  BY <1>2, <1>4, LenProperties DEF Splits
<1>6. PICK s \in 1 .. N + 1 : /\ s = 1 \/ tokens[s - 1] = Policy!Operator
                              /\ \A k \in s .. N : tokens[k] # Policy!Operator
                              /\ all[L] = SubSeq(tokens, s, N)
  BY <1>5 DEF AtHand
<1>7. /\ segments \in Seq(A)
      /\ \A k \in 1 .. Len(segments) : \E i \in 1 .. L : all[i] # <<>> /\ segments[k] = all[i]
      /\ \A i \in 1 .. L : all[i] # <<>> => \E k \in 1 .. Len(segments) : segments[k] = all[i]
  <2>1. PICK D : D = { i \in DOMAIN all : all[i] # <<>> }
    OBVIOUS
  <2>2. \A i : i \in D \cap 1 .. Len(all) <=> i \in 1 .. L /\ all[i] # <<>>
    BY <1>5, <2>1
  <2>3. PICK chosen : chosen = Selected(all, D)
    OBVIOUS
  <2>4. chosen \in Seq(A)
    BY <1>5, <2>3, SelectedPicks
  <2>5. /\ \A k \in 1 .. Len(chosen) : \E i \in D \cap 1 .. Len(all) : chosen[k] = all[i]
        /\ \A i \in D \cap 1 .. Len(all) : \E k \in 1 .. Len(chosen) : chosen[k] = all[i]
    <3>1. all \in Seq(A)
      BY <1>5
    <3>2. PICK from : Picks(chosen, all, D \cap 1 .. Len(all), from)
      BY <3>1, <2>3, SelectedPicks DEF Picked
    <3> QED BY <3>2 DEF Picks
  <2>6. segments = chosen
    BY <1>3, <2>1, <2>3
  <2> QED BY <2>2, <2>4, <2>5, <2>6
<1>8. \A run : run \in Policy!Runs(tokens) <=>
        \E i, j \in 1 .. N : /\ IsRun(tokens, i, j) /\ (j = N \/ tokens[j + 1] = Policy!Operator)
                             /\ run = SubSeq(tokens, i, j)
  <2>1. \A i, j \in 1 .. N : (i - 1 = 0 <=> i = 1) /\ i - 1 # N + 1 /\ j + 1 # 0 /\ (j + 1 = N + 1 <=> j = N)
    OBVIOUS
  <2>2. \A i, j \in 1 .. N : <<i, j>> \in (1 .. N) \X (1 .. N) /\ <<i, j>>[1] = i /\ <<i, j>>[2] = j
    OBVIOUS
  <2>3. \A ij \in (1 .. N) \X (1 .. N) : ij[1] \in 1 .. N /\ ij[2] \in 1 .. N
    OBVIOUS
  <2>4. PICK ends : ends = { ij \in (1 .. N) \X (1 .. N) :
              /\ IsRun(tokens, ij[1], ij[2]) /\ (ij[2] = N \/ tokens[ij[2] + 1] = Policy!Operator) }
    OBVIOUS
  <2>5. Policy!Runs(tokens) = { SubSeq(tokens, ij[1], ij[2]) : ij \in ends }
    <3>1. PICK found : found = { ij \in (1 .. Len(tokens)) \X (1 .. Len(tokens)) :
              /\ ij[1] <= ij[2]
              /\ ij[1] - 1 = 0 \/ ij[1] - 1 = Len(tokens) + 1 \/ tokens[ij[1] - 1] = Policy!Operator
              /\ ij[2] + 1 = 0 \/ ij[2] + 1 = Len(tokens) + 1 \/ tokens[ij[2] + 1] = Policy!Operator
              /\ \A k \in ij[1] .. ij[2] : tokens[k] # Policy!Operator }
      OBVIOUS
    <3>2. Policy!Runs(tokens) = { SubSeq(tokens, ij[1], ij[2]) : ij \in found }
      BY <3>1, Zenon DEF Policy!Runs
    <3>3. \A ij : ij \in found <=> ij \in ends
      BY <1>2, <2>1, <2>3, <2>4, <3>1 DEF IsRun
    <3>4. found = ends
      BY <3>3
    <3> QED BY <3>2, <3>4
  <2>6. ASSUME NEW run, run \in Policy!Runs(tokens)
        PROVE  \E i, j \in 1 .. N : /\ IsRun(tokens, i, j) /\ (j = N \/ tokens[j + 1] = Policy!Operator)
                                    /\ run = SubSeq(tokens, i, j)
    <3>1. PICK ij \in ends : run = SubSeq(tokens, ij[1], ij[2])
      BY <2>5, <2>6
    <3> QED BY <2>3, <2>4, <3>1
  <2>7. ASSUME NEW i \in 1 .. N, NEW j \in 1 .. N, IsRun(tokens, i, j), j = N \/ tokens[j + 1] = Policy!Operator
        PROVE  SubSeq(tokens, i, j) \in Policy!Runs(tokens)
    <3>1. PICK ij : ij = <<i, j>>
      OBVIOUS
    <3>2. ij \in ends /\ ij[1] = i /\ ij[2] = j
      BY <2>4, <2>7, <3>1
    <3> QED BY <2>5, <3>2
  <2> QED BY <2>6, <2>7
<1>9. ASSUME NEW i \in 1 .. L, all[i] # <<>> PROVE all[i] \in Policy!Runs(tokens)
  <2>1. CASE i = L
    <3>1. s <= N
      <4>1. SUFFICES ASSUME ~(s <= N) PROVE FALSE
        OBVIOUS
      <4>2. \A k \in s .. N : tokens[k] \in Tokens
        BY <4>1
      <4>3. PICK p : p = SubSeq(tokens, s, N)
        OBVIOUS
      <4>4. p \in Seq(Tokens) /\ Len(p) = 0
        BY <4>1, <4>2, <4>3, SubSeqProperties
      <4> QED BY <1>6, <1>9, <2>1, <4>3, <4>4, EmptySeq
    <3>2. s \in 1 .. N /\ N \in 1 .. N /\ IsRun(tokens, s, N)
      BY <1>6, <3>1 DEF IsRun
    <3> QED BY <1>6, <1>8, <2>1, <3>2
  <2>2. CASE i # L
    <3>1. i \in 1 .. L - 1
      BY <2>2
    <3>2. PICK f, l \in 1 .. N : Ended(tokens, f, l, N) /\ all[i] = SubSeq(tokens, f, l)
      BY <1>5, <1>9, <3>1 DEF EndedRuns
    <3> QED BY <1>8, <3>2 DEF Ended
  <2> QED BY <2>1, <2>2
<1>10. ASSUME NEW i \in 1 .. N, NEW j \in 1 .. N, IsRun(tokens, i, j), j = N \/ tokens[j + 1] = Policy!Operator
       PROVE  \E m \in 1 .. L : all[m] = SubSeq(tokens, i, j)
  <2>1. CASE j = N
    <3>1. i <= s
      <4>1. SUFFICES ASSUME s < i PROVE FALSE
        BY <1>6
      <4>2. i - 1 \in s .. N /\ i # 1
        BY <4>1, <1>6
      <4> QED BY <1>6, <1>10, <4>2 DEF IsRun
    <3>2. s <= i
      <4>1. SUFFICES ASSUME i < s PROVE FALSE
        BY <1>6
      <4>2. s - 1 \in i .. N /\ s # 1
        BY <4>1, <1>6
      <4> QED BY <1>6, <1>10, <2>1, <4>2 DEF IsRun
    <3>3. i = s /\ L \in 1 .. L
      BY <1>5, <1>6, <3>1, <3>2
    <3> QED BY <1>6, <2>1, <3>3
  <2>2. CASE j # N
    <3>1. Ended(tokens, i, j, N)
      <4>1. j + 1 <= N
        BY <2>2
      <4> QED BY <1>10, <2>2, <4>1 DEF Ended
    <3>2. PICK m \in 1 .. L - 1 : all[m] = SubSeq(tokens, i, j)
      BY <1>5, <3>1 DEF EndedRuns
    <3>3. m \in 1 .. L
      OBVIOUS
    <3> QED BY <3>2, <3>3
  <2> QED BY <2>1, <2>2
<1>11. \A i, j \in 1 .. N : IsRun(tokens, i, j) => SubSeq(tokens, i, j) # <<>>
  <2> SUFFICES ASSUME NEW i \in 1 .. N, NEW j \in 1 .. N, IsRun(tokens, i, j) PROVE SubSeq(tokens, i, j) # <<>>
    OBVIOUS
  <2>1. i <= j
    BY DEF IsRun
  <2>2. \A k \in i .. j : tokens[k] \in Tokens
    <3>1. \A k \in i .. j : k \in 1 .. Len(tokens)
      BY <1>2
    <3> QED BY <3>1, ElementOfSeq
  <2>3. PICK p : p = SubSeq(tokens, i, j)
    OBVIOUS
  <2>4. p \in Seq(Tokens) /\ Len(p) = j - i + 1
    BY <2>1, <2>2, <2>3, SubSeqProperties
  <2>5. Len(p) # 0
    BY <2>1, <2>4
  <2> QED BY <2>3, <2>4, <2>5, EmptySeq
<1>12. \A k \in 1 .. Len(segments) : segments[k] \in Policy!Runs(tokens)
  BY <1>7, <1>9
<1>13. \A run \in Policy!Runs(tokens) : \E k \in 1 .. Len(segments) : segments[k] = run
  <2> SUFFICES ASSUME NEW run \in Policy!Runs(tokens) PROVE \E k \in 1 .. Len(segments) : segments[k] = run
    OBVIOUS
  <2>1. PICK i, j \in 1 .. N : /\ IsRun(tokens, i, j) /\ (j = N \/ tokens[j + 1] = Policy!Operator)
                               /\ run = SubSeq(tokens, i, j)
    BY <1>8
  <2>2. run # <<>>
    BY <1>11, <2>1
  <2>3. PICK m \in 1 .. L : all[m] = run
    BY <1>10, <2>1
  <2> QED BY <1>7, <2>2, <2>3
<1> QED BY <1>2, <1>7, <1>12, <1>13

-----------------------------------------------------------------------------
(* The strictest of the longest rules, and of a line's commands.           *)

LEMMA Severities ==
  /\ \A d \in Policy!Decisions : Policy!Severity[d] \in Nat /\ (Policy!Severity[d] <= 0 => d = "allow")
  /\ "allow" \in Policy!Decisions /\ Policy!Severity["allow"] = 0 /\ "prompt" \in Policy!Decisions
<1>1. Policy!Decisions = {"allow", "prompt", "forbidden"}
  BY DEF Policy!Decisions, Policy!Severity
<1>2. Policy!Severity["allow"] = 0 /\ Policy!Severity["prompt"] = 1 /\ Policy!Severity["forbidden"] = 2
  BY DEF Policy!Severity
<1> QED BY <1>1, <1>2

Rules == [pattern : Seq(SUBSET Tokens), decision : Policy!Decisions]

LEMMA RuleTyped ==
  \A r \in Rules : /\ r.decision \in Policy!Decisions /\ Policy!Severity[r.decision] \in Nat
                   /\ Len(r.pattern) \in Nat /\ r # Policy!NoRule
<1> SUFFICES ASSUME NEW r \in Rules
             PROVE  /\ r.decision \in Policy!Decisions /\ Policy!Severity[r.decision] \in Nat
                    /\ Len(r.pattern) \in Nat /\ r # Policy!NoRule
  OBVIOUS
<1>1. r.decision \in Policy!Decisions /\ r.pattern \in Seq(SUBSET Tokens)
  BY DEF Rules
<1>2. r # Policy!NoRule
  <2>1. Policy!NoRule.decision = "none"
    BY DEF Policy!NoRule
  <2>2. "none" \notin Policy!Decisions
    BY DEF Policy!Decisions, Policy!Severity
  <2> QED BY <1>1, <2>1, <2>2
<1> QED BY <1>1, <1>2, Severities, LenProperties

\* Of the first n rules that match, b is a longest and, of those, a strictest; or none matches and b is no rule.
Tops(b, rules, view, n) ==
  /\ b = Policy!NoRule => \A m \in 1 .. n : ~Policy!Matches(rules[m], view)
  /\ b # Policy!NoRule =>
       /\ \E m \in 1 .. n : b = rules[m] /\ Policy!Matches(rules[m], view)
       /\ \A m \in 1 .. n : Policy!Matches(rules[m], view) =>
            \/ Len(rules[m].pattern) < Len(b.pattern)
            \/ /\ Len(rules[m].pattern) = Len(b.pattern)
               /\ Policy!Severity[rules[m].decision] <= Policy!Severity[b.decision]

LEMMA OneMoreTops ==
  ASSUME NEW rules \in Seq(Rules), NEW view, NEW n \in Nat, n + 1 <= Len(rules), NEW b, Tops(b, rules, view, n),
         NEW c, c = IF Policy!Matches(rules[n + 1], view) /\ Policy!Outranks(rules[n + 1], b) THEN rules[n + 1] ELSE b
  PROVE  Tops(c, rules, view, n + 1)
<1>1. Len(rules) \in Nat
  BY LenProperties
<1>2. \A m \in 1 .. n + 1 : /\ rules[m] \in Rules /\ rules[m] # Policy!NoRule
                            /\ Len(rules[m].pattern) \in Nat /\ Policy!Severity[rules[m].decision] \in Nat
  <2>1. \A m \in 1 .. n + 1 : rules[m] \in Rules
    BY <1>1, ElementOfSeq
  <2> QED BY <2>1, RuleTyped
<1>3. PICK r : r = rules[n + 1]
  OBVIOUS
<1>4. \A m : m \in 1 .. n + 1 <=> m \in 1 .. n \/ m = n + 1
  OBVIOUS
<1>5. CASE ~Policy!Matches(r, view)
  <2>1. c = b
    BY <1>3, <1>5
  <2> QED BY <1>3, <1>4, <1>5, <2>1 DEF Tops
<1>6. CASE Policy!Matches(r, view) /\ Policy!Outranks(r, b)
  <2>1. c = r /\ r # Policy!NoRule /\ n + 1 \in 1 .. n + 1
    BY <1>2, <1>3, <1>6
  <2>2. ASSUME NEW m \in 1 .. n + 1, Policy!Matches(rules[m], view)
        PROVE  \/ Len(rules[m].pattern) < Len(r.pattern)
               \/ /\ Len(rules[m].pattern) = Len(r.pattern)
                  /\ Policy!Severity[rules[m].decision] <= Policy!Severity[r.decision]
    <3>1. PICK x, y, k, l : /\ x = Len(rules[m].pattern) /\ y = Policy!Severity[rules[m].decision]
                            /\ k = Len(r.pattern) /\ l = Policy!Severity[r.decision]
      OBVIOUS
    <3>2. x \in Nat /\ y \in Nat /\ k \in Nat /\ l \in Nat
      BY <1>2, <1>3, <2>1, <3>1
    <3>3. CASE m = n + 1
      BY <1>3, <3>1, <3>2, <3>3
    <3>4. CASE m # n + 1
      <4>1. m \in 1 .. n
        BY <1>4, <3>4
      <4>2. b # Policy!NoRule
        BY <2>2, <4>1 DEF Tops
      <4>3. PICK o, e : o = Len(b.pattern) /\ e = Policy!Severity[b.decision]
        OBVIOUS
      <4>4. o \in Nat /\ e \in Nat
        BY <1>2, <4>2, <4>3 DEF Tops
      <4>5. x < o \/ (x = o /\ y <= e)
        BY <2>2, <3>1, <4>1, <4>2, <4>3 DEF Tops
      <4>6. k > o \/ (k = o /\ l > e)
        BY <1>6, <3>1, <4>2, <4>3 DEF Policy!Outranks
      <4> QED BY <3>1, <3>2, <4>4, <4>5, <4>6
    <3> QED BY <3>3, <3>4
  <2> QED BY <1>3, <1>6, <2>1, <2>2 DEF Tops
<1>7. CASE Policy!Matches(r, view) /\ ~Policy!Outranks(r, b)
  <2>1. c = b /\ b # Policy!NoRule
    BY <1>3, <1>7 DEF Policy!Outranks
  <2>2. PICK o, e, k, l : /\ o = Len(b.pattern) /\ e = Policy!Severity[b.decision]
                          /\ k = Len(r.pattern) /\ l = Policy!Severity[r.decision]
    OBVIOUS
  <2>3. o \in Nat /\ e \in Nat /\ k \in Nat /\ l \in Nat
    <3>1. k \in Nat /\ l \in Nat
      BY <1>2, <1>3, <2>2
    <3>2. PICK m \in 1 .. n : b = rules[m]
      BY <2>1 DEF Tops
    <3> QED BY <1>2, <2>2, <3>1, <3>2
  <2>4. k < o \/ (k = o /\ l <= e)
    <3>1. ~(k > o) /\ ~(k = o /\ l > e)
      BY <1>7, <2>2 DEF Policy!Outranks
    <3> QED BY <2>3, <3>1
  <2>5. \E m \in 1 .. n + 1 : b = rules[m] /\ Policy!Matches(rules[m], view)
    BY <1>4, <2>1 DEF Tops
  <2>6. ASSUME NEW m \in 1 .. n + 1, Policy!Matches(rules[m], view)
        PROVE  \/ Len(rules[m].pattern) < Len(b.pattern)
               \/ /\ Len(rules[m].pattern) = Len(b.pattern)
                  /\ Policy!Severity[rules[m].decision] <= Policy!Severity[b.decision]
    <3>1. CASE m \in 1 .. n
      BY <2>1, <2>6, <3>1 DEF Tops
    <3>2. CASE m = n + 1
      BY <1>3, <2>2, <2>4, <3>2
    <3> QED BY <1>4, <3>1, <3>2
  <2> QED BY <2>1, <2>5, <2>6 DEF Tops
<1> QED BY <1>5, <1>6, <1>7

LEMMA BestTops ==
  ASSUME NEW rules \in Seq(Rules), NEW view
  PROVE  Tops(Policy!Best(rules, view), rules, view, Len(rules))
<1>1. PICK N \in Nat : N = Len(rules)
  BY LenProperties
<1>2. PICK best : Ranks(best, rules, view)
  BY BestParts
<1> DEFINE S == { n \in Nat : n <= N => Tops(best[n], rules, view, n) }
<1>3. 0 \in S
  <2>1. best[0] = Policy!NoRule
    BY <1>2 DEF Ranks
  <2> QED BY <2>1 DEF Tops
<1>4. ASSUME NEW n \in Nat, n \in S PROVE n + 1 \in S
  <2>1. SUFFICES ASSUME n + 1 <= N PROVE Tops(best[n + 1], rules, view, n + 1)
    OBVIOUS
  <2>2. n + 1 \in 1 .. N /\ (n + 1) - 1 = n /\ Tops(best[n], rules, view, n)
    BY <1>4, <2>1
  <2>3. best[n + 1] = IF Policy!Matches(rules[n + 1], view) /\ Policy!Outranks(rules[n + 1], best[n]) THEN rules[n + 1]
                      ELSE best[n]
    BY <1>1, <1>2, <2>2 DEF Ranks
  <2> QED BY <1>1, <2>1, <2>2, <2>3, OneMoreTops
<1>5. \A n \in Nat : n \in S
  <2> HIDE DEF S
  <2>1. S \in SUBSET Nat
    BY DEF S
  <2> QED BY <1>3, <1>4, <2>1, Induct
<1>6. best[N] = Policy!Best(rules, view)
  BY <1>1, <1>2 DEF Ranks
<1> QED BY <1>1, <1>5, <1>6

\* b decides what the verdicts are about.
Strictest(verdicts, b) ==
  /\ b = Policy!NoRule => verdicts = {}
  /\ b # Policy!NoRule =>
       /\ b.decision \in verdicts /\ b.decision \in Policy!Decisions
       /\ \A d \in verdicts : Policy!Severity[d] <= Policy!Severity[b.decision]

LEMMA BestIsStrictest ==
  ASSUME NEW rules \in Seq(Rules), policy.rules = rules, NEW view
  PROVE  Strictest(Policy!LongestVerdicts(view), Policy!Best(rules, view))
<1>1. PICK N \in Nat : N = Len(rules) /\ DOMAIN rules = 1 .. N
  BY LenProperties
<1>2. PICK b : b = Policy!Best(rules, view) /\ Tops(b, rules, view, N)
  BY <1>1, BestTops
<1>3. PICK hits : hits = { r \in { rules[m] : m \in 1 .. N } : Policy!Matches(r, view) }
  OBVIOUS
<1>4. PICK longest : longest = { h \in hits : \A o \in hits : Len(o.pattern) <= Len(h.pattern) }
  OBVIOUS
<1>5. Policy!LongestVerdicts(view) = { r.decision : r \in longest }
  BY <1>1, <1>3, <1>4 DEF Policy!LongestVerdicts, Policy!ToSet
<1>6. \A r \in hits : r \in Rules /\ \E m \in 1 .. N : r = rules[m] /\ Policy!Matches(rules[m], view)
  BY <1>1, <1>3, ElementOfSeq
<1>7. CASE b = Policy!NoRule
  <2>1. hits = {}
    BY <1>2, <1>6, <1>7 DEF Tops
  <2> QED BY <1>2, <1>4, <1>5, <1>7, <2>1 DEF Strictest
<1>8. CASE b # Policy!NoRule
  <2>1. b \in hits
    BY <1>2, <1>3, <1>8 DEF Tops
  <2>2. b \in Rules /\ b.decision \in Policy!Decisions
    BY <1>6, <2>1, RuleTyped
  <2>3. \A r \in hits : \/ Len(r.pattern) < Len(b.pattern)
                        \/ /\ Len(r.pattern) = Len(b.pattern)
                           /\ Policy!Severity[r.decision] <= Policy!Severity[b.decision]
    BY <1>2, <1>6, <1>8 DEF Tops
  <2>4. \A r \in hits : Len(r.pattern) \in Nat
    BY <1>6, RuleTyped
  <2>5. b \in longest
    BY <1>4, <2>1, <2>3, <2>4
  <2>6. \A r \in longest : Policy!Severity[r.decision] <= Policy!Severity[b.decision]
    <3> SUFFICES ASSUME NEW r \in longest PROVE Policy!Severity[r.decision] <= Policy!Severity[b.decision]
      OBVIOUS
    <3>1. r \in hits /\ Len(b.pattern) <= Len(r.pattern)
      BY <1>4, <2>1
    <3>2. PICK x \in Nat, y \in Nat : x = Len(r.pattern) /\ y = Len(b.pattern)
      BY <2>1, <2>4, <3>1
    <3>3. ~(x < y)
      BY <3>1, <3>2
    <3> QED BY <2>3, <3>1, <3>2, <3>3
  <2> QED BY <1>2, <1>5, <1>8, <2>2, <2>5, <2>6 DEF Strictest
<1> QED BY <1>7, <1>8

LEMMA SaysIsDecided ==
  ASSUME NEW pol, NEW s, NEW views, views = Policy!TokenViews(pol, s), DOMAIN views \in SUBSET Nat,
         NEW best, best = [i \in DOMAIN views |-> Policy!Best(pol.rules, views[i])]
  PROVE  Says(views, best) = Policy!DecideTokens(pol, s)
<1>1. PICK hits : hits = { i \in DOMAIN views : best[i] # Policy!NoRule }
  OBVIOUS
<1>2. hits = { i \in DOMAIN views : Policy!Best(pol.rules, views[i]) # Policy!NoRule }
  BY <1>1
<1>3. hits # {} => /\ Min(hits) \in DOMAIN views
                   /\ best[Min(hits)] = Policy!Best(pol.rules, views[Min(hits)])
  <2>1. hits # {} => Min(hits) \in hits
    BY <1>1, MinIsLeast
  <2> QED BY <1>1, <2>1
<1>4. Policy!DecideTokens(pol, s) = IF hits = {} THEN "prompt" ELSE Policy!Best(pol.rules, views[Min(hits)]).decision
  BY <1>2, SamePolicyMin DEF Policy!DecideTokens
<1>5. Says(views, best) = IF hits = {} THEN "prompt" ELSE best[Min(hits)].decision
  BY <1>1 DEF Says
<1> QED BY <1>3, <1>4, <1>5

LEMMA OneView ==
  ASSUME NEW pol, NEW s, NEW b, b = Policy!Best(pol.rules, s), Policy!TokenViews(pol, s) = <<s>>
  PROVE  Policy!DecideTokens(pol, s) = IF b # Policy!NoRule THEN b.decision ELSE "prompt"
<1>1. PICK views : views = Policy!TokenViews(pol, s)
  OBVIOUS
<1>2. DOMAIN views = {1} /\ views[1] = s /\ {1} \in SUBSET Nat
  BY <1>1
<1>3. PICK best : best = [i \in DOMAIN views |-> Policy!Best(pol.rules, views[i])]
  OBVIOUS
<1>4. best[1] = b
  BY <1>2, <1>3
<1>5. Says(views, best) = Policy!DecideTokens(pol, s)
  BY <1>1, <1>2, <1>3, SaysIsDecided
<1>6. PICK hits : hits = { i \in DOMAIN views : best[i] # Policy!NoRule }
  OBVIOUS
<1>7. Says(views, best) = IF hits = {} THEN "prompt" ELSE best[Min(hits)].decision
  BY <1>6 DEF Says
<1>8. CASE b = Policy!NoRule
  <2>1. hits = {}
    BY <1>2, <1>4, <1>6, <1>8
  <2> QED BY <1>5, <1>7, <1>8, <2>1
<1>9. CASE b # Policy!NoRule
  <2>1. 1 \in hits /\ hits \in SUBSET Nat /\ \A i \in hits : i = 1
    BY <1>2, <1>4, <1>6, <1>9
  <2>2. Min(hits) = 1
    BY <2>1, MinIsLeast
  <2> QED BY <1>4, <1>5, <1>7, <1>9, <2>1, <2>2
<1> QED BY <1>8, <1>9

LEMMA TwoViews ==
  ASSUME NEW pol, NEW s, NEW bare, Policy!TokenViews(pol, s) = <<s, bare>>,
         NEW b, b = Policy!Best(pol.rules, s), NEW c, c = Policy!Best(pol.rules, bare)
  PROVE  Policy!DecideTokens(pol, s) =
           IF b # Policy!NoRule THEN b.decision ELSE IF c # Policy!NoRule THEN c.decision ELSE "prompt"
<1>1. PICK views : views = Policy!TokenViews(pol, s)
  OBVIOUS
<1>2. DOMAIN views = {1, 2} /\ views[1] = s /\ views[2] = bare /\ {1, 2} \in SUBSET Nat
  BY <1>1
<1>3. PICK best : best = [i \in DOMAIN views |-> Policy!Best(pol.rules, views[i])]
  OBVIOUS
<1>4. best[1] = b /\ best[2] = c
  BY <1>2, <1>3
<1>5. Says(views, best) = Policy!DecideTokens(pol, s)
  BY <1>1, <1>2, <1>3, SaysIsDecided
<1>6. PICK hits : hits = { i \in DOMAIN views : best[i] # Policy!NoRule }
  OBVIOUS
<1>7. Says(views, best) = IF hits = {} THEN "prompt" ELSE best[Min(hits)].decision
  BY <1>6 DEF Says
<1>8. /\ hits \in SUBSET Nat /\ \A i \in hits : i = 1 \/ i = 2
      /\ (1 \in hits <=> b # Policy!NoRule) /\ (2 \in hits <=> c # Policy!NoRule)
  BY <1>2, <1>4, <1>6
<1>9. hits # {} => Min(hits) \in hits /\ \A i \in hits : Min(hits) <= i
  BY <1>8, MinIsLeast
<1>10. CASE b # Policy!NoRule
  <2>a. 1 \in hits
    BY <1>8, <1>10
  <2>b. PICK m : m = Min(hits)
    OBVIOUS
  <2>c. m \in hits /\ m <= 1
    BY <1>9, <2>a, <2>b
  <2>1. hits # {} /\ Min(hits) = 1
    <3>1. m = 1 \/ m = 2
      BY <1>8, <2>c
    <3> QED BY <2>a, <2>b, <2>c, <3>1
  <2> QED BY <1>4, <1>5, <1>7, <1>10, <2>1
<1>11. CASE b = Policy!NoRule /\ c # Policy!NoRule
  <2>1. hits # {} /\ Min(hits) = 2
    BY <1>8, <1>9, <1>11
  <2> QED BY <1>4, <1>5, <1>7, <1>11, <2>1
<1>12. CASE b = Policy!NoRule /\ c = Policy!NoRule
  <2>1. hits = {}
    BY <1>8, <1>12
  <2> QED BY <1>5, <1>7, <1>12, <2>1
<1> QED BY <1>10, <1>11, <1>12

\* It may be called by a basename.
Named(s) ==
  /\ s[1] \in Paths
  /\ Basename(s[1]) \in DOMAIN policy.host => s[1] \in policy.host[Basename(s[1])]

\* What is decided about a command is permitted, and nothing stricter is.
Ruled(s, d) ==
  /\ d \in Policy!Decisions /\ Policy!Permits(s, d)
  /\ \A e \in Policy!Decisions : Policy!Permits(s, e) => Policy!Severity[e] <= Policy!Severity[d]

LEMMA PermitsStrictest ==
  ASSUME NEW s, NEW verdicts,
         verdicts = IF Policy!LongestVerdicts(s) = {} /\ Named(s) THEN Policy!LongestVerdicts(Policy!BareName(s))
                    ELSE Policy!LongestVerdicts(s),
         NEW b, Strictest(verdicts, b),
         NEW d, d = IF b # Policy!NoRule THEN b.decision ELSE "prompt"
  PROVE  Ruled(s, d)
<1>1. \A e : Policy!Permits(s, e) <=> \/ verdicts = {} /\ e = "prompt"
                                      \/ e \in verdicts /\ \A o \in verdicts : Policy!Severity[o] <= Policy!Severity[e]
  BY DEF Policy!Permits, Named
<1>2. CASE b = Policy!NoRule
  BY <1>1, <1>2, Severities DEF Strictest, Ruled
<1>3. CASE b # Policy!NoRule
  BY <1>1, <1>3 DEF Strictest, Ruled
<1> QED BY <1>2, <1>3

LEMMA DecisionRuled ==
  ASSUME NEW rules \in Seq(Rules), policy.rules = rules, NEW s
  PROVE  Ruled(s, Policy!DecideTokens(policy, s))
<1>1. PICK b, c, bare, d : /\ b = Policy!Best(rules, s) /\ bare = Policy!BareName(s)
                           /\ c = Policy!Best(rules, bare) /\ d = Policy!DecideTokens(policy, s)
  OBVIOUS
<1>2. Strictest(Policy!LongestVerdicts(s), b) /\ Strictest(Policy!LongestVerdicts(bare), c)
  BY <1>1, BestIsStrictest
<1>3. Named(s) => Policy!TokenViews(policy, s) = <<s, bare>>
  BY <1>1 DEF Named, Policy!TokenViews, Policy!Vouched, Policy!BareName
<1>4. ~Named(s) => Policy!TokenViews(policy, s) = <<s>>
  BY DEF Named, Policy!TokenViews, Policy!Vouched
<1>5. CASE Named(s)
  <2>1. d = IF b # Policy!NoRule THEN b.decision ELSE IF c # Policy!NoRule THEN c.decision ELSE "prompt"
    BY <1>1, <1>3, <1>5, TwoViews
  <2>2. CASE b # Policy!NoRule
    <3>1. Policy!LongestVerdicts(s) # {}
      BY <1>2, <2>2 DEF Strictest
    <3> QED BY <1>1, <1>2, <2>1, <2>2, <3>1, PermitsStrictest
  <2>3. CASE b = Policy!NoRule
    <3>1. Policy!LongestVerdicts(s) = {}
      BY <1>2, <2>3 DEF Strictest
    <3>2. d = IF c # Policy!NoRule THEN c.decision ELSE "prompt"
      BY <2>1, <2>3
    <3> QED BY <1>1, <1>2, <1>5, <3>1, <3>2, PermitsStrictest
  <2> QED BY <2>2, <2>3
<1>6. CASE ~Named(s)
  <2>1. d = IF b # Policy!NoRule THEN b.decision ELSE "prompt"
    BY <1>1, <1>4, <1>6, OneView
  <2> QED BY <1>1, <1>2, <1>6, <2>1, PermitsStrictest
<1> QED BY <1>5, <1>6

\* The verdict after every command.
Worsens(worst, decisions) ==
  /\ worst[0] = "allow"
  /\ \A n \in 1 .. Len(decisions) : worst[n] = Policy!Worse(worst[n - 1], decisions[n])

LEMMA WorstIsStrictest ==
  ASSUME NEW decisions \in Seq(Policy!Decisions), NEW worst, Worsens(worst, decisions),
         NEW N \in Nat, N = Len(decisions), N >= 1
  PROVE  /\ \E k \in 1 .. N : worst[N] = decisions[k]
         /\ \A k \in 1 .. N : Policy!Severity[decisions[k]] <= Policy!Severity[worst[N]]
<1> DEFINE Kept(n) == /\ worst[n] \in Policy!Decisions
                      /\ n = 0 => worst[n] = "allow"
                      /\ n # 0 => \E k \in 1 .. n : worst[n] = decisions[k]
                      /\ \A k \in 1 .. n : Policy!Severity[decisions[k]] <= Policy!Severity[worst[n]]
           S == { n \in Nat : n <= N => Kept(n) }
<1>1. \A k \in 1 .. N : decisions[k] \in Policy!Decisions
  BY ElementOfSeq
<1>2. 0 \in S
  BY Severities DEF Worsens
<1>3. ASSUME NEW n \in Nat, n \in S PROVE n + 1 \in S
  <2>1. SUFFICES ASSUME n + 1 <= N PROVE Kept(n + 1)
    OBVIOUS
  <2>2. n + 1 \in 1 .. N /\ (n + 1) - 1 = n /\ Kept(n)
    BY <1>3, <2>1
  <2>3. PICK v, d, w : v = worst[n] /\ d = decisions[n + 1] /\ w = worst[n + 1]
    OBVIOUS
  <2>4. w = Policy!Worse(v, d) /\ v \in Policy!Decisions /\ d \in Policy!Decisions
    BY <1>1, <2>2, <2>3 DEF Worsens
  <2>5. w = IF Policy!Severity[d] > Policy!Severity[v] THEN d ELSE v
    BY <2>4 DEF Policy!Worse
  <2>6. PICK x \in Nat, y \in Nat : x = Policy!Severity[v] /\ y = Policy!Severity[d]
    BY <2>4, Severities
  <2>7. Policy!Severity[v] <= Policy!Severity[w] /\ Policy!Severity[d] <= Policy!Severity[w] /\ w \in Policy!Decisions
    BY <2>4, <2>5, <2>6
  <2>8. \A k : k \in 1 .. n + 1 <=> k \in 1 .. n \/ k = n + 1
    OBVIOUS
  <2>9. \A k \in 1 .. n + 1 : Policy!Severity[decisions[k]] <= Policy!Severity[w]
    <3>1. \A k \in 1 .. n : Policy!Severity[decisions[k]] <= Policy!Severity[w]
      <4> SUFFICES ASSUME NEW k \in 1 .. n PROVE Policy!Severity[decisions[k]] <= Policy!Severity[w]
        OBVIOUS
      <4>1. k \in 1 .. N
        BY <2>1
      <4>2. PICK z \in Nat : z = Policy!Severity[decisions[k]]
        BY <1>1, <4>1, Severities
      <4>3. z <= Policy!Severity[v]
        BY <2>2, <2>3, <4>2
      <4>4. PICK u \in Nat : u = Policy!Severity[w]
        BY <2>7, Severities
      <4> QED BY <2>6, <2>7, <4>2, <4>3, <4>4
    <3> QED BY <2>3, <2>7, <2>8, <3>1
  <2>10. \E k \in 1 .. n + 1 : w = decisions[k]
    <3>1. CASE w = d
      BY <2>3, <2>8, <3>1
    <3>2. CASE w # d
      <4>1. w = v /\ ~(y > x)
        BY <2>5, <2>6, <3>2
      <4>2. n # 0
        <5>1. SUFFICES ASSUME n = 0 PROVE FALSE
          OBVIOUS
        <5>2. v = "allow"
          BY <2>2, <2>3, <5>1
        <5>3. d = "allow"
          BY <2>4, <2>6, <4>1, <5>2, Severities
        <5> QED BY <3>2, <4>1, <5>2, <5>3
      <4>3. PICK k \in 1 .. n : v = decisions[k]
        BY <2>2, <2>3, <4>2
      <4> QED BY <2>8, <4>1, <4>3
    <3> QED BY <3>1, <3>2
  <2>11. n + 1 # 0
    OBVIOUS
  <2> QED BY <2>3, <2>7, <2>9, <2>10, <2>11
<1>4. \A n \in Nat : n \in S
  <2> HIDE DEF S
  <2>1. S \in SUBSET Nat
    BY DEF S
  <2> QED BY <1>2, <1>3, <2>1, Induct
<1>5. Kept(N)
  BY <1>4
<1> QED BY <1>5

LEMMA WorseIsDecision ==
  \A v, d \in Policy!Decisions : Policy!Worse(v, d) \in Policy!Decisions
  BY DEF Policy!Worse

LEMMA EvaluateParts ==
  ASSUME NEW pol, NEW tokens, NEW legible,
         NEW segments, segments = IF legible THEN Policy!SplitSegments(tokens) ELSE <<>>, segments # <<>>,
         NEW N \in Nat, N = Len(segments),
         NEW decisions \in Seq(Policy!Decisions), Len(decisions) = N,
         \A n \in 1 .. N : decisions[n] = Policy!DecideTokens(pol, segments[n])
  PROVE  \E worst : Worsens(worst, decisions) /\ Policy!Evaluate(pol, tokens, legible) = worst[N]
<1> DEFINE V == Policy!Decisions
           step == [n \in 1 .. N |-> [v \in V |-> Policy!Worse(v, decisions[n])]]
           Is(g) == g = [n \in 0 .. N |-> IF n = 0 THEN "allow"
                                          ELSE Policy!Worse(g[n - 1], Policy!DecideTokens(pol, segments[n]))]
<1>1. "allow" \in V /\ \A n \in 1 .. N : decisions[n] \in V
  BY ElementOfSeq, Severities
<1>2. step \in [1 .. N -> [V -> V]]
  <2>1. \A n \in 1 .. N, v \in V : Policy!Worse(v, decisions[n]) \in V
    BY <1>1, WorseIsDecision
  <2> HIDE DEF V
  <2> QED BY <2>1
<1>3. PICK g : Unrolls(g, N, V, "allow", step)
  <2> HIDE DEF step, V
  <2> QED BY <1>1, <1>2, Recursion
<1>4. \A n \in 1 .. N : g[n] = Policy!Worse(g[n - 1], decisions[n])
  <2> HIDE DEF V
  <2>1. \A n \in 1 .. N : g[n - 1] \in V
    BY <1>1, <1>3 DEF Unrolls
  <2>2. \A n \in 1 .. N, v \in V : step[n][v] = Policy!Worse(v, decisions[n])
    OBVIOUS
  <2> HIDE DEF step
  <2> QED BY <2>1, <2>2, <1>3 DEF Unrolls
<1>5. Is(g)
  <2> HIDE DEF step, V
  <2>1. \A n \in 0 .. N : n = 0 \/ n \in 1 .. N
    OBVIOUS
  <2>2. \A n \in 0 .. N : g[n] = IF n = 0 THEN "allow" ELSE Policy!Worse(g[n - 1], Policy!DecideTokens(pol, segments[n]))
    BY <1>3, <1>4, <2>1 DEF Unrolls
  <2>3. g = [n \in 0 .. N |-> g[n]]
    BY <1>3 DEF Unrolls
  <2>4. g = [n \in 0 .. N |-> IF n = 0 THEN "allow" ELSE Policy!Worse(g[n - 1], Policy!DecideTokens(pol, segments[n]))]
    BY <2>2, <2>3
  <2> QED BY <2>4
<1> DEFINE worst == CHOOSE h : Is(h)
<1>6. Is(worst)
  <2> HIDE DEF Is
  <2> QED BY <1>5
<1>7. Policy!Evaluate(pol, tokens, legible) = worst[N]
  BY DEF Policy!Evaluate
<1> HIDE DEF worst, step, V
<1>8. \A n \in 0 .. N :
        worst[n] = IF n = 0 THEN "allow" ELSE Policy!Worse(worst[n - 1], Policy!DecideTokens(pol, segments[n]))
  BY <1>6
<1>9. 0 \in 0 .. N /\ \A n \in 1 .. N : n \in 0 .. N /\ n # 0
  OBVIOUS
<1>10. worst[0] = "allow"
  BY <1>8, <1>9
<1>11. \A n \in 1 .. N : worst[n] = Policy!Worse(worst[n - 1], decisions[n])
  BY <1>8, <1>9, Zenon
<1>12. Worsens(worst, decisions)
  BY <1>10, <1>11 DEF Worsens
<1> QED BY <1>7, <1>12

PolicyKept ==
  /\ line \in Seq(Tokens)
  /\ Policy!Running => \E rules \in Seq(Rules) : \E host : policy = [rules |-> rules, host |-> host]

LEMMA StrictestOfLine == PolicyKept => VerdictIsStrictest
<1> SUFFICES ASSUME PolicyKept, Policy!Running PROVE VerdictIsStrictest
  BY DEF VerdictIsStrictest, Policy!VerdictIsStrictest
<1>1. PICK rules \in Seq(Rules) : policy.rules = rules
  BY DEF PolicyKept
<1>2. PICK found, runs, verdict : /\ found = IF readable THEN Policy!SplitSegments(line) ELSE <<>>
                                  /\ runs = IF readable THEN Policy!Runs(line) ELSE {}
                                  /\ verdict = Policy!Verdict
  OBVIOUS
<1>3. line \in Seq(Tokens) /\ verdict = Policy!Evaluate(policy, line, readable)
  BY <1>2 DEF PolicyKept, Policy!Verdict
<1>4. /\ found \in Seq(Seq(Tokens))
      /\ \A k \in 1 .. Len(found) : found[k] \in runs
      /\ \A run \in runs : \E k \in 1 .. Len(found) : found[k] = run
  <2>1. CASE readable
    <3>1. found = Policy!SplitSegments(line) /\ runs = Policy!Runs(line)
      BY <1>2, <2>1
    <3>2. /\ Policy!SplitSegments(line) \in Seq(Seq(Tokens))
          /\ \A k \in 1 .. Len(Policy!SplitSegments(line)) : Policy!SplitSegments(line)[k] \in Policy!Runs(line)
          /\ \A run \in Policy!Runs(line) :
               \E k \in 1 .. Len(Policy!SplitSegments(line)) : Policy!SplitSegments(line)[k] = run
      BY <1>3, SplitIsRuns, Zenon
    <3> QED BY <3>1, <3>2, Zenon
  <2>2. CASE ~readable
    <3>1. PICK A : A = Seq(Tokens)
      OBVIOUS
    <3>2. found = <<>> /\ runs = {}
      BY <1>2, <2>2
    <3>3. found \in Seq(A) /\ Len(found) = 0
      BY <3>2, EmptySeq
    <3> QED BY <3>1, <3>2, <3>3
  <2> QED BY <2>1, <2>2
<1>5. PICK N \in Nat : N = Len(found)
  BY <1>4, LenProperties
<1>6. CASE found = <<>>
  <2>1. runs = {}
    <3>1. Len(found) = 0
      BY <1>6, EmptySeq
    <3> QED BY <1>4, <3>1
  <2>2. verdict = "prompt"
    BY <1>2, <1>3, <1>6 DEF Policy!Evaluate
  <2> QED BY <1>2, <2>1, <2>2 DEF VerdictIsStrictest, Policy!VerdictIsStrictest
<1>7. CASE found # <<>>
  <2>1. N >= 1
    <3>1. N # 0
      BY <1>4, <1>5, <1>7, EmptySeq
    <3> QED BY <3>1
  <2>2. PICK decisions : decisions = [k \in 1 .. N |-> Policy!DecideTokens(policy, found[k])]
    OBVIOUS
  <2>3. \A k \in 1 .. N : decisions[k] = Policy!DecideTokens(policy, found[k]) /\ Ruled(found[k], decisions[k])
    <3>1. \A k \in 1 .. N : decisions[k] = Policy!DecideTokens(policy, found[k])
      BY <2>2
    <3> QED BY <1>1, <3>1, DecisionRuled
  <2>4. decisions \in Seq(Policy!Decisions) /\ Len(decisions) = N
    <3>1. \A k \in 1 .. N : decisions[k] \in Policy!Decisions
      BY <2>3 DEF Ruled
    <3>2. decisions \in [1 .. N -> Policy!Decisions]
      BY <2>2, <3>1
    <3> QED BY <3>2
  <2>5. PICK worst : Worsens(worst, decisions) /\ Policy!Evaluate(policy, line, readable) = worst[N]
    BY <1>2, <1>5, <1>7, <2>3, <2>4, EvaluateParts
  <2>6. /\ \E k \in 1 .. N : verdict = decisions[k]
        /\ \A k \in 1 .. N : Policy!Severity[decisions[k]] <= Policy!Severity[verdict]
    <3>1. Worsens(worst, decisions) /\ N = Len(decisions) /\ N >= 1
      BY <2>1, <2>4, <2>5
    <3>2. /\ \E k \in 1 .. N : worst[N] = decisions[k]
          /\ \A k \in 1 .. N : Policy!Severity[decisions[k]] <= Policy!Severity[worst[N]]
      BY <2>4, <3>1, WorstIsStrictest
    <3>3. verdict = worst[N]
      BY <1>3, <2>5
    <3> QED BY <3>2, <3>3
  <2>7. runs # {}
    <3>1. 1 \in 1 .. N
      BY <2>1
    <3> QED BY <1>4, <1>5, <3>1
  <2>8. \E s \in runs : Policy!Permits(s, verdict)
    <3>1. PICK k \in 1 .. N : verdict = decisions[k]
      BY <2>6
    <3> QED BY <1>4, <1>5, <2>3, <3>1 DEF Ruled
  <2>9. ASSUME NEW s \in runs, NEW d \in Policy!Decisions, Policy!Permits(s, d)
        PROVE  Policy!Severity[d] <= Policy!Severity[verdict]
    <3>1. PICK k \in 1 .. N : found[k] = s
      BY <1>4, <1>5
    <3>2. PICK e : e = decisions[k] /\ e \in Policy!Decisions /\ Policy!Severity[d] <= Policy!Severity[e]
      BY <2>3, <2>9, <3>1 DEF Ruled
    <3>3. verdict \in Policy!Decisions
      BY <2>3, <2>6 DEF Ruled
    <3>4. PICK x \in Nat, y \in Nat, z \in Nat :
            x = Policy!Severity[d] /\ y = Policy!Severity[e] /\ z = Policy!Severity[verdict]
      BY <3>2, <3>3, Severities
    <3>5. x <= y /\ y <= z
      BY <2>6, <3>2, <3>4
    <3> QED BY <3>4, <3>5
  <2> QED BY <1>2, <2>7, <2>8, <2>9 DEF VerdictIsStrictest, Policy!VerdictIsStrictest
<1> QED BY <1>6, <1>7

-----------------------------------------------------------------------------
(* "Always allow this."                                                    *)

LEMMA AllowedPolicy ==
  ASSUME NEW segment, Policy!AddPrefixRule(segment), NEW rules, NEW host, policy = [rules |-> rules, host |-> host]
  PROVE  policy' = [rules |-> Append(rules, Policy!AllowRule(segment)), host |-> host]
<1>1. PICK longer : longer = Append(rules, Policy!AllowRule(segment))
  OBVIOUS
<1>2. policy' = [policy EXCEPT !.rules = longer]
  <2>1. policy.rules = rules
    OBVIOUS
  <2> QED BY <1>1, <2>1 DEF Policy!AddPrefixRule
<1>3. PICK p, q : p = policy /\ q = policy'
  OBVIOUS
<1>4. p = [rules |-> rules, host |-> host] /\ q = [p EXCEPT !.rules = longer]
  BY <1>2, <1>3
<1>5. q = [rules |-> longer, host |-> host]
  BY <1>4
<1> QED BY <1>1, <1>3, <1>5

LEMMA AllowLoosens ==
  ASSUME PolicyKept, NEW segment \in Policy!Runs(line), Policy!AddPrefixRule(segment)
  PROVE  Policy!LoosensItsOwn(segment)
<1>1. PICK rules, host : policy = [rules |-> rules, host |-> host] /\ rules \in Seq(Rules)
  BY DEF PolicyKept, Policy!AddPrefixRule
<1>2. PICK rule : rule = Policy!AllowRule(segment)
  OBVIOUS
<1>3. PICK more : more = [rules |-> Append(rules, rule), host |-> host]
  OBVIOUS
<1>4. policy' = more
  BY <1>1, <1>2, <1>3, AllowedPolicy
<1>5. rule # Policy!NoRule /\ rule.decision = "allow"
  BY <1>2 DEF Policy!AllowRule, Policy!NoRule
<1>6. segment \in Seq(Tokens)
  BY RunOfTokens DEF PolicyKept
<1>7. ASSUME NEW s \in Policy!Commands
      PROVE  LET old == Policy!DecideTokens(policy, s)
                 new == Policy!DecideTokens(more, s)
             IN  new = old \/ (new = "allow" /\ Policy!Concerns(segment, s))
  <2>1. PICK views : views = Policy!TokenViews(policy, s)
    OBVIOUS
  <2>2. Policy!TokenViews(more, s) = views
    BY <1>1, <1>3, <2>1 DEF Policy!TokenViews, Policy!Vouched
  <2>3. s \in Seq(Policy!Words) /\ s # <<>> /\ (views = <<s>> \/ (s[1] \in Paths /\ views = <<s, Policy!BareName(s)>>))
    BY <2>1, Views
  <2>4. PICK T : T = Tokens \cup {Basename(s[1])}
    OBVIOUS
  <2>5. segment \in Seq(T) /\ s \in Seq(T) /\ Policy!BareName(s) \in Seq(T)
    <3>1. Policy!Words \subseteq T /\ Tokens \subseteq T /\ Policy!Words \cup {Basename(s[1])} \subseteq T
      BY <2>4 DEF Tokens
    <3>2. Policy!BareName(s) \in Seq(Policy!Words \cup {Basename(s[1])})
      BY <2>3, BareIsSeq
    <3> QED BY <1>6, <2>3, <3>1, <3>2, SeqMonotonic
  <2>6. DOMAIN views \in SUBSET Nat /\ \A i \in DOMAIN views : views[i] = s \/ (s[1] \in Paths /\ views[i] = Policy!BareName(s))
    BY <2>3
  <2>7. PICK old, new : /\ old = [i \in DOMAIN views |-> Policy!Best(rules, views[i])]
                        /\ new = [i \in DOMAIN views |-> Policy!Best(Append(rules, rule), views[i])]
    OBVIOUS
  <2>8. PICK Begun : Begun = { i \in DOMAIN views : Policy!Begins(views[i], segment) }
    OBVIOUS
  <2>9. \A i \in DOMAIN views : new[i] = old[i] \/ (new[i] = rule /\ i \in Begun)
    <3> TAKE i \in DOMAIN views
    <3>1. PICK view : view = views[i]
      OBVIOUS
    <3>2. view \in Seq(T)
      BY <2>5, <2>6, <3>1
    <3>3. \/ Policy!Best(Append(rules, rule), view) = Policy!Best(rules, view)
          \/ Policy!Best(Append(rules, rule), view) = rule /\ Policy!Begins(view, segment)
      BY <1>1, <1>2, <2>5, <3>2, ViewKeepsOrBegins
    <3> QED BY <2>7, <2>8, <3>1, <3>3
  <2>10. Says(views, new) = Says(views, old) \/ (Says(views, new) = "allow" /\ \E i \in DOMAIN views : i \in Begun)
    BY <1>5, <2>6, <2>9, DecisionKept
  <2>11. ASSUME NEW i \in DOMAIN views, i \in Begun PROVE Policy!Concerns(segment, s)
    BY <2>6, <2>8, <2>11 DEF Policy!Concerns
  <2>12. Says(views, old) = Policy!DecideTokens(policy, s)
    BY <1>1, <2>1, <2>6, <2>7, SaysIsDecided
  <2>13. Says(views, new) = Policy!DecideTokens(more, s)
    BY <1>3, <2>2, <2>6, <2>7, SaysIsDecided
  <2> QED BY <2>10, <2>11, <2>12, <2>13
<1> QED BY <1>4, <1>7 DEF Policy!LoosensItsOwn

LEMMA RuleBuilt ==
  ASSUME NEW d, Policy!Buildable(d), d.pattern \in Seq(SUBSET Policy!Words)
  PROVE  Policy!BuildRule(d) \in Rules
<1>1. d.pattern \in Seq(SUBSET Tokens)
  <2>1. SUBSET Policy!Words \subseteq SUBSET Tokens
    BY DEF Tokens
  <2> QED BY <2>1, SeqMonotonic
<1>2. PICK e : e = IF d.decision = "default" THEN "allow" ELSE d.decision
  OBVIOUS
<1>3. e \in Policy!Decisions
  BY <1>2, Severities DEF Policy!Buildable
<1> QED BY <1>1, <1>2, <1>3 DEF Policy!BuildRule, Rules

\* What is loaded is a sequence of rules.
LEMMA LoadedIsKept ==
  ASSUME Policy!RuleFilesTyped, NEW file \in RuleFiles, NEW pol, pol = Policy!ParsePolicy(file)
  PROVE  pol = Policy!PolicyError \/ \E rules \in Seq(Rules) : \E host : pol = [rules |-> rules, host |-> host]
<1>1. PICK D : /\ file \in Seq(D)
               /\ \A d \in D : d.kind = "prefix_rule" => d.pattern \in Seq(SUBSET Policy!Words)
  BY DEF Policy!RuleFilesTyped
<1>2. PICK chosen : chosen = { i \in DOMAIN file : file[i].kind = "prefix_rule" }
  OBVIOUS
<1>3. PICK picked : picked = Selected(file, chosen)
  OBVIOUS
<1>4. PICK N \in Nat : N = Len(picked) /\ DOMAIN picked = 1 .. N
  BY <1>1, <1>3, SelectedPicks, LenProperties
<1>5. \A n \in 1 .. N : picked[n].pattern \in Seq(SUBSET Policy!Words)
  <2>1. PICK from : Picks(picked, file, chosen \cap 1 .. Len(file), from)
    BY <1>1, <1>3, SelectedPicks DEF Picked
  <2>2. \A n \in 1 .. N : \E i \in chosen \cap 1 .. Len(file) : picked[n] = file[i]
    BY <1>4, <2>1 DEF Picks
  <2>3. \A i \in chosen \cap 1 .. Len(file) : file[i] \in D /\ file[i].kind = "prefix_rule"
    BY <1>1, <1>2, ElementOfSeq
  <2> QED BY <1>1, <2>2, <2>3
<1>6. PICK rules : rules = [i \in DOMAIN picked |-> Policy!BuildRule(picked[i])]
  OBVIOUS
<1>7. \/ pol = Policy!PolicyError
      \/ /\ \A d \in Policy!ToSet(picked) : Policy!Buildable(d)
         /\ \E host : pol = [rules |-> rules, host |-> host]
  <2>1. picked = Policy!Selected(file, { i \in DOMAIN file : file[i].kind = "prefix_rule" })
    BY <1>2, <1>3, SamePolicySelected
  <2> QED BY <1>6, <2>1 DEF Policy!ParsePolicy
<1>8. CASE \A d \in Policy!ToSet(picked) : Policy!Buildable(d)
  <2>1. \A n \in 1 .. N : Policy!Buildable(picked[n])
    BY <1>4, <1>8 DEF Policy!ToSet
  <2>2. \A n \in 1 .. N : Policy!BuildRule(picked[n]) \in Rules
    BY <1>5, <2>1, RuleBuilt
  <2>3. rules \in [1 .. N -> Rules]
    BY <1>4, <1>6, <2>2
  <2>4. rules \in Seq(Rules)
    BY <2>3
  <2> QED BY <1>7, <2>4
<1> QED BY <1>7, <1>8

LEMMA PolicyInit == ASSUME Policy!RuleFilesTyped PROVE LibrariesInit => PolicyKept
<1>1. <<>> \in Seq(Tokens)
  BY EmptySeq
<1>2. NoPolicy => PolicyKept
  BY <1>1 DEF NoPolicy, PolicyKept, Policy!Running
<1>3. Policy!Init => PolicyKept
  <2> SUFFICES ASSUME Policy!Init PROVE PolicyKept
    OBVIOUS
  <2>1. PICK file \in RuleFiles : policy = Policy!ParsePolicy(file)
    BY DEF Policy!Init
  <2>2. policy = Policy!PolicyError \/ \E rules \in Seq(Rules) : \E host : policy = [rules |-> rules, host |-> host]
    BY <2>1, LoadedIsKept
  <2>3. line = <<>>
    BY DEF Policy!Init
  <2> QED BY <1>1, <2>2, <2>3 DEF PolicyKept, Policy!Running
<1> QED BY <1>2, <1>3 DEF LibrariesInit

LEMMA AllowRuleTyped ==
  ASSUME NEW segment \in Seq(Tokens)
  PROVE  Policy!AllowRule(segment) \in Rules
<1>1. PICK n \in Nat : n = Len(segment) /\ DOMAIN segment = 1 .. n
  BY LenProperties
<1>2. PICK pattern : pattern = [i \in 1 .. n |-> {segment[i]}]
  OBVIOUS
<1>3. \A i \in 1 .. n : {segment[i]} \in SUBSET Tokens
  BY <1>1, ElementOfSeq
<1>4. pattern \in [1 .. n -> SUBSET Tokens]
  BY <1>2, <1>3
<1>5. pattern \in Seq(SUBSET Tokens)
  BY <1>4
<1> QED BY <1>1, <1>2, <1>5, Severities DEF Policy!AllowRule, Rules

LEMMA PolicyNext ==
  PolicyKept /\ [LibrariesNext]_<<chunksVars, policyVars, tree, hooksVars>> => PolicyKept'
<1> SUFFICES ASSUME PolicyKept, [LibrariesNext]_<<chunksVars, policyVars, tree, hooksVars>> PROVE PolicyKept'
  OBVIOUS
<1>1. CASE UNCHANGED policyVars
  BY <1>1 DEF policyVars, PolicyKept, Policy!Running
<1>2. ASSUME NEW t \in Policy!Words \cup {Policy!Operator}, Policy!TypeToken(t) PROVE PolicyKept'
  <2>1. Append(line, t) \in Seq(Tokens)
    BY <1>2, AppendProperties DEF PolicyKept, Tokens
  <2> QED BY <1>2, <2>1 DEF Policy!TypeToken, PolicyKept, Policy!Running
<1>3. CASE Policy!Obscure
  BY <1>3 DEF Policy!Obscure, PolicyKept, Policy!Running
<1>4. ASSUME NEW segment \in Policy!ToSet(Policy!SplitSegments(line)), Policy!AddPrefixRule(segment) PROVE PolicyKept'
  <2>1. PICK rules, host : policy = [rules |-> rules, host |-> host] /\ rules \in Seq(Rules)
    BY <1>4 DEF PolicyKept, Policy!AddPrefixRule
  <2>2. segment \in Seq(Tokens)
    <3>1. PICK found, A : found = Policy!SplitSegments(line) /\ A = Seq(Tokens)
      OBVIOUS
    <3>2. found \in Seq(A)
      BY <3>1, SplitIsRuns, Zenon DEF PolicyKept
    <3>3. PICK k \in DOMAIN found : segment = found[k]
      BY <1>4, <3>1 DEF Policy!ToSet
    <3> QED BY <3>1, <3>2, <3>3, ElementOfSeq, LenProperties
  <2>3. PICK rule, longer : rule = Policy!AllowRule(segment) /\ longer = Append(rules, rule)
    OBVIOUS
  <2>4. longer \in Seq(Rules)
    BY <2>1, <2>2, <2>3, AllowRuleTyped, AppendProperties
  <2>5. policy' = [rules |-> longer, host |-> host]
    BY <1>4, <2>1, <2>3, AllowedPolicy
  <2>6. \E rules_ \in Seq(Rules) : \E host_ : policy' = [rules |-> rules_, host |-> host_]
    BY <2>4, <2>5
  <2>7. line' = line
    BY <1>4 DEF Policy!AddPrefixRule
  <2> QED BY <2>6, <2>7 DEF PolicyKept
<1>5. CASE Policy!NewLine
  BY <1>5, EmptySeq DEF Policy!NewLine, PolicyKept, Policy!Running
<1> QED BY <1>1, <1>2, <1>3, <1>4, <1>5 DEF LibrariesNext, Policy!Next, NoPolicy

LEMMA PolicyInductive ==
  ASSUME Policy!RuleFilesTyped PROVE LibrariesSpec => []PolicyKept
<1>0. Policy!RuleFilesTyped
  OBVIOUS
<1>1. LibrariesInit => PolicyKept
  BY <1>0, PolicyInit
<1>2. PolicyKept /\ [LibrariesNext]_<<chunksVars, policyVars, tree, hooksVars>> => PolicyKept'
  BY PolicyNext
<1> QED BY <1>1, <1>2, PTL DEF LibrariesSpec

\* For any rule files and any lines: the verdict of a line is the strictest of its commands', and that of a command
\* the strictest of the longest rules that match it, whatever the order of the rules and however the runs are cut
\* (evaluate, decide_tokens, split_segments).
THEOREM StrictestVerdict == ASSUME Policy!RuleFilesTyped PROVE LibrariesSpec => []VerdictIsStrictest
<1>0. Policy!RuleFilesTyped
  OBVIOUS
<1>1. LibrariesSpec => []PolicyKept
  BY <1>0, PolicyInductive
<1>2. PolicyKept => VerdictIsStrictest
  BY StrictestOfLine
<1> QED BY <1>1, <1>2, PTL

\* For any rule files and any lines: "always allow this" changes the verdict of no command but those that begin
\* with the words that were allowed, and changes it to "allow" (add_prefix_rule, decide_tokens).
THEOREM AmendmentLoosens == ASSUME Policy!RuleFilesTyped PROVE LibrariesSpec => AmendmentLoosensItsOwn
<1>0. Policy!RuleFilesTyped
  OBVIOUS
<1>1. LibrariesSpec => []PolicyKept
  BY <1>0, PolicyInductive
<1>2. PolicyKept /\ [LibrariesNext]_<<chunksVars, policyVars, tree, hooksVars>> =>
        [\A segment \in Policy!Runs(line) : Policy!AddPrefixRule(segment) => Policy!LoosensItsOwn(segment)]_(Policy!vars)
  BY AllowLoosens
<1> QED BY <1>1, <1>2, PTL DEF LibrariesSpec, AmendmentLoosensItsOwn, Policy!AmendmentLoosensItsOwn

\* The instance has this operator from the module it is from.
LEMMA SameSelection == \A s, at_ : Turn!Selected(s, at_) = Selected(s, at_)
  BY DEF Turn!Selected, Selected

-----------------------------------------------------------------------------
(* What is configured and what is looked up are hooks.                     *)

Hooks == Seq(Turn!Hook)

LEMMA CommandsKept == ASSUME NEW group \in Turn!Group PROVE Turn!Commands(group) \in Turn!Group
<1> DEFINE chosen == { i \in DOMAIN group.hooks : group.hooks[i] # Turn!NotAHook }
<1>1. group.hooks \in Seq(Turn!Hook)
  BY DEF Turn!Group
<1>2. PICK kept : kept = Selected(group.hooks, chosen)
  OBVIOUS
<1>3. kept \in Seq(Turn!Hook)
  <2> HIDE DEF chosen
  <2> QED BY <1>1, <1>2, SelectedPicks
<1>4. Turn!Commands(group) = [group EXCEPT !.hooks = kept]
  BY <1>2, SameSelection DEF Turn!Commands
<1> QED BY <1>3, <1>4 DEF Turn!Group

LEMMA GroupsKept == ASSUME NEW groups \in Seq(Turn!Group) PROVE Turn!Kept(groups) \in Seq(Turn!Group)
<1> DEFINE commands == [i \in DOMAIN groups |-> Turn!Commands(groups[i])]
           chosen   == { i \in DOMAIN groups : commands[i].hooks # <<>> }
<1>1. DOMAIN groups = 1 .. Len(groups) /\ Len(groups) \in Nat
  BY LenProperties
<1>2. \A i \in DOMAIN groups : Turn!Commands(groups[i]) \in Turn!Group
  BY <1>1, ElementOfSeq, CommandsKept
<1>3. commands \in Seq(Turn!Group)
  BY <1>1, <1>2
<1>4. Turn!Kept(groups) = Selected(commands, chosen)
  BY SameSelection DEF Turn!Kept
<1> HIDE DEF commands, chosen
<1> QED BY <1>3, <1>4, SelectedPicks

\* Of the groups of an event, those that match.
LEMMA MatchingHooks == ASSUME NEW groups \in Seq(Turn!Group), NEW subject PROVE Turn!Matching(groups, subject) \in Hooks
<1> DEFINE N == Len(groups)
           of(n) == IF Turn!GroupMatches(groups[n], subject) THEN groups[n].hooks ELSE <<>>
           step == [n \in 1 .. N |-> [v \in Hooks |-> v \o of(n)]]
           Is(g) == g = [n \in 0 .. N |-> IF n = 0 THEN <<>> ELSE g[n - 1] \o of(n)]
<1>1. N \in Nat /\ <<>> \in Hooks
  BY EmptySeq DEF Hooks
<1>2. \A n \in 1 .. N, v \in Hooks : v \o of(n) \in Hooks
  <2> TAKE n \in 1 .. N, v \in Hooks
  <2>1. groups[n] \in Turn!Group
    BY ElementOfSeq
  <2>2. of(n) \in Seq(Turn!Hook)
    BY <2>1, EmptySeq DEF Turn!Group
  <2> HIDE DEF of
  <2> QED BY <2>2, ConcatProperties DEF Hooks
<1>3. step \in [1 .. N -> [Hooks -> Hooks]]
  <2> HIDE DEF of, N
  <2> QED BY <1>2
<1>4. PICK g : Unrolls(g, N, Hooks, <<>>, step)
  <2> HIDE DEF step, N
  <2> QED BY <1>1, <1>3, Recursion
<1>5. \A n \in 1 .. N : g[n] = g[n - 1] \o of(n)
  <2> HIDE DEF N, of
  <2>1. \A n \in 1 .. N : g[n - 1] \in Hooks
    BY <1>1, <1>4 DEF Unrolls
  <2>2. \A n \in 1 .. N, v \in Hooks : step[n][v] = v \o of(n)
    OBVIOUS
  <2> HIDE DEF step
  <2> QED BY <2>1, <2>2, <1>4 DEF Unrolls
<1>6. Is(g)
  <2> HIDE DEF step, N, of
  <2>1. \A n \in 0 .. N : n = 0 \/ n \in 1 .. N
    BY <1>1
  <2>2. \A n \in 0 .. N : g[n] = IF n = 0 THEN <<>> ELSE g[n - 1] \o of(n)
    BY <1>4, <1>5, <2>1 DEF Unrolls
  <2>3. g = [n \in 0 .. N |-> g[n]]
    BY <1>4 DEF Unrolls
  <2> QED BY <2>2, <2>3
<1> DEFINE part == CHOOSE h : Is(h)
<1>7. Is(part)
  <2> HIDE DEF Is
  <2> QED BY <1>6
<1>8. Turn!Matching(groups, subject) = part[N]
  BY DEF Turn!Matching
<1> HIDE DEF part, step, of
<1>9. part[0] = <<>> /\ \A n \in 1 .. N : part[n] = part[n - 1] \o of(n)
  <2> HIDE DEF N
  <2>1. \A n \in 0 .. N : part[n] = IF n = 0 THEN <<>> ELSE part[n - 1] \o of(n)
    BY <1>7
  <2>2. 0 \in 0 .. N /\ \A n \in 1 .. N : n \in 0 .. N /\ n # 0
    BY <1>1
  <2>3. part[0] = <<>>
    BY <2>1, <2>2
  <2> QED BY <2>1, <2>2, <2>3, Zenon
<1> DEFINE S == { n \in Nat : n <= N => part[n] \in Hooks }
<1>10. 0 \in S
  BY <1>1, <1>9
<1>11. ASSUME NEW n \in Nat, n \in S PROVE n + 1 \in S
  <2>1. SUFFICES ASSUME n + 1 <= N PROVE part[n + 1] \in Hooks
    OBVIOUS
  <2>2. n + 1 \in 1 .. N /\ (n + 1) - 1 = n /\ part[n] \in Hooks
    BY <1>1, <1>11, <2>1
  <2> HIDE DEF N
  <2> QED BY <2>2, <1>2, <1>9
<1>12. N \in S
  <2> HIDE DEF S, N
  <2>1. S \in SUBSET Nat
    BY DEF S
  <2> QED BY <1>1, <1>10, <1>11, <2>1, Induct
<1> QED BY <1>8, <1>12

\* Of what is loaded, too.
FileTyped(file) == \A event \in DOMAIN file.hooks : file.hooks[event] \in Seq(Turn!Group)
Looks(cfg) == \A event, subject : Turn!ForEvent(cfg, event, subject) \in Hooks

LEMMA Loaded == ASSUME NEW file, FileTyped(file) PROVE Looks(Turn!Load(file))
<1> SUFFICES ASSUME NEW event, NEW subject PROVE Turn!ForEvent(Turn!Load(file), event, subject) \in Hooks
  BY DEF Looks
<1> DEFINE known == DOMAIN file.hooks \cap Turn!Events
           events == { e \in known : Turn!Kept(file.hooks[e]) # <<>> }
           groups == [e \in events |-> Turn!Kept(file.hooks[e])]
<1>1. Turn!Load(file).groups = groups
  BY DEF Turn!Load
<1>2. CASE event \in DOMAIN Turn!Load(file).groups
  <2>1. file.hooks[event] \in Seq(Turn!Group) /\ groups[event] = Turn!Kept(file.hooks[event])
    BY <1>1, <1>2 DEF FileTyped
  <2>2. Turn!Load(file).groups[event] \in Seq(Turn!Group)
    <3> HIDE DEF groups
    <3> QED BY <1>1, <2>1, GroupsKept
  <2> QED BY <1>2, <2>2, MatchingHooks DEF Turn!ForEvent
<1>3. CASE event \notin DOMAIN Turn!Load(file).groups
  BY <1>3, EmptySeq DEF Turn!ForEvent, Hooks
<1> QED BY <1>2, <1>3

-----------------------------------------------------------------------------
(* What became of the calls, and what was asked about them.                *)

\* The names that are there.  (That a string which is written out is one, the provers have to be told.)
Names ==
  STRING \cup {"SessionStart", "SessionEnd", "UserPromptSubmit", "PreToolUse", "PostToolUse", "Stop", "over", "raised",
               "startup", "prompt", "", "context", "refused", "deny", "ask", "ran", "system"}

Lines   == [kind : Names, what : Names, size : Nat]
Sayings == Turn!Answers \cup {[says |-> "malformed"]}
Rounds  == [event : Names, subject : Names, due : Hooks, said : Seq(Sayings)]

Final == {"deny", "ask", "ran"}
FatesOf(t) == Selected(t, { i \in DOMAIN t : t[i].kind \in Final })
CallsOf(a) == Selected(a, { i \in DOMAIN a : a[i].event = "PreToolUse" })

LEMMA FatesGrow ==
  ASSUME NEW t \in Seq(Lines), NEW x \in Lines
  PROVE  /\ FatesOf(t) \in Seq(Lines)
         /\ FatesOf(Append(t, x)) = IF x.kind \in Final THEN Append(FatesOf(t), x) ELSE FatesOf(t)
<1>1. PICK g : g = Append(t, x)
  OBVIOUS
<1>2. /\ Len(t) \in Nat /\ DOMAIN t = 1 .. Len(t) /\ DOMAIN g = 1 .. Len(t) + 1
      /\ g[Len(t) + 1] = x /\ \A i \in 1 .. Len(t) : g[i] = t[i]
  BY <1>1, LenProperties, AppendProperties
<1>3. PICK old, new : /\ old = { i \in DOMAIN t : t[i].kind \in Final }
                      /\ new = { i \in DOMAIN g : g[i].kind \in Final }
  OBVIOUS
<1>4. new \cap 1 .. Len(t) = old \cap 1 .. Len(t)
  BY <1>2, <1>3
<1>5. Len(t) + 1 \in new <=> x.kind \in Final
  BY <1>2, <1>3
<1>6. Selected(t, old) \in Seq(Lines) /\ Selected(g, new) = IF Len(t) + 1 \in new THEN Append(Selected(t, old), x) ELSE Selected(t, old)
  BY <1>1, <1>4, SelectedAppend
<1> QED BY <1>1, <1>3, <1>5, <1>6 DEF FatesOf

LEMMA CallsGrow ==
  ASSUME NEW a \in Seq(Rounds), NEW x \in Rounds
  PROVE  /\ CallsOf(a) \in Seq(Rounds)
         /\ CallsOf(Append(a, x)) = IF x.event = "PreToolUse" THEN Append(CallsOf(a), x) ELSE CallsOf(a)
<1>1. PICK g : g = Append(a, x)
  OBVIOUS
<1>2. /\ Len(a) \in Nat /\ DOMAIN a = 1 .. Len(a) /\ DOMAIN g = 1 .. Len(a) + 1
      /\ g[Len(a) + 1] = x /\ \A i \in 1 .. Len(a) : g[i] = a[i]
  BY <1>1, LenProperties, AppendProperties
<1>3. PICK old, new : /\ old = { i \in DOMAIN a : a[i].event = "PreToolUse" }
                      /\ new = { i \in DOMAIN g : g[i].event = "PreToolUse" }
  OBVIOUS
<1>4. new \cap 1 .. Len(a) = old \cap 1 .. Len(a)
  BY <1>2, <1>3
<1>5. Len(a) + 1 \in new <=> x.event = "PreToolUse"
  BY <1>2, <1>3
<1>6. Selected(a, old) \in Seq(Rounds) /\ Selected(g, new) = IF Len(a) + 1 \in new THEN Append(Selected(a, old), x) ELSE Selected(a, old)
  BY <1>1, <1>4, SelectedAppend
<1> QED BY <1>1, <1>3, <1>5, <1>6 DEF CallsOf

\* Lines about something else leave the fates alone.
Quiet(u) == \A i \in 1 .. Len(u) : u[i].kind \notin Final

LEMMA QuietLines ==
  ASSUME NEW t \in Seq(Lines), NEW u \in Seq(Lines), Quiet(u)
  PROVE  t \o u \in Seq(Lines) /\ FatesOf(t \o u) = FatesOf(t)
<1> DEFINE S == { n \in Nat : \A v \in Seq(Lines) : Len(v) = n /\ Quiet(v) => FatesOf(t \o v) = FatesOf(t) }
<1>1. 0 \in S
  <2> SUFFICES ASSUME NEW v \in Seq(Lines), Len(v) = 0 PROVE FatesOf(t \o v) = FatesOf(t)
    OBVIOUS
  <2>1. v = <<>>
    BY EmptySeq
  <2>2. t \o v = t
    BY <2>1, ConcatEmptySeq
  <2> QED BY <2>2
<1>2. ASSUME NEW n \in Nat, n \in S PROVE n + 1 \in S
  <2> SUFFICES ASSUME NEW v \in Seq(Lines), Len(v) = n + 1, Quiet(v) PROVE FatesOf(t \o v) = FatesOf(t)
    OBVIOUS
  <2>1. v # <<>>
    BY EmptySeq
  <2>2. PICK w \in Seq(Lines), x \in Lines : v = Append(w, x)
    BY <2>1, SequenceEmptyOrAppend
  <2>3. Len(w) = n /\ Quiet(w) /\ x.kind \notin Final
    <3>1. /\ Len(w) \in Nat /\ Len(v) = Len(w) + 1 /\ v[Len(w) + 1] = x
          /\ \A i \in 1 .. Len(w) : v[i] = w[i]
      BY <2>2, AppendProperties, LenProperties
    <3>2. Len(w) = n
      BY <3>1
    <3> QED BY <3>1, <3>2 DEF Quiet
  <2>4. t \o v = Append(t \o w, x) /\ t \o w \in Seq(Lines)
    <3>1. v = w \o <<x>> /\ <<x>> \in Seq(Lines) /\ t \o w \in Seq(Lines)
      BY <2>2, AppendIsConcat, ConcatProperties
    <3>2. (t \o w) \o <<x>> = t \o (w \o <<x>>)
      BY <3>1, ConcatAssociative
    <3> QED BY <3>1, <3>2, AppendIsConcat
  <2>5. FatesOf(t \o w) = FatesOf(t)
    BY <1>2, <2>3
  <2> QED BY <2>3, <2>4, <2>5, FatesGrow
<1>3. \A n \in Nat : n \in S
  <2> HIDE DEF S
  <2>1. S \in SUBSET Nat
    BY DEF S
  <2> QED BY <1>1, <1>2, <2>1, Induct
<1>4. Len(u) \in Nat
  BY LenProperties
<1> QED BY <1>3, <1>4, ConcatProperties

-----------------------------------------------------------------------------
(* One program answers.                                                    *)

Denials(said) == { j \in 1 .. Len(said) : Turn!Denies(said[j]) }
Asking(said)  == \E j \in 1 .. Len(said) : said[j].says = "ask"

LEMMA Opinion ==
  ASSUME NEW hook \in Turn!Hook, NEW answer \in Turn!Answers
  PROVE  LET r == Turn!RunOne(hook, answer)
         IN  /\ r.context \in Nat /\ r.message \in BOOLEAN /\ r.warning \in BOOLEAN
             /\ r.decision = "deny" <=> Turn!Denies(answer)
             /\ r.decision = "ask" <=> answer.says = "ask"
<1>1. hook.limit \in Nat
  BY DEF Turn!Hook, Turn!NotAHook
<1> DEFINE r == Turn!RunOne(hook, answer)
<1>2. CASE answer \in Turn!Opinions
  <2>1. /\ answer.says \in {"allow", "deny", "ask", "nothing", "nonsense"}
        /\ answer.context \in Int /\ 0 <= answer.context /\ answer.message \in BOOLEAN
    BY <1>2 DEF Turn!Opinions
  <2>2. /\ r.decision = IF answer.says \in {"allow", "deny", "ask"} THEN answer.says ELSE "none"
        /\ r.context = IF answer.context > hook.limit THEN hook.limit ELSE answer.context
        /\ r.message = answer.message /\ r.warning = FALSE
    BY <1>2, Zenon DEF Turn!RunOne, Turn!Result
  <2> HIDE DEF r
  <2>3. r.context \in Nat
    BY <1>1, <2>1, <2>2
  <2>4. (r.decision = "deny" <=> Turn!Denies(answer)) /\ (r.decision = "ask" <=> answer.says = "ask")
    BY <2>1, <2>2 DEF Turn!Denies
  <2> QED BY <2>1, <2>2, <2>3, <2>4 DEF r
<1>3. CASE answer \notin Turn!Opinions
  <2>1. answer.says \in {"exit 2", "exit 1", "timed out", "not started", "garbage", "malformed"}
    BY <1>3 DEF Turn!Answers
  <2> QED BY <1>3, <2>1 DEF Turn!RunOne, Turn!Result, Turn!NoOpinion, Turn!Denies
<1> QED BY <1>2, <1>3

\* What one more answer does to what has been said.
LEMMA SaidGrows ==
  ASSUME NEW said \in Seq(Sayings), NEW answer \in Sayings
  PROVE  LET more == Append(said, answer)
         IN  /\ more \in Seq(Sayings) /\ Len(more) = Len(said) + 1
             /\ Denials(more) = IF Turn!Denies(answer) THEN Denials(said) \cup {Len(said) + 1} ELSE Denials(said)
             /\ Asking(more) <=> Asking(said) \/ answer.says = "ask"
<1> DEFINE more == Append(said, answer)
<1>1. /\ Len(said) \in Nat /\ more \in Seq(Sayings) /\ Len(more) = Len(said) + 1
      /\ more[Len(said) + 1] = answer /\ \A j \in 1 .. Len(said) : more[j] = said[j]
  BY LenProperties, AppendProperties
<1> HIDE DEF more
<1>2. \A j : j \in 1 .. Len(said) + 1 <=> j \in 1 .. Len(said) \/ j = Len(said) + 1
  BY <1>1
<1>3. Denials(more) = IF Turn!Denies(answer) THEN Denials(said) \cup {Len(said) + 1} ELSE Denials(said)
  BY <1>1, <1>2 DEF Denials
<1>4. Asking(more) <=> Asking(said) \/ answer.says = "ask"
  BY <1>1, <1>2 DEF Asking
<1> QED BY <1>1, <1>3, <1>4 DEF more

\* It is said to the event at hand.
LEMMA NoteLast ==
  ASSUME NEW f \in Seq(Rounds), NEW l \in Rounds, NEW answer \in Sayings, answers = Append(f, l), Turn!Note(answer)
  PROVE  LET m == [l EXCEPT !.said = Append(l.said, answer)]
         IN  m \in Rounds /\ answers' = Append(f, m)
<1>1. PICK said, m : said = Append(l.said, answer) /\ m = [l EXCEPT !.said = said]
  OBVIOUS
<1>2. m \in Rounds
  BY <1>1, SaidGrows DEF Rounds
<1>3. PICK s, n : s = answers /\ n = Len(f) + 1
  OBVIOUS
<1>4. /\ s \in Seq(Rounds) /\ Len(f) \in Nat /\ n \in Nat /\ Len(s) = n /\ n \in 1 .. Len(s) /\ s[n] = l
      /\ \A i \in 1 .. Len(f) : s[i] = f[i]
  BY <1>3, AppendProperties, LenProperties
<1>5. answers' = [s EXCEPT ![n] = m]
  BY <1>1, <1>3, <1>4 DEF Turn!Note
<1>6. /\ Append(f, m) \in Seq(Rounds) /\ Len(Append(f, m)) = Len(f) + 1 /\ Append(f, m)[Len(f) + 1] = m
      /\ \A i \in 1 .. Len(f) : Append(f, m)[i] = f[i]
  BY <1>2, AppendProperties
<1>7. PICK e : e = [s EXCEPT ![n] = m]
  OBVIOUS
<1>8. e \in Seq(Rounds) /\ Len(e) = n /\ \A j \in 1 .. n : e[j] = IF j = n THEN m ELSE s[j]
  BY <1>2, <1>4, <1>7, ExceptSeq
<1>9. \A j \in 1 .. n : e[j] = Append(f, m)[j]
  <2>1. \A j \in 1 .. n : j # n => j \in 1 .. Len(f)
    BY <1>3, <1>4
  <2> QED BY <1>3, <1>4, <1>6, <1>8, <2>1
<1>10. e = Append(f, m)
  BY <1>3, <1>6, <1>8, <1>9, SeqEqual
<1> QED BY <1>1, <1>2, <1>5, <1>7, <1>10

-----------------------------------------------------------------------------
(* The invariant.                                                          *)

\* What the answers to a round make of its call.
FateOf(a) == IF Denials(a.said) # {} THEN "deny" ELSE IF Asking(a.said) THEN "ask" ELSE "ran"

Suits(a, fate) ==
  /\ fate.what = a.subject /\ fate.kind = FateOf(a)
  /\ Denials(a.said) \subseteq {Len(a.said)}
  /\ Denials(a.said) = {} => Len(a.said) = Len(a.due)

AllSuit(calls, fates) == Len(calls) = Len(fates) /\ \A i \in 1 .. Len(calls) : Suits(calls[i], fates[i])
Settled(a, t) == AllSuit(CallsOf(a), FatesOf(t))

\* The round a with the hooks q to come: the outcome so far is what has been said.
Standing(a, q, decision) ==
  \/ /\ Denials(a.said) = {} /\ Len(a.said) + Len(q) = Len(a.due)
     /\ decision = IF Asking(a.said) THEN "ask" ELSE "allow"
  \/ Denials(a.said) = {Len(a.said)} /\ q = <<>> /\ decision = "deny"

HooksTyped ==
  /\ Looks(config) /\ at \in Names /\ queue \in Hooks /\ plan \in Seq(STRING)
  /\ outcome.contexts \in Seq(Nat) /\ outcome.messages \in Nat
  /\ transcript \in Seq(Lines) /\ answers \in Seq(Rounds)

\* The rounds f are over, and l is answered.
Going(f, l) ==
  /\ answers = Append(f, l) /\ l.event = at /\ Standing(l, queue, outcome.decision) /\ Settled(f, transcript)
  /\ at = "PreToolUse" => plan # <<>> /\ l.subject = Head(plan)
  /\ at = "PostToolUse" => plan # <<>>

Broken(f, l) == answers = Append(f, l) /\ Settled(f, transcript)

EndsKnown ==
  /\ at \in {"over", "raised"} => queue = <<>>
  /\ at = "over" => Settled(answers, transcript)
  /\ at = "raised" => \E f \in Seq(Rounds), l \in Rounds : Broken(f, l)
  /\ at \notin {"over", "raised"} => \E f \in Seq(Rounds), l \in Rounds : Going(f, l)

HooksInv == HooksTyped /\ EndsKnown

-----------------------------------------------------------------------------
(* One more round, one more fate.                                          *)

LEMMA Settles ==
  ASSUME NEW f \in Seq(Rounds), NEW l \in Rounds, NEW t \in Seq(Lines), NEW x \in Lines, Settled(f, t),
         l.event = "PreToolUse", Suits(l, x)
  PROVE  Settled(Append(f, l), Append(t, x))
<1>1. PICK calls, fates : calls = CallsOf(f) /\ fates = FatesOf(t)
  OBVIOUS
<1>2. /\ calls \in Seq(Rounds) /\ CallsOf(Append(f, l)) = Append(calls, l)
      /\ fates \in Seq(Lines) /\ FatesOf(Append(t, x)) = Append(fates, x)
  <2>1. x.kind \in Final
    BY DEF Suits, FateOf, Final
  <2> QED BY <1>1, <2>1, CallsGrow, FatesGrow
<1>3. /\ Len(calls) \in Nat /\ Len(Append(calls, l)) = Len(calls) + 1 /\ Append(calls, l)[Len(calls) + 1] = l
      /\ \A i \in 1 .. Len(calls) : Append(calls, l)[i] = calls[i]
  BY <1>2, AppendProperties, LenProperties
<1>4. /\ Len(fates) \in Nat /\ Len(Append(fates, x)) = Len(fates) + 1 /\ Append(fates, x)[Len(fates) + 1] = x
      /\ \A i \in 1 .. Len(fates) : Append(fates, x)[i] = fates[i]
  BY <1>2, AppendProperties, LenProperties
<1>5. Len(calls) = Len(fates) /\ \A i \in 1 .. Len(calls) : Suits(calls[i], fates[i])
  BY <1>1 DEF Settled, AllSuit
<1>6. \A i \in 1 .. Len(calls) + 1 : Suits(Append(calls, l)[i], Append(fates, x)[i])
  <2> TAKE i \in 1 .. Len(calls) + 1
  <2>1. CASE i = Len(calls) + 1
    BY <1>3, <1>4, <1>5, <2>1
  <2>2. CASE i # Len(calls) + 1
    <3>1. i \in 1 .. Len(calls)
      BY <1>3, <2>2
    <3> QED BY <1>3, <1>4, <1>5, <3>1
  <2> QED BY <2>1, <2>2
<1> QED BY <1>2, <1>3, <1>4, <1>5, <1>6 DEF Settled, AllSuit

LEMMA SettlesOther ==
  ASSUME NEW f \in Seq(Rounds), NEW l \in Rounds, NEW t, Settled(f, t), l.event # "PreToolUse"
  PROVE  Settled(Append(f, l), t)
<1>1. CallsOf(Append(f, l)) = CallsOf(f)
  BY CallsGrow
<1> QED BY <1>1 DEF Settled

\* The next event begins.
LEMMA Fires ==
  ASSUME HooksTyped, NEW event \in Names, NEW subject \in Names, NEW t \in Seq(Lines), NEW rest \in Seq(STRING),
         Turn!Fire(event, subject), transcript' = t, plan' = rest, config' = config, Settled(answers, t),
         event \notin {"over", "raised"}, event = "PreToolUse" => rest # <<>> /\ subject = Head(rest),
         event = "PostToolUse" => rest # <<>>
  PROVE  HooksInv'
<1>1. PICK due : due = Turn!ForEvent(config, event, subject)
  OBVIOUS
<1> DEFINE l == [event |-> event, subject |-> subject, due |-> due, said |-> <<>>]
<1>2. due \in Hooks /\ at' = event /\ queue' = due /\ answers' = Append(answers, l)
  BY <1>1 DEF Turn!Fire, HooksTyped, Looks
<1>3. outcome'.decision = "allow" /\ outcome'.contexts = <<>> /\ outcome'.messages = 0
  BY DEF Turn!Fire, Turn!Fresh
<1>4. <<>> \in Seq(Sayings) /\ <<>> \in Seq(Nat) /\ Len(<<>>) = 0
  BY EmptySeq
<1>5. l \in Rounds /\ l.event = event /\ l.subject = subject /\ l.said = <<>> /\ l.due = due
  BY <1>2, <1>4 DEF Rounds
<1> HIDE DEF l
<1>6. Standing(l, due, "allow")
  <2>1. Len(due) \in Nat
    BY <1>2, LenProperties DEF Hooks
  <2> QED BY <1>4, <1>5, <2>1 DEF Standing, Denials, Asking
<1>7. HooksTyped'
  <2>1. answers' \in Seq(Rounds)
    BY <1>2, <1>5, AppendProperties DEF HooksTyped
  <2> QED BY <1>2, <1>3, <1>4, <2>1 DEF HooksTyped
<1>8. PICK f : f = answers
  OBVIOUS
<1>9. f \in Seq(Rounds) /\ Going(f, l)'
  BY <1>2, <1>3, <1>5, <1>6, <1>8 DEF Going, HooksTyped
<1> QED BY <1>2, <1>5, <1>7, <1>9 DEF HooksInv, EndsKnown

LEMMA NextCallKeeps ==
  ASSUME HooksTyped, NEW calls \in Seq(STRING), NEW t \in Seq(Lines), Turn!NextCall(calls), transcript' = t, plan' = calls,
         config' = config, Settled(answers, t)
  PROVE  HooksInv'
<1>1. CASE calls = <<>>
  <2>1. "Stop" \in Names /\ "" \in Names
    BY DEF Names
  <2> QED BY <1>1, <2>1, Fires DEF Turn!NextCall
<1>2. CASE calls # <<>>
  <2>1. Head(calls) \in Names /\ "PreToolUse" \in Names
    BY <1>2, HeadTailProperties DEF Names
  <2> QED BY <1>2, <2>1, Fires DEF Turn!NextCall
<1> QED BY <1>1, <1>2

-----------------------------------------------------------------------------
(* One lemma per action.                                                   *)

LEMMA HookStarts == Turn!FilesTyped /\ Turn!Init => HooksInv
<1> SUFFICES ASSUME Turn!FilesTyped, Turn!Init PROVE HooksInv
  OBVIOUS
<1> DEFINE l == [event |-> "SessionStart", subject |-> "startup", due |-> queue, said |-> <<>>]
<1>1. Looks(config)
  <2>1. PICK file \in HookFiles : config = Turn!Load(file)
    BY DEF Turn!Init
  <2>2. FileTyped(file)
    BY DEF Turn!FilesTyped, FileTyped
  <2> QED BY <2>1, <2>2, Loaded
<1>2. queue \in Hooks /\ plan \in Seq(STRING) /\ at = "SessionStart"
  BY <1>1 DEF Turn!Init, Looks, Turn!FilesTyped
<1>3. outcome.decision = "allow" /\ outcome.contexts = <<>> /\ outcome.messages = 0
  BY DEF Turn!Init, Turn!Fresh
<1>4. /\ <<>> \in Seq(Sayings) /\ <<>> \in Seq(Nat) /\ <<>> \in Seq(Lines) /\ <<>> \in Seq(Rounds)
      /\ Len(<<>>) = 0 /\ "SessionStart" \in Names /\ "startup" \in Names
  BY EmptySeq DEF Names
<1>5. l \in Rounds /\ l.event = "SessionStart" /\ l.said = <<>> /\ l.due = queue
  BY <1>2, <1>4 DEF Rounds
<1>6. answers = <<l>>
  BY DEF Turn!Init
<1> HIDE DEF l
<1>7. answers = Append(<<>>, l) /\ answers \in Seq(Rounds)
  BY <1>4, <1>5, <1>6
<1>8. Standing(l, queue, "allow")
  <2>1. Len(queue) \in Nat
    BY <1>2, LenProperties DEF Hooks
  <2> QED BY <1>4, <1>5, <2>1 DEF Standing, Denials, Asking
<1>9. transcript = <<>>
  BY DEF Turn!Init
<1>10. Settled(<<>>, <<>>)
  BY <1>4, SelectedEmpty DEF Settled, AllSuit, CallsOf, FatesOf
<1>11. HooksTyped
  BY <1>1, <1>2, <1>3, <1>4, <1>7, <1>9 DEF HooksTyped
<1>12. Going(<<>>, l)
  BY <1>2, <1>3, <1>5, <1>7, <1>8, <1>9, <1>10 DEF Going
<1> QED BY <1>2, <1>4, <1>5, <1>11, <1>12 DEF HooksInv, EndsKnown

\* Another library runs.
LEMMA NoHooks == NoTurn => HooksInv
<1> SUFFICES ASSUME NoTurn PROVE HooksInv
  OBVIOUS
<1>1. Looks(config)
  <2>1. FileTyped(Turn!NoFile)
    BY DEF FileTyped, Turn!NoFile
  <2> QED BY <2>1, Loaded DEF NoTurn
<1>2. outcome.contexts = <<>> /\ outcome.messages = 0
  BY DEF NoTurn, Turn!Fresh
<1>3. /\ <<>> \in Hooks /\ <<>> \in Seq(Nat) /\ <<>> \in Seq(Lines) /\ <<>> \in Seq(Rounds) /\ <<>> \in Seq(STRING)
      /\ Len(<<>>) = 0 /\ "over" \in Names
  BY EmptySeq DEF Hooks, Names
<1>4. Settled(<<>>, <<>>)
  BY <1>3, SelectedEmpty DEF Settled, AllSuit, CallsOf, FatesOf
<1> QED BY <1>1, <1>2, <1>3, <1>4 DEF NoTurn, HooksInv, HooksTyped, EndsKnown

LEMMA RunHookKeeps == ASSUME HooksInv, Turn!RunHook PROVE HooksInv'
<1>1. PICK f \in Seq(Rounds), l \in Rounds : Going(f, l)
  BY DEF Turn!RunHook, HooksInv, EndsKnown
<1>2. PICK answer \in Turn!Answers :
        /\ outcome' = Turn!Absorb(outcome, Turn!RunOne(Head(queue), answer))
        /\ queue' = IF Turn!RunOne(Head(queue), answer).decision = "deny" THEN <<>> ELSE Tail(queue)
        /\ Turn!Note(answer)
  BY DEF Turn!RunHook
<1>3. UNCHANGED <<config, at, plan, transcript>> /\ queue # <<>> /\ at \notin {"over", "raised"}
  BY DEF Turn!RunHook, HooksInv, EndsKnown
<1>4. PICK r : r = Turn!RunOne(Head(queue), answer)
  OBVIOUS
<1>5. queue \in Seq(Turn!Hook) /\ Head(queue) \in Turn!Hook /\ Tail(queue) \in Seq(Turn!Hook)
  BY <1>3, HeadTailProperties DEF HooksInv, HooksTyped, Hooks
<1>6. /\ r.context \in Nat /\ r.message \in BOOLEAN /\ r.warning \in BOOLEAN
      /\ r.decision = "deny" <=> Turn!Denies(answer)
      /\ r.decision = "ask" <=> answer.says = "ask"
  BY <1>4, <1>5, Opinion
<1>7. answer \in Sayings /\ answers = Append(f, l) /\ l.said \in Seq(Sayings)
  BY <1>1 DEF Sayings, Going, Rounds
<1>8. PICK m : m = [l EXCEPT !.said = Append(l.said, answer)]
  OBVIOUS
<1>9. m \in Rounds /\ answers' = Append(f, m)
  BY <1>2, <1>7, <1>8, NoteLast
<1>10. m.event = l.event /\ m.subject = l.subject /\ m.due = l.due /\ m.said = Append(l.said, answer)
  BY <1>8 DEF Rounds
<1>11. /\ Len(m.said) = Len(l.said) + 1 /\ Len(l.said) \in Nat /\ Len(queue) \in Nat /\ Len(Tail(queue)) = Len(queue) - 1
       /\ Denials(m.said) = IF Turn!Denies(answer) THEN Denials(l.said) \cup {Len(l.said) + 1} ELSE Denials(l.said)
       /\ Asking(m.said) <=> Asking(l.said) \/ answer.says = "ask"
  BY <1>3, <1>5, <1>7, <1>10, SaidGrows, LenProperties, HeadTailProperties
<1>12. /\ Denials(l.said) = {} /\ Len(l.said) + Len(queue) = Len(l.due)
       /\ outcome.decision = IF Asking(l.said) THEN "ask" ELSE "allow"
  BY <1>1, <1>3 DEF Going, Standing
<1>13. /\ outcome'.decision = IF r.decision = "deny" \/ (r.decision = "ask" /\ outcome.decision = "allow")
                              THEN r.decision ELSE outcome.decision
       /\ outcome'.contexts = IF r.context > 0 THEN Append(outcome.contexts, r.context) ELSE outcome.contexts
       /\ outcome'.messages = outcome.messages + (IF r.message THEN 1 ELSE 0)
  BY <1>2, <1>4 DEF Turn!Absorb
<1>14. outcome'.contexts \in Seq(Nat) /\ outcome'.messages \in Nat
  BY <1>6, <1>13, AppendProperties DEF HooksInv, HooksTyped
<1>15. queue' = IF r.decision = "deny" THEN <<>> ELSE Tail(queue)
  BY <1>2, <1>4
<1>16. Standing(m, queue', outcome'.decision)
  <2>1. CASE Turn!Denies(answer)
    BY <1>6, <1>10, <1>11, <1>12, <1>13, <1>15, <2>1 DEF Standing
  <2>2. CASE ~Turn!Denies(answer)
    <3>1. PICK q : q = Tail(queue)
      OBVIOUS
    <3>2. Denials(m.said) = {} /\ queue' = q
      BY <1>6, <1>11, <1>12, <1>15, <2>2, <3>1
    <3>3. Len(m.said) + Len(q) = Len(m.due)
      <4>1. PICK said \in Nat, left \in Nat : said = Len(l.said) /\ left = Len(queue)
        BY <1>11
      <4>2. Len(m.said) = said + 1 /\ Len(q) = left - 1
        BY <1>11, <3>1, <4>1
      <4>3. Len(m.due) = said + left
        BY <1>10, <1>12, <4>1
      <4> QED BY <4>2, <4>3
    <3>4. outcome'.decision = IF Asking(m.said) THEN "ask" ELSE "allow"
      BY <1>6, <1>11, <1>12, <1>13, <2>2
    <3> QED BY <3>2, <3>3, <3>4 DEF Standing
  <2> QED BY <2>1, <2>2
<1>17. Going(f, m)'
  BY <1>1, <1>3, <1>9, <1>10, <1>16 DEF Going
<1>18. queue' \in Hooks
  BY <1>5, <1>15, EmptySeq DEF Hooks
<1>19. HooksTyped'
  BY <1>3, <1>9, <1>14, <1>18, AppendProperties DEF HooksInv, HooksTyped, Looks
<1> QED BY <1>3, <1>9, <1>17, <1>19 DEF HooksInv, EndsKnown

LEMMA RunHookRaisesKeeps == ASSUME HooksInv, Turn!RunHookRaises PROVE HooksInv'
<1>1. PICK f \in Seq(Rounds), l \in Rounds : Going(f, l)
  BY DEF Turn!RunHookRaises, HooksInv, EndsKnown
<1>2. PICK answer : answer = [says |-> "malformed"]
  OBVIOUS
<1>3. Turn!Note(answer) /\ answer \in Sayings
  BY <1>2 DEF Turn!RunHookRaises, Sayings
<1>4. PICK m : m = [l EXCEPT !.said = Append(l.said, answer)]
  OBVIOUS
<1>5. m \in Rounds /\ answers' = Append(f, m)
  BY <1>1, <1>3, <1>4, NoteLast DEF Going
<1>6. at' = "raised" /\ queue' = <<>> /\ UNCHANGED <<config, outcome, plan, transcript>>
  BY DEF Turn!RunHookRaises
<1>7. Broken(f, m)'
  BY <1>1, <1>5, <1>6 DEF Going, Broken
<1>8. HooksTyped'
  BY <1>5, <1>6, AppendProperties, EmptySeq DEF HooksInv, HooksTyped, Looks, Hooks, Names
<1> QED BY <1>5, <1>6, <1>7, <1>8 DEF HooksInv, EndsKnown

\* What hooks add is context, which decides nothing.
LEMMA Injects ==
  ASSUME HooksTyped, NEW event \in Names
  PROVE  /\ transcript \o Turn!Injected(event) \in Seq(Lines)
         /\ FatesOf(transcript \o Turn!Injected(event)) = FatesOf(transcript)
<1>1. PICK c, n : c = outcome.contexts /\ n = Len(outcome.contexts)
  OBVIOUS
<1>2. c \in Seq(Nat) /\ n \in Nat /\ DOMAIN c = 1 .. n /\ \A i \in 1 .. n : c[i] \in Nat
  BY <1>1, LenProperties, ElementOfSeq DEF HooksTyped
<1>3. PICK u : u = [i \in 1 .. n |-> [kind |-> "context", what |-> event, size |-> c[i]]]
  OBVIOUS
<1>4. Turn!Injected(event) = u
  BY <1>1, <1>2, <1>3 DEF Turn!Injected
<1>5. \A i \in 1 .. n : [kind |-> "context", what |-> event, size |-> c[i]] \in Lines
  BY <1>2 DEF Lines, Names
<1>6. u \in Seq(Lines) /\ Len(u) = n /\ \A i \in 1 .. n : u[i].kind = "context"
  BY <1>2, <1>3, <1>5
<1>7. Quiet(u)
  BY <1>6 DEF Quiet, Final
<1> QED BY <1>4, <1>6, <1>7, QuietLines DEF HooksTyped

LEMMA OneLine ==
  ASSUME NEW t \in Seq(Lines), NEW kind \in Names, NEW what \in Names
  PROVE  LET x == [kind |-> kind, what |-> what, size |-> 0]
         IN  x \in Lines /\ t \o Turn!Line(kind, what) = Append(t, x)
<1> DEFINE x == [kind |-> kind, what |-> what, size |-> 0]
<1>1. x \in Lines
  BY DEF Lines
<1>2. Turn!Line(kind, what) = <<x>>
  BY DEF Turn!Line
<1> HIDE DEF x
<1>3. t \o <<x>> = Append(t, x)
  BY <1>1, AppendIsConcat
<1> QED BY <1>1, <1>2, <1>3 DEF x

\* An event that is over and was about no call.
LEMMA RoundEnds ==
  ASSUME NEW f \in Seq(Rounds), NEW l \in Rounds, Going(f, l), at # "PreToolUse"
  PROVE  Settled(answers, transcript)
  BY SettlesOther DEF Going

LEMMA SessionStartedKeeps == ASSUME HooksInv, Turn!SessionStarted PROVE HooksInv'
<1>1. at = "SessionStart" /\ UNCHANGED <<config, plan>> /\ Turn!Fire("UserPromptSubmit", "prompt")
  BY DEF Turn!SessionStarted
<1>2. PICK f \in Seq(Rounds), l \in Rounds : Going(f, l)
  BY <1>1 DEF HooksInv, EndsKnown
<1>3. PICK t : t = transcript \o Turn!Injected(at)
  OBVIOUS
<1>4. t \in Seq(Lines) /\ FatesOf(t) = FatesOf(transcript) /\ transcript' = t
  BY <1>3, Injects DEF HooksInv, HooksTyped, Turn!SessionStarted
<1>5. Settled(answers, t)
  BY <1>1, <1>2, <1>4, RoundEnds DEF Settled
<1>6. "UserPromptSubmit" \in Names /\ "prompt" \in Names
  BY DEF Names
<1> QED BY <1>1, <1>4, <1>5, <1>6, Fires DEF HooksInv, HooksTyped

LEMMA PromptSubmittedKeeps == ASSUME HooksInv, Turn!PromptSubmitted PROVE HooksInv'
<1>1. at = "UserPromptSubmit" /\ queue = <<>> /\ UNCHANGED <<config, plan>>
  BY DEF Turn!PromptSubmitted
<1>2. PICK f \in Seq(Rounds), l \in Rounds : Going(f, l)
  BY <1>1 DEF HooksInv, EndsKnown
<1>3. Settled(answers, transcript)
  BY <1>1, <1>2, RoundEnds
<1>4. CASE /\ transcript' = transcript \o Turn!Line("refused", "prompt")
           /\ at' = "over"
           /\ UNCHANGED <<queue, outcome, answers>>
  <2>0. "refused" \in Names /\ "prompt" \in Names /\ "over" \in Names
    BY DEF Names
  <2>1. PICK x : x = [kind |-> "refused", what |-> "prompt", size |-> 0]
    OBVIOUS
  <2>2. x \in Lines /\ x.kind \notin Final /\ transcript' = Append(transcript, x)
    BY <1>4, <2>0, <2>1, OneLine DEF HooksInv, HooksTyped, Final
  <2>3. FatesOf(transcript') = FatesOf(transcript) /\ transcript' \in Seq(Lines)
    BY <2>2, FatesGrow, AppendProperties DEF HooksInv, HooksTyped
  <2>4. Settled(answers, transcript')
    BY <1>3, <2>3 DEF Settled
  <2>5. HooksTyped'
    BY <1>1, <1>4, <2>0, <2>3 DEF HooksInv, HooksTyped, Looks
  <2> QED BY <1>1, <1>4, <2>4, <2>5 DEF HooksInv, EndsKnown
<1>5. CASE transcript' = transcript \o Turn!Injected(at) /\ Turn!NextCall(plan)
  <2>1. PICK t : t = transcript \o Turn!Injected(at)
    OBVIOUS
  <2>2. t \in Seq(Lines) /\ FatesOf(t) = FatesOf(transcript) /\ transcript' = t
    BY <1>5, <2>1, Injects DEF HooksInv, HooksTyped
  <2>3. Settled(answers, t)
    BY <1>3, <2>2 DEF Settled
  <2>4. PICK calls : calls = plan
    OBVIOUS
  <2> QED BY <1>1, <1>5, <2>2, <2>3, <2>4, NextCallKeeps DEF HooksInv, HooksTyped
<1> QED BY <1>4, <1>5 DEF Turn!PromptSubmitted

\* What stands when the last hook has answered is the call's fate.
LEMMA StandingDecides ==
  ASSUME NEW l \in Rounds, NEW decision, Standing(l, <<>>, decision), NEW x \in Lines, x.what = l.subject,
         x.kind = IF decision = "allow" THEN "ran" ELSE decision
  PROVE  Suits(l, x)
<1>1. l.said \in Seq(Sayings) /\ l.due \in Seq(Turn!Hook)
  BY DEF Rounds, Hooks
<1>2. PICK said \in Nat, due \in Nat : said = Len(l.said) /\ due = Len(l.due)
  BY <1>1, LenProperties
<1>3. Len(<<>>) = 0
  BY EmptySeq
<1>4. CASE Denials(l.said) = {} /\ Len(l.said) + Len(<<>>) = Len(l.due) /\ decision = IF Asking(l.said) THEN "ask" ELSE "allow"
  <2>1. said = due
    BY <1>2, <1>3, <1>4
  <2>2. x.kind = FateOf(l)
    BY <1>4 DEF FateOf
  <2> QED BY <1>2, <1>4, <2>1, <2>2 DEF Suits
<1>5. CASE Denials(l.said) = {Len(l.said)} /\ decision = "deny"
  <2>1. x.kind = FateOf(l)
    BY <1>5 DEF FateOf
  <2> QED BY <1>5, <2>1 DEF Suits
<1> QED BY <1>4, <1>5 DEF Standing

LEMMA CallDecidedKeeps == ASSUME HooksInv, Turn!CallDecided PROVE HooksInv'
<1>1. at = "PreToolUse" /\ queue = <<>> /\ UNCHANGED config
  BY DEF Turn!CallDecided
<1>2. PICK f \in Seq(Rounds), l \in Rounds : Going(f, l)
  BY <1>1 DEF HooksInv, EndsKnown
<1>3. /\ answers = Append(f, l) /\ l.event = "PreToolUse" /\ Standing(l, <<>>, outcome.decision) /\ Settled(f, transcript)
      /\ plan # <<>> /\ l.subject = Head(plan)
  BY <1>1, <1>2 DEF Going
<1>4. PICK name, rest : name = Head(plan) /\ rest = Tail(plan)
  OBVIOUS
<1>5. name \in Names /\ rest \in Seq(STRING)
  BY <1>3, <1>4, HeadTailProperties DEF HooksInv, HooksTyped, Names
<1>6. PICK said : said = transcript \o Turn!Injected(name)
  OBVIOUS
<1>7. said \in Seq(Lines) /\ Settled(f, said)
  BY <1>3, <1>5, <1>6, Injects DEF Settled, HooksInv
<1>8. ASSUME NEW kind \in Names, kind = IF outcome.decision = "allow" THEN "ran" ELSE outcome.decision,
             transcript' = said \o Turn!Line(kind, name)
      PROVE  \E t \in Seq(Lines) : transcript' = t /\ Settled(answers, t)
  <2>1. PICK x : x = [kind |-> kind, what |-> name, size |-> 0]
    OBVIOUS
  <2>2. x \in Lines /\ x.kind = kind /\ x.what = name /\ transcript' = Append(said, x)
    BY <1>5, <1>7, <1>8, <2>1, OneLine
  <2>3. Suits(l, x)
    BY <1>3, <1>4, <1>8, <2>2, StandingDecides
  <2>4. Settled(Append(f, l), Append(said, x))
    BY <1>3, <1>7, <2>2, <2>3, Settles
  <2>5. PICK t : t = Append(said, x)
    OBVIOUS
  <2> QED BY <1>3, <1>7, <2>2, <2>4, <2>5, AppendProperties
<1>9. CASE /\ outcome.decision \in {"deny", "ask"}
           /\ transcript' = said \o Turn!Line(outcome.decision, name)
           /\ plan' = rest
           /\ Turn!NextCall(rest)
  <2>1. PICK kind : kind = outcome.decision
    OBVIOUS
  <2>2. kind \in Names
    BY <1>9, <2>1 DEF Names
  <2>3. PICK t \in Seq(Lines) : transcript' = t /\ Settled(answers, t)
    BY <1>8, <1>9, <2>1, <2>2
  <2> QED BY <1>1, <1>5, <1>9, <2>3, NextCallKeeps DEF HooksInv
<1>10. CASE /\ outcome.decision = "allow"
            /\ transcript' = said \o Turn!Line("ran", name)
            /\ Turn!Fire("PostToolUse", name)
            /\ UNCHANGED plan
  <2>1. "ran" \in Names /\ "PostToolUse" \in Names
    BY DEF Names
  <2>2. PICK t \in Seq(Lines) : transcript' = t /\ Settled(answers, t)
    BY <1>8, <1>10, <2>1
  <2>3. PICK calls : calls = plan
    OBVIOUS
  <2>4. calls \in Seq(STRING) /\ calls # <<>> /\ plan' = calls
    BY <1>3, <1>10, <2>3 DEF HooksInv, HooksTyped
  <2> QED BY <1>1, <1>5, <1>10, <2>1, <2>2, <2>4, Fires DEF HooksInv
<1> QED BY <1>4, <1>6, <1>9, <1>10 DEF Turn!CallDecided

LEMMA CallDoneKeeps == ASSUME HooksInv, Turn!CallDone PROVE HooksInv'
<1>1. at = "PostToolUse" /\ plan' = Tail(plan) /\ Turn!NextCall(Tail(plan)) /\ UNCHANGED <<config, transcript>>
  BY DEF Turn!CallDone
<1>2. PICK f \in Seq(Rounds), l \in Rounds : Going(f, l)
  BY <1>1 DEF HooksInv, EndsKnown
<1>3. Settled(answers, transcript)
  BY <1>1, <1>2, RoundEnds
<1>4. PICK rest, t : rest = Tail(plan) /\ t = transcript
  OBVIOUS
<1>5. rest \in Seq(STRING) /\ t \in Seq(Lines)
  BY <1>1, <1>2, <1>4, HeadTailProperties DEF HooksInv, HooksTyped, Going
<1> QED BY <1>1, <1>3, <1>4, <1>5, NextCallKeeps DEF HooksInv

LEMMA StoppedKeeps == ASSUME HooksInv, Turn!Stopped PROVE HooksInv'
<1>1. at = "Stop" /\ UNCHANGED <<config, plan>> /\ Turn!Fire("SessionEnd", "")
  BY DEF Turn!Stopped
<1>2. PICK f \in Seq(Rounds), l \in Rounds : Going(f, l)
  BY <1>1 DEF HooksInv, EndsKnown
<1>3. Settled(answers, transcript)
  BY <1>1, <1>2, RoundEnds
<1>a. PICK n \in Nat : n = outcome.messages
  BY DEF HooksInv, HooksTyped
<1>4. PICK x : x = Turn!Line("system", "Stop")[1] /\ n = outcome.messages
  BY <1>a
<1>5. x \in Lines /\ x.kind = "system"
  BY <1>4 DEF Turn!Line, Lines, Names
<1>6. PICK u : u = [i \in 1 .. n |-> x]
  OBVIOUS
<1>7. u \in Seq(Lines) /\ Len(u) = n /\ \A i \in 1 .. n : u[i] = x
  BY <1>5, <1>6
<1>8. Quiet(u)
  BY <1>5, <1>7 DEF Quiet, Final
<1>9. PICK t : t = transcript \o u
  OBVIOUS
<1>10. t \in Seq(Lines) /\ FatesOf(t) = FatesOf(transcript)
  BY <1>7, <1>8, <1>9, QuietLines DEF HooksInv, HooksTyped
<1>11. transcript' = t /\ Settled(answers, t)
  BY <1>3, <1>4, <1>6, <1>9, <1>10 DEF Turn!Stopped, Settled
<1>12. "SessionEnd" \in Names /\ "" \in Names
  BY DEF Names
<1> QED BY <1>1, <1>10, <1>11, <1>12, Fires DEF HooksInv, HooksTyped

LEMMA SessionEndedKeeps == ASSUME HooksInv, Turn!SessionEnded PROVE HooksInv'
<1>1. at = "SessionEnd" /\ queue = <<>> /\ at' = "over" /\ UNCHANGED <<config, queue, outcome, plan, transcript, answers>>
  BY DEF Turn!SessionEnded
<1>2. PICK f \in Seq(Rounds), l \in Rounds : Going(f, l)
  BY <1>1 DEF HooksInv, EndsKnown
<1>3. Settled(answers, transcript)
  BY <1>1, <1>2, RoundEnds
<1> QED BY <1>1, <1>3 DEF HooksInv, HooksTyped, EndsKnown, Looks, Names

LEMMA HooksStep == HooksInv /\ [Turn!Next]_(Turn!vars) => HooksInv'
<1>1. ASSUME HooksInv, Turn!Next PROVE HooksInv'
  BY <1>1, RunHookKeeps, RunHookRaisesKeeps, SessionStartedKeeps, PromptSubmittedKeeps, CallDecidedKeeps, CallDoneKeeps,
     StoppedKeeps, SessionEndedKeeps DEF Turn!Next
<1>2. ASSUME HooksInv, UNCHANGED Turn!vars PROVE HooksInv'
  BY <1>2 DEF Turn!vars, HooksInv, HooksTyped, EndsKnown, Looks, Going, Broken
<1> QED BY <1>1, <1>2

-----------------------------------------------------------------------------
(* What the invariant says of the property.                                *)

LEMMA FrontOfAppend ==
  ASSUME NEW calls \in Seq(Rounds), NEW x \in Rounds
  PROVE  Turn!Front(Append(calls, x)) = calls
<1>a. PICK n \in Nat : n = Len(calls)
  BY LenProperties
<1>1. PICK g : g = Append(calls, x) /\ n = Len(calls)
  BY <1>a
<1>2. g \in Seq(Rounds) /\ Len(g) = n + 1 /\ \A i \in 1 .. n : g[i] = calls[i]
  BY <1>1, AppendProperties
<1>3. Turn!Front(g) = SubSeq(g, 1, n)
  <2>1. (n + 1) - 1 = n
    OBVIOUS
  <2> QED BY <1>2, <2>1 DEF Turn!Front
<1>4. PICK s : s = SubSeq(g, 1, n)
  OBVIOUS
<1>5. \A i \in 1 .. n : g[i] \in Rounds
  BY <1>1, <1>2, ElementOfSeq
<1>6. s \in Seq(Rounds) /\ Len(s) = n /\ \A i \in 1 .. n : s[i] = g[i]
  BY <1>1, <1>4, <1>5, SubSeqProperties
<1>7. s = calls
  BY <1>1, <1>2, <1>6, SeqEqual
<1> QED BY <1>1, <1>3, <1>4, <1>7

LEMMA SuitingIsEnough ==
  ASSUME NEW calls \in Seq(Rounds), transcript \in Seq(Lines), Turn!Asked = calls, AllSuit(calls, FatesOf(transcript))
  PROVE  OnlyUnopposedCallsRun
<1>1. Turn!Fates = FatesOf(transcript)
  BY SameSelection DEF Turn!Fates, FatesOf, Final
<1>2. PICK fates : fates = FatesOf(transcript)
  OBVIOUS
<1>3. Len(calls) = Len(fates) /\ DOMAIN calls = 1 .. Len(calls) /\ \A i \in 1 .. Len(calls) : Suits(calls[i], fates[i])
  BY <1>2, LenProperties DEF AllSuit
<1>4. \A i \in 1 .. Len(calls) : DOMAIN calls[i].said = 1 .. Len(calls[i].said)
  BY ElementOfSeq, LenProperties DEF Rounds
<1>5. ASSUME NEW i \in 1 .. Len(calls)
      PROVE  LET said == calls[i].said
                 deniers == { j \in DOMAIN said : Turn!Denies(said[j]) }
             IN  /\ fates[i].what = calls[i].subject
                 /\ fates[i].kind = IF deniers # {} THEN "deny"
                                    ELSE IF \E j \in DOMAIN said : said[j].says = "ask" THEN "ask" ELSE "ran"
                 /\ deniers \subseteq {Len(said)}
                 /\ deniers = {} => Len(said) = Len(calls[i].due)
  <2>1. Suits(calls[i], fates[i]) /\ DOMAIN calls[i].said = 1 .. Len(calls[i].said)
    BY <1>3, <1>4
  <2> QED BY <2>1 DEF Suits, FateOf, Denials, Asking
<1> QED BY <1>1, <1>2, <1>3, <1>5 DEF OnlyUnopposedCallsRun, Turn!OnlyUnopposedCallsRun

LEMMA HooksDecide == HooksInv => OnlyUnopposedCallsRun
<1> SUFFICES ASSUME HooksInv PROVE OnlyUnopposedCallsRun
  OBVIOUS
<1>1. /\ transcript \in Seq(Lines) /\ answers \in Seq(Rounds)
      /\ Turn!Fates = FatesOf(transcript)
  BY SameSelection DEF HooksInv, HooksTyped, Turn!Fates, FatesOf, Final
<1>2. PICK decided : decided = CallsOf(answers)
  OBVIOUS
<1>3. Turn!Asked = IF at \in {"PreToolUse", "raised"} /\ Len(decided) > Len(FatesOf(transcript))
                   THEN Turn!Front(decided) ELSE decided
  BY <1>1, <1>2, SameSelection DEF Turn!Asked, CallsOf
<1>4. CASE at = "over"
  <2>1. AllSuit(decided, FatesOf(transcript)) /\ decided \in Seq(Rounds)
    <3>1. CallsOf(answers) \in Seq(Rounds)
      <4>1. PICK a : a = answers
        OBVIOUS
      <4> QED BY <1>1, <4>1, SelectedPicks DEF CallsOf
    <3> QED BY <1>2, <1>4, <3>1 DEF HooksInv, EndsKnown, Settled
  <2> QED BY <1>1, <1>3, <1>4, <2>1, SuitingIsEnough
<1>5. ASSUME NEW f \in Seq(Rounds), NEW l \in Rounds, answers = Append(f, l), Settled(f, transcript),
             at = "raised" \/ l.event = at
      PROVE  OnlyUnopposedCallsRun
  <2>1. PICK calls : calls = CallsOf(f)
    OBVIOUS
  <2>2. calls \in Seq(Rounds) /\ decided = IF l.event = "PreToolUse" THEN Append(calls, l) ELSE calls
    BY <1>2, <1>5, <2>1, CallsGrow
  <2>3. PICK n \in Nat : n = Len(calls) /\ n = Len(FatesOf(transcript))
    BY <1>5, <2>1, <2>2, LenProperties DEF Settled, AllSuit
  <2>4. AllSuit(calls, FatesOf(transcript))
    BY <1>5, <2>1 DEF Settled
  <2>5. CASE l.event = "PreToolUse"
    <3>0. PICK longer : longer = Append(calls, l)
      OBVIOUS
    <3>a. Len(longer) = n + 1
      <4>1. calls \in Seq(Rounds) /\ Len(calls) = n
        BY <2>2, <2>3
      <4>2. Len(longer) = Len(calls) + 1
        BY <3>0, <4>1, AppendProperties
      <4> QED BY <4>1, <4>2
    <3>1. Len(decided) = n + 1 /\ decided = Append(calls, l) /\ n + 1 > n
      BY <2>2, <2>5, <3>0, <3>a
    <3>2. at \in {"PreToolUse", "raised"}
      BY <1>5, <2>5
    <3>3. Turn!Asked = calls
      BY <1>3, <2>2, <2>3, <3>1, <3>2, FrontOfAppend
    <3> QED BY <1>1, <2>2, <2>4, <3>3, SuitingIsEnough
  <2>6. CASE l.event # "PreToolUse"
    <3>1. decided = calls /\ ~(n > n)
      BY <2>2, <2>6
    <3>2. Turn!Asked = calls
      BY <1>3, <2>3, <3>1
    <3> QED BY <1>1, <2>2, <2>4, <3>2, SuitingIsEnough
  <2> QED BY <2>5, <2>6
<1>6. CASE at = "raised"
  <2>1. PICK f \in Seq(Rounds), l \in Rounds : Broken(f, l)
    BY <1>6 DEF HooksInv, EndsKnown
  <2> QED BY <1>5, <1>6, <2>1 DEF Broken
<1>7. CASE at \notin {"over", "raised"}
  <2>1. PICK f \in Seq(Rounds), l \in Rounds : Going(f, l)
    BY <1>7 DEF HooksInv, EndsKnown
  <2> QED BY <1>5, <2>1 DEF Going
<1> QED BY <1>4, <1>6, <1>7

-----------------------------------------------------------------------------
\* What the fates rest on: the calls that are over have the fate their hooks gave them, in order, and the outcome
\* of the event at hand is what its hooks have said so far (turn_with_hooks, HookRunner.run).
THEOREM HooksInductive == ASSUME Turn!FilesTyped PROVE LibrariesSpec => []HooksInv
<1>1. LibrariesInit => HooksInv
  BY HookStarts, NoHooks DEF LibrariesInit
<1>2. HooksInv /\ [LibrariesNext]_<<chunksVars, policyVars, tree, hooksVars>> => HooksInv'
  <2>1. [LibrariesNext]_<<chunksVars, policyVars, tree, hooksVars>> => [Turn!Next]_(Turn!vars)
    BY DEF LibrariesNext, hooksVars, Turn!vars
  <2> QED BY <2>1, HooksStep
<1> QED BY <1>1, <1>2, PTL DEF LibrariesSpec

\* For every hooks.json, every plan and whatever the programs answer: a call runs if every hook that is due has
\* been asked and none denies or asks, goes to the user if one asks and none denies, and is stopped by the first
\* that denies, behind which nobody is asked (turn_with_hooks, HookRunner.run, _run_one).
THEOREM AlwaysUnopposed == ASSUME Turn!FilesTyped PROVE LibrariesSpec => []OnlyUnopposedCallsRun
<1>1. LibrariesSpec => []HooksInv
  BY HooksInductive
<1> QED BY <1>1, HooksDecide, PTL
=============================================================================
