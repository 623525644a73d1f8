------------------------- MODULE ContextProperties -------------------------
(* What is claimed of Context.tla.                                          *)
EXTENDS Context

Count(texts) == FoldLeft(LAMBDA sum, text : sum + ApproxTokens(text), 0, texts)

\* b is a, or what is left of it when its end is cut off.
CutOf(b, a) == b.id = a.id /\ b.size \in 1 .. a.size

\* kept is the end of all, except that its first may be cut.
NewestOf(kept, all) ==
  LET skipped == Len(all) - Len(kept)
  IN  /\ skipped >= 0
      /\ \A i \in DOMAIN kept : kept[i] = all[skipped + i] \/ (i = 1 /\ CutOf(kept[1], all[skipped + 1]))

\* However often a history is compacted, and whatever is typed, interrupted or fails between, the user's
\* messages in it are the newest of all there were, in order, and only the oldest of them is cut; the
\* newest is among them, and whole if it fits the budget alone (collect_user_messages, build_compacted_
\* history).  Messages that begin with "<" are left out: they may be taken for injected blocks.
KeepsNewestRequests ==
  LET plain(texts) == SelectSeq(texts, LAMBDA text : ~text.opens)
      kept == plain(CollectUserMessages(history))
      all  == plain(said)
  IN  /\ NewestOf(kept, all)
      /\ said # <<>> /\ ~Last(said).opens =>
           /\ kept # <<>>
           /\ ApproxTokens(Last(said)) <= MaxTokens => Last(kept) = Last(said)

\* What a compaction would keep now fits the budget, and leaves something out only when the budget is used
\* up; what it keeps, the next compaction keeps too, unless a cut made it look like a block.
CompactionUsesItsBudget ==
  LET messages == CollectUserMessages(history)
      kept     == Select(messages)
  IN  /\ Count(kept) <= MaxTokens
      /\ kept # messages => Count(kept) = MaxTokens
      /\ NewestOf(kept, messages)
      /\ kept # <<>> /\ ~kept[1].opens => CollectUserMessages(Compacted(Compacted(history))) = kept

\* The blocks of the user's that led the history at the start always lead it; behind a compaction comes one
\* summary, whatever number of compactions there were, with nothing but messages of the user's before it.
LeadingBlocksSurvive ==
  LET lead      == SessionPrefix(start)
      summaries == { i \in DOMAIN history : IsSummary(history[i]) }
  IN  /\ SubSeq(history, 1, Len(lead)) = lead
      /\ compacted => /\ Cardinality(summaries) = 1
                   /\ \A i \in summaries, j \in DOMAIN history : j < i => IsUser(history[j])
      /\ ~compacted => summaries = {}

-----------------------------------------------------------------------------
\* Everything a session was told at its start is in the history of each of its requests: "kept the session
\* prefix (instructions, environment)" (src/s11_compaction/code.py:18).
KeepsSessionPrefix == \A i \in DOMAIN start : start[i] \in ToSet(history)
=============================================================================
