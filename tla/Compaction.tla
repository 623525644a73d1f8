----------------------------- MODULE Compaction -----------------------------
(***************************************************************************)
(* Rebuilding a history that has grown too long (s11).  Texts and items    *)
(* are those of Instructions.                                              *)
(***************************************************************************)
EXTENDS Instructions, FiniteSetsExt

CONSTANTS
  CharsPerToken, \* CHARS_PER_TOKEN
  Overhead,      \* what json.dumps puts around an item's text
  MaxTokens,     \* COMPACT_USER_MESSAGE_MAX_TOKENS
  Threshold      \* the window times the ratio, in tokens

AtLeastOne(n) == IF n < 1 THEN 1 ELSE n

ApproxTokens(text)     == AtLeastOne(text.size \div CharsPerToken)
ItemTokens(item)       == AtLeastOne((item.text.size + Overhead) \div CharsPerToken)
HistoryTokens(history) == FoldLeft(LAMBDA sum, item : sum + ItemTokens(item), 0, history)

\* TokenStatus(history_tokens(history), window).needs_compaction(ratio).
NeedsCompaction(history) == HistoryTokens(history) >= Threshold

IsUser(item)    == item.type = "message" /\ item.role = "user"
Summary         == [id |-> <<"summary">>, size |-> BlockSize, opens |-> FALSE, closings |-> {}]
IsSummary(item) == IsUser(item) /\ item.text.id = Summary.id

\* text.startswith("<") and text.rstrip().endswith(">"): taken for an injected block.
IsBlock(text) == text.opens /\ text.size \in text.closings

\* Mutant: an earlier summary counts as something the user said.
CollectUserMessages_AndSummaries(history) ==
  LET real == SelectSeq(history, LAMBDA item : IsUser(item) /\ ~IsBlock(item.text))
  IN  [i \in DOMAIN real |-> real[i].text]

CollectUserMessages(history) ==
  LET real == SelectSeq(history, LAMBDA item : IsUser(item) /\ ~IsSummary(item) /\ ~IsBlock(item.text))
  IN  [i \in DOMAIN real |-> real[i].text]

\* The blocks that lead the history, up to the first item that is none of the user's.
SessionPrefix(history) ==
  LET leads(n) == \A i \in 1 .. n : IsUser(history[i]) /\ IsBlock(history[i].text)
  IN  SubSeq(history, 1, Max({ n \in 0 .. Len(history) : leads(n) }))

\* Mutant: the message is kept whole.
Cut_Whole(text, size) == text

Cut(text, size) == [text EXCEPT !.size = size]

\* Mutant: the oldest messages are taken first.
InOrderOfTaking_Oldest(messages) == messages

InOrderOfTaking(messages) == Reverse(messages)

\* One round of the loop over the messages, newest first, while tokens remain: the message that does not
\* fit is cut to what does, and is the last.
Take(sofar, message) ==
  LET cost == ApproxTokens(message)
  IN  IF sofar.remaining = 0 THEN sofar
      ELSE IF cost <= sofar.remaining
      THEN [selected |-> <<message>> \o sofar.selected, remaining |-> sofar.remaining - cost]
      ELSE [selected |-> <<Cut(message, sofar.remaining * CharsPerToken)>> \o sofar.selected, remaining |-> 0]

Select(messages) ==
  FoldLeft(Take, [selected |-> <<>>, remaining |-> MaxTokens], InOrderOfTaking(messages)).selected

BuildCompactedHistory(prefix, messages) ==
  LET kept == Select(messages)
  IN  prefix \o [i \in DOMAIN kept |-> UserItem(kept[i])] \o <<UserItem(Summary)>>

Compacted(history) == BuildCompactedHistory(SessionPrefix(history), CollectUserMessages(history))
=============================================================================
