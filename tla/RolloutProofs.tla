---------------------------- MODULE RolloutProofs ----------------------------
(***************************************************************************)
(* What a session's rollout file holds, and what is read back from it, for *)
(* any number of turns, lines and failures, wherever a write stops and     *)
(* whenever the process ends.                                              *)
(*                                                                         *)
(* FileInv is about the file and the appends: it gives                     *)
(* AppendedLinesAreRead.  SessionInv adds what the session has recorded so *)
(* far, be it in the file, lost or being written: it is numbered as it     *)
(* came, a turn starts once and before its items, history is what was      *)
(* recorded, a turn that completes has lost nothing and has an output for  *)
(* each call.  From both follow ReplayIsHistory, CompleteTurnsReplayWhole  *)
(* and ForksKeepFirstTurns, since what a reader selects is in the order of *)
(* its numbers, and then determined by what it holds.                      *)
(***************************************************************************)
EXTENDS RolloutProperties, SequenceLemmas, TLAPS

Places == {"idle", "opened", "submit", "extras", "prompted", "step", "stream", "said", "calls",
           "aborting", "failing", "append", "ended"}

\* What goes into the file, and what may be found there.
Recorded == [kind : Kinds, turn : Nat, n : Nat \ {0}]
Token    == [kind : Kinds \cup {"newline", "cut", "broken"}, turn : Nat, n : Nat]
Entry    == [line : Recorded, ok : BOOLEAN]

\* How long the file is without the part of the line that is being written.
End == Len(file) - Len(part)

TypeOK ==
  /\ file \in Seq(Token) /\ part \in Seq(Token)
  /\ log \in Seq(Entry)
  /\ pc \in Places /\ then \in [returned : Places \ {"append"}, raised : Places \ {"append"}]
  /\ turn \in Nat /\ count \in Nat

\* The line that is being written, and as much of it as is in the file.
Writing ==
  /\ \/ doing = <<>> /\ part = <<>> /\ pc # "append"
     \/ /\ pc \in {"append", "ended"}
        /\ \E line \in Recorded : doing = <<line>> /\ line.n <= count /\ part \in Partial(line)
  /\ End >= 2
  /\ \A i \in 1 .. Len(file) : i > End => file[i] = part[i - End]

IsLine(i) == file[i].kind \in Kinds

\* Each line in the file was appended, and they are in the order of the session.
Stored ==
  /\ file[1] = Meta /\ file[2] = Newline
  /\ \A i \in 2 .. End : IsLine(i) => \E k \in DOMAIN log : file[i] = log[k].line
  /\ \A i \in 1 .. End : IsLine(i) => file[i].n <= count /\ \A line \in Range(doing) : file[i].n < line.n
  /\ \A i, j \in 1 .. End : IsLine(i) /\ IsLine(j) /\ i < j => file[i].n < file[j].n

\* Each line has a row of its own whose append, and the one before, came to its end.
Alone ==
  /\ (log = <<>> \/ log[Len(log)].ok) => file[End] = Newline
  /\ \A i \in DOMAIN log : log[i].ok /\ (i = 1 \/ log[i - 1].ok) =>
       \E j \in 2 .. End - 1 : file[j] = log[i].line /\ file[j - 1] = Newline /\ file[j + 1] = Newline

FileInv == TypeOK /\ Writing /\ Stored /\ Alone

USE BoundsAssumption

\* The lengths and indices of the file and of the log.
LEMMA Sizes ==
  ASSUME TypeOK
  PROVE  /\ Len(file) \in Nat /\ Len(part) \in Nat /\ End \in Int /\ End <= Len(file)
         /\ DOMAIN file = 1 .. Len(file) /\ \A i \in 1 .. End : file[i] \in Token /\ file[i].n \in Nat
         /\ Len(log) \in Nat /\ DOMAIN log = 1 .. Len(log)
<1>1. /\ Len(file) \in Nat /\ Len(part) \in Nat /\ Len(log) \in Nat
      /\ DOMAIN file = 1 .. Len(file) /\ DOMAIN log = 1 .. Len(log)
      /\ \A i \in 1 .. Len(file) : file[i] \in Token
  BY LenProperties, ElementOfSeq DEF TypeOK
<1>2. End \in Int /\ End <= Len(file)
  BY <1>1 DEF End
<1>3. \A i \in 1 .. End : file[i] \in Token
  BY <1>1, <1>2
<1> QED BY <1>1, <1>2, <1>3 DEF Token

\* A new session: its session_meta alone is in the file.
LEMMA FileStarts == Init => FileInv
<1> SUFFICES ASSUME Init PROVE FileInv
  OBVIOUS
<1>1. /\ file = <<Meta, Newline>> /\ doing = <<>> /\ part = <<>> /\ log = <<>> /\ pc = "idle" /\ count = 0
      /\ Len(file) = 2 /\ file[1] = Meta /\ file[2] = Newline /\ Len(part) = 0 /\ End = 2
  BY DEF Init, Whole, End
<1>2. TypeOK
  <2>1. Meta \in Token /\ Newline \in Token
    BY DEF Meta, Newline, Line, Token, Kinds
  <2>2. file \in Seq(Token) /\ part \in Seq(Token) /\ log \in Seq(Entry)
    BY <1>1, <2>1
  <2> QED BY <2>2 DEF Init, TypeOK, Places
<1>3. Writing
  BY <1>1 DEF Writing
<1>4. Stored
  <2>1. Meta.n = 0 /\ Newline.kind \notin Kinds /\ Range(doing) = {}
    BY <1>1 DEF Meta, Newline, Line, Kinds, Items, Endings, Range
  <2>2. \A i \in 1 .. End : i = 1 \/ i = 2
    BY <1>1
  <2>3. ~IsLine(2)
    BY <1>1, <2>1 DEF IsLine
  <2> QED BY <1>1, <2>1, <2>2, <2>3 DEF Stored
<1>5. Alone
  BY <1>1 DEF Alone
<1> QED BY <1>2, <1>3, <1>4, <1>5 DEF FileInv

-----------------------------------------------------------------------------
(* The session between its appends.                                        *)

\* It begins no append, or that of one line, the next.
Moves ==
  /\ UNCHANGED <<file, part, log>>
  /\ pc' \in Places /\ then' \in [returned : Places \ {"append"}, raised : Places \ {"append"}]
  /\ turn' \in Nat /\ count' \in Nat /\ count <= count'
  /\ \/ doing' = doing /\ (pc' = "ended" \/ (doing = <<>> /\ pc' # "append"))
     \/ /\ doing = <<>> /\ pc' = "append"
        /\ \E line \in Recorded : doing' = <<line>> /\ count < line.n /\ line.n <= count'

\* What is recorded is persisted, or nothing is appended for it.
LEMMA GoesMoves ==
  ASSUME TypeOK, doing = <<>>, UNCHANGED <<file, part, log>>, turn' \in Nat, count' = count + 1,
         NEW kind, NEW number \in Nat,
         NEW returned \in Places \ {"append"}, NEW raised \in Places \ {"append"},
         Goes(Line(kind, number, count + 1), returned, raised)
  PROVE  Moves
<1> DEFINE line == Line(kind, number, count + 1)
<1>0. count \in Nat /\ count' \in Nat /\ count <= count' /\ then \in [returned : Places \ {"append"}, raised : Places \ {"append"}]
  BY DEF TypeOK
<1>1. CASE Persisted(line)
  <2>1. line \in Recorded /\ line.n = count + 1
    BY <1>0, <1>1 DEF Persisted, Line, Recorded
  <2>2. doing' = <<line>> /\ pc' = "append" /\ then' = [returned |-> returned, raised |-> raised]
    BY <1>1 DEF Goes
  <2> HIDE DEF line
  <2>3. count < line.n /\ line.n <= count'
    BY <1>0, <2>1
  <2> QED BY <1>0, <2>1, <2>2, <2>3 DEF Moves, Places
<1>2. CASE ~Persisted(line)
  BY <1>0, <1>2 DEF Goes, Moves
<1> QED BY <1>1, <1>2

\* Each step of the turn is such a move, and so is the end of the process.
LEMMA SessionMoves ==
  ASSUME TypeOK, Writing, TurnStep \/ Ends
  PROVE  Moves
<1>0. count \in Nat /\ turn \in Nat /\ turn + 1 \in Nat /\ pc \in Places
      /\ then \in [returned : Places \ {"append"}, raised : Places \ {"append"}]
      /\ (pc \notin {"append", "ended"} => doing = <<>>)
  BY DEF TypeOK, Writing
<1>event. ASSUME doing = <<>>, NEW kind, NEW number \in Nat, turn' \in Nat,
                 NEW returned \in Places \ {"append"}, NEW raised \in Places \ {"append"},
                 \/ RecordEvent(Line(kind, number, count + 1), returned, raised)
                 \/ RecordItem(Line(kind, number, count + 1), returned, raised)
          PROVE  Moves
  BY <1>event, GoesMoves DEF RecordEvent, RecordItem
<1>new. ASSUME doing = <<>>, NEW kind, turn' = turn,
               NEW returned \in Places \ {"append"}, NEW raised \in Places \ {"append"},
               RecordEvent(New(kind), returned, raised) \/ RecordItem(New(kind), returned, raised)
        PROVE  Moves
  BY <1>0, <1>new, <1>event DEF New
<1>compact. ASSUME doing = <<>>, Compacts, NEW returned \in Places \ {"append"}, NEW raised \in Places \ {"append"},
                   Goes(New("compacted"), returned, raised)
            PROVE  Moves
  BY <1>0, <1>compact, GoesMoves DEF Compacts, New
<1>goes. ASSUME UNCHANGED <<appendVars, then, turn, count>>, pc' \in Places \ {"append"},
                doing = <<>> \/ pc' = "ended"
         PROVE  Moves
  BY <1>0, <1>goes DEF appendVars, Moves
<1>1. CASE TurnContext
  BY <1>0, <1>1, <1>event DEF TurnContext, Places
<1>2. CASE TaskStarted \/ UserMessage
  BY <1>0, <1>2, <1>new DEF TaskStarted, UserMessage, Places
<1>3. CASE PromptBlocked \/ Request \/ Raises
  BY <1>0, <1>3, <1>goes DEF PromptBlocked, Request, Raises, Places
<1>4. CASE Prompt
  <2>1. PICK next \in {"extras", "prompted"} : RecordItem(New("user"), next, "idle")
    BY <1>4 DEF Prompt
  <2>2. next \in Places \ {"append"} /\ doing = <<>> /\ turn' = turn
    BY <1>0, <1>4 DEF Prompt, Places
  <2> QED BY <2>1, <2>2, <1>new DEF Places
<1>5. CASE Steering \/ StreamCall \/ StreamOther
  BY <1>0, <1>5, <1>new DEF Steering, StreamCall, StreamOther, Places
<1>6. CASE Compaction
  BY <1>0, <1>6, <1>compact DEF Compaction, Places
<1>7. CASE CompactOp
  BY <1>0, <1>7, <1>compact DEF CompactOp, Places
<1>8. CASE StreamMessage
  <2>1. PICK next \in {"said", "stream"} : RecordItem(New("assistant"), next, "failing")
    BY <1>8 DEF StreamMessage
  <2>2. next \in Places \ {"append"} /\ doing = <<>> /\ turn' = turn
    BY <1>0, <1>8 DEF StreamMessage, Places
  <2> QED BY <2>1, <2>2, <1>new DEF Places
<1>9. CASE AgentMessage \/ TurnAborted \/ Error \/ Cancelled
  BY <1>0, <1>9, <1>new DEF AgentMessage, TurnAborted, Error, Cancelled, Places
<1>10. CASE StreamEnd
  <2>1. CASE pc' = (IF open # <<>> THEN "calls" ELSE "step") /\ UNCHANGED <<appendVars, then, turn, count>>
    BY <1>0, <1>10, <2>1, <1>goes DEF StreamEnd, Places
  <2>2. CASE RecordEvent(New("complete"), "idle", "failing") /\ turn' = turn
    BY <1>0, <1>10, <2>2, <1>new DEF StreamEnd, Places
  <2> QED BY <1>10, <2>1, <2>2 DEF StreamEnd
<1>11. CASE DuringCall
  BY <1>0, <1>11, <1>new DEF DuringCall, Places
<1>12. CASE Output
  <2> DEFINE next == IF Tail(open) = <<>> THEN "step" ELSE "calls"
  <2>1. RecordItem(New("output"), next, "failing") /\ doing = <<>> /\ turn' = turn
    BY <1>0, <1>12 DEF Output
  <2>2. next \in Places \ {"append"} /\ "failing" \in Places \ {"append"}
    BY DEF Places
  <2> HIDE DEF next
  <2> QED BY <2>1, <2>2, <1>new
<1>13. CASE Ends
  BY <1>0, <1>13, <1>goes DEF Ends, Places
<1> QED BY <1>1, <1>2, <1>3, <1>4, <1>5, <1>6, <1>7, <1>8, <1>9, <1>10, <1>11, <1>12, <1>13 DEF TurnStep

\* A move leaves the file as it is.
LEMMA MovesKeep ==
  ASSUME FileInv, Moves
  PROVE  FileInv'
<1>0. TypeOK /\ Writing /\ Stored /\ Alone /\ UNCHANGED <<file, part, log>> /\ End' = End
      /\ count \in Nat /\ count' \in Nat /\ count <= count'
  BY DEF FileInv, Moves, TypeOK, End
<1>1. TypeOK'
  BY <1>0 DEF TypeOK, Moves
<1>2. CASE doing' = doing /\ (pc' = "ended" \/ (doing = <<>> /\ pc' # "append"))
  <2>1. Writing'
    <3>1. CASE doing = <<>>
      BY <1>0, <1>2, <3>1 DEF Writing
    <3>2. CASE doing # <<>>
      <4>1. PICK line \in Recorded : doing = <<line>> /\ line.n <= count /\ part \in Partial(line)
        BY <1>0, <3>2 DEF Writing
      <4>2. line.n <= count'
        BY <1>0, <4>1 DEF Recorded
      <4> QED BY <1>0, <1>2, <3>2, <4>1, <4>2 DEF Writing
    <3> QED BY <3>1, <3>2
  <2>2. Stored'
    <3>1. \A i \in 1 .. End : IsLine(i) => file[i].n <= count'
      BY <1>0, Sizes DEF Stored
    <3> QED BY <1>0, <1>2, <3>1 DEF Stored, IsLine
  <2> QED BY <1>0, <1>1, <2>1, <2>2 DEF FileInv, Alone
<1>3. CASE doing = <<>> /\ pc' = "append" /\ \E line \in Recorded : doing' = <<line>> /\ count < line.n /\ line.n <= count'
  <2>1. PICK line \in Recorded : doing' = <<line>> /\ count < line.n /\ line.n <= count'
    BY <1>3
  <2>2. Writing'
    <3>1. part = <<>>
      BY <1>0, <1>3, <2>1 DEF Writing
    <3> QED BY <1>0, <1>3, <2>1, <3>1 DEF Writing, Partial
  <2>3. Stored'
    <3>1. Range(doing') = {line}
      BY <2>1 DEF Range
    <3>2. \A i \in 1 .. End : IsLine(i) => file[i].n <= count' /\ file[i].n < line.n
      BY <1>0, <2>1, Sizes DEF Stored, Recorded
    <3> QED BY <1>0, <3>1, <3>2 DEF Stored, IsLine
  <2> QED BY <1>0, <1>1, <2>2, <2>3 DEF FileInv, Alone
<1> QED BY <1>2, <1>3 DEF Moves

-----------------------------------------------------------------------------
(* The append.                                                             *)

\* A part of the line is written: it comes after everything else.
LEMMA PartKeeps ==
  ASSUME FileInv, AppendPart
  PROVE  FileInv'
<1>0. /\ TypeOK /\ Writing /\ Stored /\ Alone /\ pc = "append" /\ part = <<>>
      /\ UNCHANGED <<doing, log, pc, then, turn, count>>
  BY DEF FileInv, AppendPart, sessionVars
<1>1. PICK line \in Recorded : doing = <<line>> /\ line.n <= count
  BY <1>0 DEF Writing
<1>2. PICK x \in {Cut, Broken, line} : part' = <<x>> /\ file' = file \o <<x>>
  BY <1>0, <1>1 DEF AppendPart, Partial
<1>3. x \in Token /\ line \in Token
  BY DEF Cut, Broken, Line, Recorded, Token
<1>4. /\ file' = Append(file, x) /\ file' \in Seq(Token) /\ Len(file') = Len(file) + 1
      /\ \A i \in 1 .. Len(file) : file'[i] = file[i]
      /\ file'[Len(file) + 1] = x
  BY <1>0, <1>2, <1>3, AppendProperties, AppendIsConcat DEF TypeOK
<1>5. /\ Len(part) = 0 /\ Len(part') = 1 /\ part'[1] = x /\ Len(file) \in Nat /\ part' \in Seq(Token)
      /\ End = Len(file) /\ End' = Len(file)
  <2>1. Len(part) = 0 /\ Len(part') = 1 /\ part'[1] = x /\ part' \in Seq(Token)
    BY <1>0, <1>2, <1>3
  <2>2. Len(file) \in Nat
    BY <1>0, Sizes
  <2> QED BY <1>4, <2>1, <2>2 DEF End
<1>6. \A i \in 1 .. End : file'[i] = file[i]
  BY <1>4, <1>5
<1>7. TypeOK'
  BY <1>0, <1>4, <1>5 DEF TypeOK
<1>8. Writing'
  <2>1. part' \in Partial(line)
    BY <1>2 DEF Partial
  <2>2. \A i \in 1 .. Len(file') : i > End' => i = Len(file) + 1
    BY <1>4, <1>5
  <2>3. \A i \in 1 .. Len(file') : i > End' => file'[i] = part'[i - End']
    BY <1>4, <1>5, <2>2
  <2> QED BY <1>0, <1>1, <1>5, <2>1, <2>3 DEF Writing
<1>9. Stored' /\ Alone'
  <2>1. End' = End /\ End \in Nat /\ 1 \in 1 .. End /\ 2 \in 1 .. End /\ End \in 1 .. End
    BY <1>0, <1>5 DEF Writing
  <2>2. Stored'
    BY <1>0, <1>6, <2>1 DEF Stored, IsLine
  <2>3. \A j \in 2 .. End - 1 : file'[j] = file[j] /\ file'[j - 1] = file[j - 1] /\ file'[j + 1] = file[j + 1]
    BY <1>6, <2>1
  <2> QED BY <1>0, <1>6, <2>1, <2>2, <2>3 DEF Alone
<1> QED BY <1>7, <1>8, <1>9 DEF FileInv

\* The append raises: the part stays where it is, and the next line will come into its row.
LEMMA RaiseKeeps ==
  ASSUME FileInv, AppendRaises
  PROVE  FileInv'
<1>0. /\ TypeOK /\ Writing /\ Stored /\ Alone /\ pc = "append"
      /\ UNCHANGED <<file, then, turn, count>> /\ doing' = <<>> /\ part' = <<>>
      /\ pc' \in Places \ {"append"}
  BY DEF FileInv, AppendRaises, AfterFailure, TypeOK
<1>1. PICK line \in Recorded : doing = <<line>> /\ line.n <= count /\ part \in Partial(line)
  BY <1>0 DEF Writing
<1> DEFINE entry == [line |-> line, ok |-> FALSE]
<1>2. log' = Append(log, entry) /\ entry \in Entry /\ entry.line = line /\ entry.ok = FALSE
  BY <1>1 DEF AppendRaises, Entry
<1> HIDE DEF entry
<1>3. /\ log' \in Seq(Entry) /\ Len(log') = Len(log) + 1 /\ Len(log) \in Nat /\ log' # <<>>
      /\ DOMAIN log = 1 .. Len(log) /\ DOMAIN log' = 1 .. Len(log) + 1
      /\ \A k \in 1 .. Len(log) : log'[k] = log[k]
      /\ log'[Len(log) + 1] = entry
  <2>1. /\ log' \in Seq(Entry) /\ Len(log') = Len(log) + 1 /\ log' # <<>>
        /\ \A k \in 1 .. Len(log) : log'[k] = log[k]
        /\ log'[Len(log) + 1] = entry
    <3>1. log \in Seq(Entry)
      BY <1>0 DEF TypeOK
    <3> QED BY ONLY <1>2, <3>1, AppendProperties
  <2> QED BY <1>0, <2>1, Sizes, LenProperties
<1>4. /\ Len(file) \in Nat /\ End \in Int /\ End >= 2 /\ End <= Len(file) /\ End' = Len(file)
      /\ \A i \in 1 .. Len(file) : i > End => i = End + 1 /\ Len(file) = End + 1 /\ part # <<>> /\ file[i] = part[1]
  <2>1. Len(part) \in {0, 1} /\ (Len(part) = 0 => part = <<>>)
    BY <1>1 DEF Partial
  <2>2. Len(file) \in Nat /\ End \in Int /\ End >= 2 /\ End <= Len(file) /\ Len(file) = End + Len(part) /\ End' = Len(file)
    BY <1>0, <2>1, Sizes DEF Writing, End
  <2>3. \A i \in 1 .. Len(file) : i > End => file[i] = part[i - End]
    BY <1>0 DEF Writing
  <2>4. ASSUME NEW i \in 1 .. Len(file), i > End
        PROVE  i = End + 1 /\ Len(file) = End + 1 /\ part # <<>> /\ file[i] = part[1]
    <3>1. Len(part) = 1
      BY <2>1, <2>2, <2>4
    <3>2. i = End + 1 /\ i - End = 1 /\ Len(file) = End + 1
      BY <2>2, <2>4, <3>1
    <3>3. file[i] = part[1] /\ part # <<>>
      BY <2>3, <2>4, <3>1, <3>2
    <3> QED BY <3>2, <3>3
  <2> QED BY <2>2, <2>4
<1>5. TypeOK'
  BY <1>0, <1>3 DEF TypeOK
<1>6. Writing'
  BY <1>0, <1>4 DEF Writing
<1>7. \A i \in 1 .. Len(file) : i > End /\ IsLine(i) => file[i] = line
  <2>1. part # <<>> => part[1] \in {Cut, Broken, line}
    BY <1>1 DEF Partial
  <2>2. Cut.kind \notin Kinds /\ Broken.kind \notin Kinds
    BY DEF Cut, Broken, Line, Kinds, Items, Endings
  <2> QED BY <1>4, <2>1, <2>2 DEF IsLine
<1>8. \A i \in 1 .. Len(file) : i <= End /\ IsLine(i) => file[i].n <= count /\ file[i].n < line.n
  <2>1. line \in Range(doing)
    BY <1>1 DEF Range
  <2> QED BY <1>0, <1>4, <2>1 DEF Stored
<1>9. Stored'
  <2>1. \A i \in 2 .. End' : IsLine(i) => \E k \in DOMAIN log' : file[i] = log'[k].line
    <3>1. ASSUME NEW i \in 2 .. Len(file), IsLine(i) PROVE \E k \in DOMAIN log' : file[i] = log'[k].line
      <4>1. CASE i <= End
        <5>1. PICK k \in DOMAIN log : file[i] = log[k].line
          BY <1>0, <1>4, <3>1, <4>1 DEF Stored
        <5>2. k \in DOMAIN log' /\ log'[k] = log[k]
          BY <1>3
        <5> QED BY <5>1, <5>2
      <4>2. CASE i > End
        <5>1. file[i] = line /\ Len(log) + 1 \in DOMAIN log'
          BY <1>3, <1>7, <3>1, <4>2
        <5> QED BY <1>2, <1>3, <5>1
      <4> QED BY <1>4, <4>1, <4>2
    <3> QED BY <1>4, <3>1
  <2>2. \A i \in 1 .. Len(file) : IsLine(i) => file[i].n <= count
    BY <1>1, <1>4, <1>7, <1>8
  <2>3. \A i, j \in 1 .. Len(file) : IsLine(i) /\ IsLine(j) /\ i < j => file[i].n < file[j].n
    <3>1. ASSUME NEW i \in 1 .. Len(file), NEW j \in 1 .. Len(file), IsLine(i), IsLine(j), i < j
          PROVE  file[i].n < file[j].n
      <4>1. CASE j <= End
        BY <1>0, <1>4, <3>1, <4>1 DEF Stored
      <4>2. CASE j > End
        <5>1. file[j] = line /\ i <= End
          BY <1>4, <1>7, <3>1, <4>2
        <5> QED BY <1>8, <3>1, <5>1
      <4> QED BY <1>4, <4>1, <4>2
    <3> QED BY <3>1
  <2>4. Range(doing') = {}
    BY <1>0 DEF Range
  <2> QED BY <1>0, <1>4, <2>1, <2>2, <2>3, <2>4 DEF Stored, IsLine
<1>10. Alone'
  <2>1. log'[Len(log')].ok = FALSE
    BY <1>2, <1>3
  <2>2. ASSUME NEW k \in DOMAIN log', log'[k].ok, k = 1 \/ log'[k - 1].ok
        PROVE  \E j \in 2 .. End' - 1 : file[j] = log'[k].line /\ file[j - 1] = Newline /\ file[j + 1] = Newline
    <3>1. k \in 1 .. Len(log) /\ (k = 1 \/ k - 1 \in 1 .. Len(log))
      BY <1>2, <1>3, <2>2
    <3>2. k \in DOMAIN log /\ log[k].ok /\ (k = 1 \/ log[k - 1].ok) /\ log'[k] = log[k]
      BY <1>3, <2>2, <3>1
    <3>3. PICK j \in 2 .. End - 1 : file[j] = log[k].line /\ file[j - 1] = Newline /\ file[j + 1] = Newline
      BY <1>0, <3>2 DEF Alone
    <3>4. j \in 2 .. End' - 1
      BY <1>4
    <3> QED BY <3>2, <3>3, <3>4
  <2> QED BY <1>0, <1>3, <2>1, <2>2 DEF Alone
<1> QED BY <1>5, <1>6, <1>9, <1>10 DEF FileInv

\* The append returns: the line is there, with a row of its own if nothing was left before it.
LEMMA ReturnKeeps ==
  ASSUME FileInv, AppendReturns
  PROVE  FileInv'
<1>0. /\ TypeOK /\ Writing /\ Stored /\ Alone /\ pc = "append"
      /\ UNCHANGED <<then, turn, count>> /\ doing' = <<>> /\ part' = <<>>
      /\ pc' \in Places \ {"append"}
  BY DEF FileInv, AppendReturns, TypeOK
<1>1. PICK line \in Recorded : doing = <<line>> /\ line.n <= count
  BY <1>0 DEF Writing
<1> DEFINE entry == [line |-> line, ok |-> TRUE]
           row   == <<line, Newline>>
<1>2. log' = Append(log, entry) /\ entry \in Entry /\ entry.line = line /\ entry.ok = TRUE
  BY <1>1 DEF AppendReturns, Entry
<1>3. row \in Seq(Token) /\ Len(row) = 2 /\ row[1] = line /\ row[2] = Newline
  <2>1. line \in Token /\ Newline \in Token
    BY DEF Newline, Line, Recorded, Token
  <2> QED BY <2>1
<1>4. file' = Before \o row
  BY <1>1 DEF AppendReturns, Whole
<1> HIDE DEF entry, row
<1>5. /\ log' \in Seq(Entry) /\ Len(log') = Len(log) + 1 /\ Len(log) \in Nat
      /\ DOMAIN log = 1 .. Len(log) /\ DOMAIN log' = 1 .. Len(log) + 1
      /\ \A k \in 1 .. Len(log) : log'[k] = log[k]
      /\ log'[Len(log) + 1] = entry
  <2>1. /\ log' \in Seq(Entry) /\ Len(log') = Len(log) + 1
        /\ \A k \in 1 .. Len(log) : log'[k] = log[k]
        /\ log'[Len(log) + 1] = entry
    <3>1. log \in Seq(Entry)
      BY <1>0 DEF TypeOK
    <3> QED BY ONLY <1>2, <3>1, AppendProperties
  <2> QED BY <1>0, <2>1, Sizes, LenProperties
<1>6. End \in Nat /\ End >= 2 /\ End <= Len(file) /\ Len(file) \in Nat
  BY <1>0, Sizes DEF Writing
<1>7. Before \in Seq(Token) /\ Len(Before) = End /\ \A i \in 1 .. End : Before[i] = file[i]
  <2>1. file \in Seq(Token) /\ Before = SubSeq(file, 1, End)
    BY <1>0 DEF TypeOK, Before, End
  <2>2. 1 \in 1 .. Len(file) + 1 /\ End \in 0 .. Len(file) /\ 1 <= End + 1
    BY <1>6
  <2>3. /\ SubSeq(file, 1, End) \in Seq(Token)
        /\ Len(SubSeq(file, 1, End)) = IF 1 <= End THEN End - 1 + 1 ELSE 0
        /\ \A i \in 1 .. End - 1 + 1 : SubSeq(file, 1, End)[i] = file[1 + i - 1]
    BY <2>1, <2>2, <1>6, SubSeqProperties
  <2> QED BY <1>6, <2>1, <2>3
<1>8. /\ file' \in Seq(Token) /\ Len(file') = End + 2 /\ End' = End + 2
      /\ \A i \in 1 .. End : file'[i] = file[i]
      /\ file'[End + 1] = line /\ file'[End + 2] = Newline
  <2>1. /\ Before \o row \in Seq(Token) /\ Len(Before \o row) = Len(Before) + Len(row)
        /\ \A i \in 1 .. Len(Before) + Len(row) :
             (Before \o row)[i] = IF i <= Len(Before) THEN Before[i] ELSE row[i - Len(Before)]
    BY ONLY <1>3, <1>7, ConcatProperties
  <2>2. /\ Len(file') = End + 2 /\ \A i \in 1 .. End + 2 : file'[i] = IF i <= End THEN file[i] ELSE row[i - End]
    BY <1>3, <1>4, <1>6, <1>7, <2>1
  <2>3. End + 1 - End = 1 /\ End + 2 - End = 2
    BY <1>6
  <2>4. End' = End + 2
    <3>1. Len(part') = 0
      BY <1>0
    <3> QED BY <1>6, <2>2, <3>1 DEF End
  <2>5. \A i \in 1 .. End : file'[i] = file[i]
    BY <1>6, <2>2
  <2>6. file'[End + 1] = line /\ file'[End + 2] = Newline
    <3>1. End + 1 \in 1 .. End + 2 /\ End + 2 \in 1 .. End + 2 /\ ~(End + 1 <= End) /\ ~(End + 2 <= End)
      BY <1>6
    <3>2. ASSUME NEW i \in 1 .. End + 2, ~(i <= End), NEW k, i - End = k PROVE file'[i] = row[k]
      BY <2>2, <3>2
    <3>3. PICK i \in 1 .. End + 2 : i = End + 1
      BY <3>1
    <3>4. PICK j \in 1 .. End + 2 : j = End + 2
      BY <3>1
    <3>5. i - End = 1 /\ j - End = 2 /\ ~(i <= End) /\ ~(j <= End)
      BY <1>6, <3>3, <3>4
    <3>6. file'[i] = row[1] /\ file'[j] = row[2]
      BY <3>2, <3>5
    <3> QED BY <1>3, <3>3, <3>4, <3>6
  <2>7. file' \in Seq(Token)
    BY <1>4, <2>1
  <2> QED BY <2>2, <2>4, <2>5, <2>6, <2>7
<1>9. TypeOK'
  BY <1>0, <1>5, <1>8 DEF TypeOK
<1>10. Writing'
  BY <1>0, <1>6, <1>8 DEF Writing
<1>11. /\ file'[End + 2].kind \notin Kinds
       /\ \A i \in 1 .. End : IsLine(i)' <=> IsLine(i)
  <2>1. line.kind \in Kinds /\ Newline.kind \notin Kinds
    BY DEF Recorded, Newline, Line, Kinds, Items, Endings
  <2> QED BY <1>8, <2>1 DEF IsLine
<1>12. \A i \in 1 .. End : IsLine(i) => file[i].n <= count /\ file[i].n < line.n
  <2>1. line \in Range(doing)
    BY <1>1 DEF Range
  <2> QED BY <1>0, <2>1 DEF Stored
<1>13. \A i \in 1 .. End' : IsLine(i)' => i \in 1 .. End \/ i = End + 1
  <2>1. \A i \in 1 .. End' : i \in 1 .. End \/ i = End + 1 \/ i = End + 2
    BY <1>6, <1>8
  <2> QED BY <1>11, <2>1 DEF IsLine
<1>14. Stored'
  <2>1. ASSUME NEW i \in 2 .. End', IsLine(i)' PROVE \E k \in DOMAIN log' : file'[i] = log'[k].line
    <3>1. CASE i \in 1 .. End
      <4>1. i \in 2 .. End /\ IsLine(i) /\ file'[i] = file[i]
        BY <1>6, <1>8, <1>11, <2>1, <3>1
      <4>2. PICK k \in DOMAIN log : file[i] = log[k].line
        BY <1>0, <4>1 DEF Stored
      <4>3. k \in DOMAIN log' /\ log'[k] = log[k]
        BY <1>5
      <4> QED BY <4>1, <4>2, <4>3
    <3>2. CASE i = End + 1
      <4>1. Len(log) + 1 \in DOMAIN log'
        BY <1>5
      <4> QED BY <1>2, <1>5, <1>8, <3>2, <4>1
    <3>3. i \in 1 .. End'
      BY <1>6, <1>8
    <3> QED BY <1>13, <2>1, <3>1, <3>2, <3>3
  <2>2. \A i \in 1 .. End' : IsLine(i)' => file'[i].n <= count
    BY <1>1, <1>8, <1>11, <1>12, <1>13
  <2>3. ASSUME NEW i \in 1 .. End', NEW j \in 1 .. End', IsLine(i)', IsLine(j)', i < j
        PROVE  file'[i].n < file'[j].n
    <3>1. CASE j \in 1 .. End
      <4>1. i \in 1 .. End
        BY <1>6, <2>3, <3>1
      <4> QED BY <1>0, <1>8, <1>11, <2>3, <3>1, <4>1 DEF Stored
    <3>2. CASE j = End + 1
      <4>1. i \in 1 .. End
        BY <1>6, <2>3, <3>2
      <4> QED BY <1>8, <1>11, <1>12, <2>3, <3>2, <4>1
    <3> QED BY <1>13, <2>3, <3>1, <3>2
  <2>4. Range(doing') = {}
    BY <1>0 DEF Range
  <2>5. file'[1] = Meta /\ file'[2] = Newline
    BY <1>0, <1>6, <1>8 DEF Stored
  <2> QED BY <1>0, <2>1, <2>2, <2>3, <2>4, <2>5 DEF Stored
<1>15. Alone'
  <2>1. file'[End'] = Newline
    BY <1>8
  <2>2. ASSUME NEW k \in DOMAIN log', log'[k].ok, k = 1 \/ log'[k - 1].ok
        PROVE  \E j \in 2 .. End' - 1 : file'[j] = log'[k].line /\ file'[j - 1] = Newline /\ file'[j + 1] = Newline
    <3>1. CASE k \in 1 .. Len(log)
      <4>1. k = 1 \/ k - 1 \in 1 .. Len(log)
        BY <1>5, <3>1
      <4>2. k \in DOMAIN log /\ log[k].ok /\ (k = 1 \/ log[k - 1].ok) /\ log'[k] = log[k]
        BY <1>5, <2>2, <3>1, <4>1
      <4>3. PICK j \in 2 .. End - 1 : file[j] = log[k].line /\ file[j - 1] = Newline /\ file[j + 1] = Newline
        BY <1>0, <4>2 DEF Alone
      <4>4. j \in 2 .. End' - 1 /\ j \in 1 .. End /\ j - 1 \in 1 .. End /\ j + 1 \in 1 .. End
        BY <1>6, <1>8
      <4> QED BY <1>8, <4>2, <4>3, <4>4
    <3>2. CASE k = Len(log) + 1
      <4>1. log = <<>> \/ log[Len(log)].ok
        <5>1. CASE k = 1
          BY <1>0, <1>5, <3>2, <5>1, EmptySeq DEF TypeOK
        <5>2. CASE k # 1
          <6>1. k - 1 = Len(log) /\ Len(log) \in 1 .. Len(log)
            BY <1>5, <2>2, <3>2, <5>2
          <6> QED BY <1>5, <2>2, <5>2, <6>1
        <5> QED BY <5>1, <5>2
      <4>2. file[End] = Newline
        BY <1>0, <4>1 DEF Alone
      <4>3. End + 1 \in 2 .. End' - 1 /\ End + 1 - 1 = End /\ End + 1 + 1 = End + 2 /\ End \in 1 .. End
        BY <1>6, <1>8
      <4>4. file'[End + 1] = log'[k].line /\ file'[End + 1 - 1] = Newline /\ file'[End + 1 + 1] = Newline
        BY <1>2, <1>5, <1>8, <3>2, <4>2, <4>3
      <4> QED BY <4>3, <4>4
    <3> QED BY <1>5, <2>2, <3>1, <3>2
  <2> QED BY <2>1, <2>2 DEF Alone
<1> QED BY <1>9, <1>10, <1>14, <1>15 DEF FileInv

-----------------------------------------------------------------------------
\* Wherever a write stops, raises or returns, each line in the file was appended, in the order of the session, and
\* has a row of its own if its append and the one before held (RolloutRecorder._append).
THEOREM RolloutInductive == Spec => []FileInv
<1>1. ASSUME FileInv, [Next]_vars PROVE FileInv'
  <2>1. CASE TurnStep \/ Ends
    BY <1>1, <2>1, SessionMoves, MovesKeep DEF FileInv
  <2>2. CASE UNCHANGED vars
    BY <1>1, <2>2 DEF FileInv, TypeOK, Writing, Stored, Alone, IsLine, End, vars, appendVars, sessionVars
  <2> QED BY <1>1, <2>1, <2>2, PartKeeps, RaiseKeeps, ReturnKeeps DEF Next
<1>2. FileInv /\ [Next]_vars => FileInv'
  BY <1>1
<1> QED BY <1>2, FileStarts, PTL DEF Spec

\* Whatever the session records, wherever one of its writes stops or fails, and whenever its process ends: the rows
\* of the file that parse are lines it appended, each once and in order, and every line is among them whose append
\* came to its end, and the one before it (RolloutRecorder._append, read_rollout).
THEOREM Durable == Spec => []AppendedLinesAreRead
<1>1. FileInv => AppendedLinesAreRead
  <2> SUFFICES ASSUME FileInv PROVE AppendedLinesAreRead
    OBVIOUS
  <2>0. /\ TypeOK /\ Writing /\ Stored /\ Alone
        /\ Len(file) \in Nat /\ End \in Int /\ End >= 2 /\ End <= Len(file)
        /\ DOMAIN file = 1 .. Len(file) /\ DOMAIN log = 1 .. Len(log)
    BY Sizes DEF FileInv, Writing
  <2>1. 1 \in Rows(file) /\ file[1] = Meta
    <3>1. Meta.kind \in Kinds /\ 1 \in 1 .. Len(file)
      BY <2>0 DEF Meta, Line, Kinds
    <3> QED BY <2>0, <3>1 DEF Stored, Rows, InRow
  <2>2. ASSUME NEW i \in 1 .. Len(file), IsLine(i), i > End
        PROVE  i = End + 1 /\ doing # <<>> /\ file[i] = doing[1] /\ doing[1] \in Range(doing)
    <3>1. PICK line \in Recorded : doing = <<line>> /\ part \in Partial(line)
      <4>1. part # <<>>
        BY <2>0, <2>2 DEF End
      <4> QED BY <2>0, <4>1 DEF Writing
    <3>2. Len(part) \in {0, 1} /\ Len(file) = End + Len(part)
      BY <2>0, <3>1, Sizes DEF Partial, End
    <3>3. Len(part) = 1
      BY <2>0, <2>2, <3>2
    <3>4. i = End + 1 /\ i - End = 1
      BY <2>0, <2>2, <3>2, <3>3
    <3>5. file[i] = part[1] /\ part[1] \in {Cut, Broken, line}
      BY <2>0, <2>2, <3>1, <3>3, <3>4 DEF Writing, Partial
    <3>6. Cut.kind \notin Kinds /\ Broken.kind \notin Kinds
      BY DEF Cut, Broken, Line, Kinds, Items, Endings
    <3> QED BY <2>2, <3>1, <3>4, <3>5, <3>6 DEF IsLine, Range
  <2>3. \A i \in Rows(file) \ {1} : i \in 2 .. Len(file) /\ i \in 1 .. Len(file) /\ IsLine(i)
    BY <2>0 DEF Rows, InRow, IsLine
  <2>4. ASSUME NEW i \in Rows(file) \ {1}, NEW j \in Rows(file) \ {1}, i < j
        PROVE  file[i].n < file[j].n
    <3>1. CASE j <= End
      BY <2>0, <2>3, <2>4, <3>1 DEF Stored
    <3>2. CASE j > End
      <4>1. j = End + 1 /\ file[j] = doing[1] /\ doing[1] \in Range(doing) /\ i \in 1 .. End
        BY <2>0, <2>2, <2>3, <2>4, <3>2
      <4> QED BY <2>0, <2>3, <2>4, <4>1 DEF Stored
    <3> QED BY <2>0, <2>3, <3>1, <3>2
  <2>5. ASSUME NEW i \in Rows(file) \ {1} PROVE file[i] \in Range(Appended) \cup Range(doing)
    <3>1. CASE i <= End
      <4>1. PICK k \in DOMAIN log : file[i] = log[k].line
        BY <2>0, <2>3, <3>1 DEF Stored
      <4>2. k \in DOMAIN Appended /\ Appended[k] = file[i]
        BY <4>1 DEF Appended
      <4> QED BY <4>2 DEF Range
    <3>2. CASE i > End
      BY <2>2, <2>3, <3>2
    <3> QED BY <2>0, <2>3, <3>1, <3>2
  <2>6. ASSUME NEW k \in DOMAIN log, log[k].ok, k = 1 \/ log[k - 1].ok
        PROVE  \E j \in Rows(file) \ {1} : file[j] = log[k].line
    <3>1. PICK j \in 2 .. End - 1 : file[j] = log[k].line /\ file[j - 1] = Newline /\ file[j + 1] = Newline
      BY <2>0, <2>6 DEF Alone
    <3>2. log[k] \in Entry
      BY <2>0, ElementOfSeq DEF TypeOK
    <3>3. log[k].line.kind \in Kinds /\ j \in DOMAIN file /\ j # 1
      BY <2>0, <3>2 DEF Entry, Recorded
    <3>4. InRow(file, j)
      BY <3>1, <3>3 DEF InRow
    <3> QED BY <3>1, <3>3, <3>4 DEF Rows
  <2> QED BY <2>1, <2>4, <2>5, <2>6 DEF AppendedLinesAreRead
<1> QED BY <1>1, RolloutInductive, PTL

-----------------------------------------------------------------------------
(* What the session has recorded.                                          *)

\* What the session has recorded in its file, or is about to.
Given == { log[i].line : i \in DOMAIN log } \cup Range(doing)

\* Where the session goes on.
Ahead == IF pc = "append" THEN {then.returned, then.raised} ELSE {pc}

\* The lines are numbered as they come, and so are the turns.
Numbered ==
  /\ \A i, j \in DOMAIN log : i < j => log[i].line.n < log[j].line.n
  /\ \A i \in DOMAIN log : \A line \in Range(doing) : log[i].line.n < line.n
  /\ \A x, y \in Given : x.n < y.n => x.turn <= y.turn
  /\ \A x \in Given : x \in Recorded /\ x.turn \in 1 .. turn /\ x.kind # "meta" /\ x.n <= count

\* The start of a turn.
IsStart(x, t) == x.kind = "started" /\ x.turn = t
HasStart(t)   == \E x \in Given : IsStart(x, t)

\* A turn starts once, before its items; and unless an append failed each does.
Begun ==
  /\ \A x, y \in Given : x.kind = "started" /\ IsStart(y, x.turn) => x = y
  /\ \A x, y \in Given : IsStart(x, y.turn) /\ y.kind \in Items => x.n < y.n
  /\ "opened" \in Ahead => \A x \in Given : x.turn = turn => x.kind = "context"
  /\ turn = 0 => pc \in {"idle", "ended"}
  /\ ~Failed =>
       /\ \A t \in 1 .. turn - 1 : HasStart(t)
       /\ \A y \in Given : y.kind # "context" => HasStart(y.turn)
       /\ pc = "ended" \/ turn = 0 \/ "opened" \in Ahead \/ HasStart(turn)

\* What history holds.
Item == [kind : Kinds \cup {"other"}, turn : Nat, n : Nat]

\* Until a compaction, history is what the session began with and the items recorded since.
Remembered == ~compacted =>
  /\ history \in Seq(Item) /\ history # <<>>
  /\ \A i \in 2 .. Len(history) : history[i].n \in 1 .. count
  /\ \A i, j \in 2 .. Len(history) : i < j => history[i].n < history[j].n
  /\ \A i \in 2 .. Len(history) : history[i].kind \in Items => history[i] \in Given
  /\ \A x \in Given : x.kind \in Items => \E i \in 2 .. Len(history) : history[i] = x

\* Where a turn goes on; where it has no open call; where it no longer goes on.
Within == {"opened", "submit", "extras", "prompted", "step", "stream", "said", "calls"}
Clear  == {"idle", "opened", "submit", "extras", "prompted", "aborting"}
Over   == {"idle", "failing", "ended"}

\* The turn goes well so far, or its last line so far is being written.
Working == pc \in Within \/ (pc = "append" /\ then.returned \in Within)

\* Each item of turn t was appended for good, and so was the line before it.
Sound(t) == \A i \in DOMAIN log : log[i].line.turn = t /\ log[i].line.kind \in Items =>
  log[i].ok /\ i > 1 /\ log[i - 1].ok

\* The appended lines of a turn that are of a kind, and whether the line in hand is.
CountAt(kind, t) == { i \in DOMAIN log : log[i].line.turn = t /\ log[i].line.kind = kind }
Count(kind, t)   == Len(Selected(Appended, CountAt(kind, t)))
Doing(kind)      == IF \E line \in Range(doing) : line.kind = kind THEN 1 ELSE 0

\* The calls without an output are those the session has in hand.
Balanced ==
  /\ open \in Seq(Recorded) /\ \A line \in Range(doing) : line.turn = turn
  /\ then.raised \in {"idle", "failing"} /\ then.returned \in {"idle", "aborting"} \cup Within
  /\ Ahead \cap Clear # {} => open = <<>>
  /\ "calls" \in Ahead => open # <<>>
  /\ Working =>
       /\ Sound(turn)
       /\ (\E line \in Range(doing) : line.kind = "context") \/ (log # <<>> /\ log[Len(log)].ok)
       /\ Count("call", turn) + Doing("call") = Count("output", turn) + Doing("output") + Len(open)

\* The turn of a task_complete has all its items in the file, in balance, and they came before it.
CompletedBy(c) ==
  /\ Sound(c.turn) /\ Count("call", c.turn) = Count("output", c.turn)
  /\ \A x \in Given : x.turn = c.turn /\ x.kind \in Items => x.n < c.n
  /\ c.turn = turn => Ahead \subseteq Over

Completed == \A c \in Given : c.kind = "complete" => CompletedBy(c)

\* The invariant of the session.
SessionInv == FileInv /\ Numbered /\ Begun /\ Remembered /\ Balanced /\ Completed

-----------------------------------------------------------------------------
(* What a step does to what was recorded.                                  *)

\* It begins to write a line:
Recording(line, returned, raised) ==
  /\ doing = <<>> /\ doing' = <<line>> /\ pc' = "append"
  /\ then' = [returned |-> returned, raised |-> raised]
  /\ line \in Recorded /\ line.n = count + 1 /\ count' = count + 1 /\ line.turn = turn'
  /\ returned \in Places \ {"append"} /\ raised \in {"idle", "failing"}
  /\ UNCHANGED <<file, part, log, compacted>>
  /\ history' = IF line.kind \in Items THEN Append(history, line) ELSE history

\* the first of a turn, its start, one of its lines, its last, or what is said of a turn that fails;
BeginsTurn == \E line :
  /\ Recording(line, "opened", "idle")
  /\ line.kind = "context" /\ pc = "idle" /\ turn' = turn + 1 /\ open' = open

StartsTurn == \E line :
  /\ Recording(line, "submit", "idle")
  /\ line.kind = "started" /\ pc = "opened" /\ turn' = turn /\ open' = open

Works == \E line, returned, raised :
  /\ Recording(line, returned, raised)
  /\ line.kind \in Items \cup {"event"} /\ pc \in Within \ {"opened"} /\ turn' = turn
  /\ returned \in Within \ {"opened"}
  /\ line.kind = "call" => open' = Append(open, line)
  /\ line.kind = "output" => open # <<>> /\ open' = Tail(open)
  /\ line.kind \notin {"call", "output"} => open' = open
  /\ returned \in Clear \/ raised = "idle" => open' = <<>>
  /\ returned = "calls" => open' # <<>>

Completes == \E line :
  /\ Recording(line, "idle", "failing")
  /\ line.kind = "complete" /\ pc = "stream" /\ turn' = turn /\ open = <<>> /\ open' = <<>>

Breaks == \E line, returned :
  /\ Recording(line, returned, "idle")
  /\ line.kind \in {"user", "aborted", "error"} /\ pc \in Within \cup {"aborting", "failing"} /\ turn' = turn
  /\ line.kind \in Items => pc \in Within
  /\ pc # "opened" /\ returned \in {"idle", "aborting"} /\ (returned = "aborting" => pc \in Within) /\ open' = <<>>

\* or no line of the file at all,
Passes ==
  /\ UNCHANGED <<file, part, log, doing, then, turn, open>> /\ count' \in {count, count + 1}
  /\ \/ pc' = "ended"
     \/ /\ pc \notin {"append", "opened", "ended", "aborting"} /\ pc' \in (Within \ {"opened"}) \cup {"idle", "failing"}
        /\ pc \in Over => pc' = pc
        /\ pc' \in Clear => open = <<>>
        /\ pc' = "calls" => open # <<>>
  /\ \/ UNCHANGED <<history, compacted>>
     \/ compacted'
     \/ compacted' = compacted /\ \E item \in Item :
          history' = Append(history, item) /\ item.kind \notin Items /\ item.n = count + 1 /\ count' = count + 1

\* or it comes to the end of the line.
Lands(ok) ==
  /\ pc = "append" /\ \E line \in Recorded : doing = <<line>> /\ log' = Append(log, [line |-> line, ok |-> ok])
  /\ doing' = <<>> /\ pc' = IF ok THEN then.returned ELSE then.raised
  /\ UNCHANGED <<then, turn, open, history, compacted, count>>

\* Between appends no line is being written.
LEMMA Idle == FileInv => (pc \notin {"append", "ended"} => doing = <<>>) /\ count \in Nat /\ turn \in Nat
BY DEF FileInv, Writing, TypeOK

\* record_event of a kind that is persisted.
LEMMA EventRecording ==
  ASSUME doing = <<>>, NEW kind \in Kinds, kind \notin Items, NEW number \in Nat, turn' = number, count \in Nat,
         NEW returned \in Places \ {"append"}, NEW raised \in {"idle", "failing"},
         RecordEvent(Line(kind, number, count + 1), returned, raised)
  PROVE  Recording(Line(kind, number, count + 1), returned, raised)
BY DEF RecordEvent, Goes, Persisted, Line, Recorded, Recording

\* record_item of a kind that is persisted.
LEMMA ItemRecording ==
  ASSUME doing = <<>>, NEW kind \in Items, NEW number \in Nat, turn' = number, count \in Nat,
         NEW returned \in Places \ {"append"}, NEW raised \in {"idle", "failing"},
         RecordItem(Line(kind, number, count + 1), returned, raised)
  PROVE  Recording(Line(kind, number, count + 1), returned, raised)
BY DEF RecordItem, Goes, Persisted, Line, Recorded, Recording, Kinds

\* What each step of the turn is, of these.
LEMMA SessionDoes ==
  ASSUME SessionInv, TurnStep \/ Ends
  PROVE  BeginsTurn \/ StartsTurn \/ Works \/ Completes \/ Breaks \/ Passes
<1>0. /\ count \in Nat /\ turn \in Nat /\ turn + 1 \in Nat /\ (pc \notin {"append", "ended"} => doing = <<>>)
      /\ open \in Seq(Recorded) /\ (pc \notin {"append"} => Ahead = {pc})
      /\ (pc \in Clear => open = <<>>) /\ (pc = "calls" => open # <<>>)
  <2>1. count \in Nat /\ turn \in Nat /\ (pc \notin {"append", "ended"} => doing = <<>>) /\ open \in Seq(Recorded)
    BY Idle DEF SessionInv, Balanced
  <2>2. pc # "append" => Ahead = {pc}
    BY DEF Ahead
  <2>3. pc \in Clear => pc # "append"
    BY DEF Clear
  <2> QED BY <2>1, <2>2, <2>3 DEF SessionInv, Balanced
<1>k. /\ {"context", "started", "event", "complete", "aborted", "error"} \subseteq Kinds \ Items
      /\ {"user", "assistant", "call", "output"} = Items
  BY DEF Kinds, Items, Endings
<1>1. CASE TurnContext
  <2>1. Recording(Line("context", turn + 1, count + 1), "opened", "idle")
    BY <1>0, <1>1, <1>k, EventRecording DEF TurnContext, Places
  <2> QED BY <1>1, <2>1 DEF TurnContext, BeginsTurn, Line
<1>2. CASE TaskStarted
  <2>1. Recording(Line("started", turn, count + 1), "submit", "idle")
    BY <1>0, <1>2, <1>k, EventRecording DEF TaskStarted, Places, New
  <2> QED BY <1>2, <2>1 DEF TaskStarted, StartsTurn, Line
<1>3. CASE PromptBlocked \/ Request \/ Raises
  <2>1. UNCHANGED <<file, part, log, doing, then, turn, open, history, compacted, count>>
    BY <1>3 DEF PromptBlocked, Request, Raises, appendVars
  <2>2. pc \notin {"append", "opened", "ended", "aborting"} /\ pc' \in (Within \ {"opened"}) \cup {"idle", "failing"}
        /\ (pc \in Over => pc' = pc) /\ (pc' \in Clear => open = <<>>) /\ pc' # "calls"
    BY <1>0, <1>3 DEF PromptBlocked, Request, Raises, Within, Over, Clear
  <2> QED BY <2>1, <2>2 DEF Passes
<1>4. CASE Prompt
  <2>1. PICK next \in {"extras", "prompted"} : RecordItem(New("user"), next, "idle")
    BY <1>4 DEF Prompt
  <2>2. Recording(Line("user", turn, count + 1), next, "idle")
    BY <1>0, <1>4, <1>k, <2>1, ItemRecording DEF Prompt, Places, New
  <2>3. pc \in Clear /\ pc \in Within \ {"opened"} /\ next \in Within \ {"opened"} /\ next # "calls" /\ turn' = turn /\ open' = open
    BY <1>4, <2>1 DEF Prompt, Clear, Within
  <2> QED BY <1>0, <1>k, <2>2, <2>3 DEF Works, Line
<1>5. CASE UserMessage
  <2>1. Recording(Line("event", turn, count + 1), "step", "idle")
    BY <1>0, <1>5, <1>k, EventRecording DEF UserMessage, Places, New
  <2>2. pc \in Clear /\ pc \in Within \ {"opened"} /\ "step" \in Within \ {"opened"} /\ "step" \notin Clear
    BY <1>5 DEF UserMessage, Clear, Within
  <2> QED BY <1>0, <1>5, <1>k, <2>1, <2>2 DEF Works, Line, UserMessage
<1>6. CASE Steering
  <2>1. Recording(Line("user", turn, count + 1), "step", "failing")
    BY <1>0, <1>6, <1>k, ItemRecording DEF Steering, Places, New
  <2>2. pc \in Within \ {"opened"} /\ "step" \in Within \ {"opened"} /\ "step" \notin Clear
    BY <1>6 DEF Steering, Clear, Within
  <2> QED BY <1>0, <1>6, <1>k, <2>1, <2>2 DEF Works, Line, Steering
<1>7. CASE Compaction \/ CompactOp
  <2>1. ~Persisted(New("compacted"))
    BY DEF Persisted, New, Line, Kinds, Items, Endings
  <2>2. UNCHANGED <<file, part, log, doing, then, turn, open>> /\ count' = count + 1 /\ compacted'
    BY <1>7, <2>1 DEF Compaction, CompactOp, Compacts, Goes
  <2>3. \/ pc = "step" /\ pc' = "stream"
        \/ pc \in {"idle", "stream", "calls"} /\ pc' = pc
    BY <1>7, <2>1 DEF Compaction, CompactOp, Goes
  <2>4. pc \notin {"append", "opened", "ended", "aborting"} /\ pc' \in (Within \ {"opened"}) \cup {"idle", "failing"}
        /\ (pc \in Over => pc' = pc) /\ (pc' \in Clear => open = <<>>) /\ (pc' = "calls" => open # <<>>)
    BY <1>0, <2>3 DEF Within, Over, Clear
  <2> QED BY <2>2, <2>4 DEF Passes
<1>8. CASE StreamCall
  <2>1. Recording(Line("call", turn, count + 1), "stream", "failing")
    BY <1>0, <1>8, <1>k, ItemRecording DEF StreamCall, Places, New
  <2>2. pc \in Within \ {"opened"} /\ "stream" \in Within \ {"opened"} /\ "stream" \notin Clear
    BY <1>8 DEF StreamCall, Clear, Within
  <2> QED BY <1>8, <1>k, <2>1, <2>2 DEF Works, Line, StreamCall, New
<1>9. CASE StreamMessage
  <2>1. PICK next \in {"said", "stream"} : RecordItem(New("assistant"), next, "failing")
    BY <1>9 DEF StreamMessage
  <2>2. Recording(Line("assistant", turn, count + 1), next, "failing")
    BY <1>0, <1>9, <1>k, <2>1, ItemRecording DEF StreamMessage, Places, New
  <2>3. pc \in Within \ {"opened"} /\ next \in Within \ {"opened"} /\ next \notin Clear /\ next # "calls" /\ turn' = turn /\ open' = open
    BY <1>9, <2>1 DEF StreamMessage, Clear, Within
  <2> QED BY <1>k, <2>2, <2>3 DEF Works, Line
<1>10. CASE AgentMessage
  <2>1. Recording(Line("event", turn, count + 1), "stream", "failing")
    BY <1>0, <1>10, <1>k, EventRecording DEF AgentMessage, Places, New
  <2>2. pc \in Within \ {"opened"} /\ "stream" \in Within \ {"opened"} /\ "stream" \notin Clear
    BY <1>10 DEF AgentMessage, Clear, Within
  <2> QED BY <1>10, <1>k, <2>1, <2>2 DEF Works, Line, AgentMessage
<1>11. CASE StreamOther
  <2>1. ~Persisted(New("other"))
    BY DEF Persisted, New, Line, Kinds, Items, Endings
  <2>2. /\ UNCHANGED <<file, part, log, doing, then, turn, open, compacted>> /\ count' = count + 1
        /\ history' = Append(history, New("other")) /\ pc = "stream" /\ pc' = "stream"
    BY <1>11, <2>1 DEF StreamOther, RecordItem, Goes
  <2>3. New("other") \in Item /\ New("other").kind \notin Items /\ New("other").n = count + 1
    <3>1. New("other") = [kind |-> "other", turn |-> turn, n |-> count + 1] /\ count + 1 \in Nat /\ turn \in Nat
      BY <1>0 DEF New, Line
    <3>2. [kind |-> "other", turn |-> turn, n |-> count + 1] \in Item
      BY <3>1 DEF Item
    <3> QED BY <3>1, <3>2 DEF Items
  <2>4. "stream" \in Within \ {"opened"} /\ "stream" \notin Over /\ "stream" \notin Clear
    BY DEF Within, Over, Clear
  <2> QED BY <2>2, <2>3, <2>4 DEF Passes
<1>12. CASE StreamEnd
  <2>1. CASE pc' = (IF open # <<>> THEN "calls" ELSE "step") /\ UNCHANGED <<appendVars, then, turn, open, history, compacted, count>>
    <3>1. pc \notin {"append", "opened", "ended", "aborting"} /\ pc' \in (Within \ {"opened"}) \cup {"idle", "failing"}
          /\ (pc \in Over => pc' = pc) /\ (pc' \in Clear => open = <<>>) /\ (pc' = "calls" => open # <<>>)
      BY <1>12, <2>1 DEF StreamEnd, Within, Over, Clear
    <3> QED BY <2>1, <3>1 DEF Passes, appendVars
  <2>2. CASE open = <<>> /\ RecordEvent(New("complete"), "idle", "failing") /\ UNCHANGED <<turn, open>>
    <3>1. Recording(Line("complete", turn, count + 1), "idle", "failing")
      BY <1>0, <1>12, <1>k, <2>2, EventRecording DEF StreamEnd, Places, New
    <3> QED BY <1>12, <2>2, <3>1 DEF StreamEnd, Completes, Line
  <2> QED BY <1>12, <2>1, <2>2 DEF StreamEnd
<1>13. CASE DuringCall
  <2>1. "calls" \in Within \ {"opened"} /\ "calls" \notin Clear /\ open # <<>> /\ open' = open /\ turn' = turn /\ pc = "calls" /\ doing = <<>>
    BY <1>0, <1>13 DEF DuringCall, Clear, Within
  <2>2. CASE RecordEvent(New("event"), "calls", "failing")
    <3>1. Recording(Line("event", turn, count + 1), "calls", "failing")
      BY <1>0, <1>k, <2>1, <2>2, EventRecording DEF Places, New
    <3> QED BY <1>k, <2>1, <3>1 DEF Works, Line
  <2>3. CASE RecordItem(New("user"), "calls", "failing")
    <3>1. Recording(Line("user", turn, count + 1), "calls", "failing")
      BY <1>0, <1>k, <2>1, <2>3, ItemRecording DEF Places, New
    <3> QED BY <1>k, <2>1, <3>1 DEF Works, Line
  <2> QED BY <1>13, <2>2, <2>3 DEF DuringCall
<1>14. CASE Output
  <2> DEFINE next == IF Tail(open) = <<>> THEN "step" ELSE "calls"
  <2>1. RecordItem(New("output"), next, "failing") /\ doing = <<>> /\ turn' = turn /\ open' = Tail(open) /\ open # <<>> /\ pc = "calls"
    BY <1>0, <1>14 DEF Output
  <2>2. next \in Within \ {"opened"} /\ next \in Places \ {"append"} /\ next \notin Clear /\ (next = "calls" => Tail(open) # <<>>)
    BY DEF Within, Places, Clear
  <2> HIDE DEF next
  <2>3. Recording(Line("output", turn, count + 1), next, "failing")
    BY <1>0, <1>k, <2>1, <2>2, ItemRecording DEF New
  <2>4. "calls" \in Within \ {"opened"}
    BY DEF Within
  <2> QED BY <1>k, <2>1, <2>2, <2>3, <2>4 DEF Works, Line
<1>15. CASE Cancelled
  <2>1. Recording(Line("user", turn, count + 1), "aborting", "idle")
    BY <1>0, <1>15, <1>k, ItemRecording DEF Cancelled, Places, New
  <2>2. pc \in Within /\ pc # "opened"
    BY <1>15 DEF Cancelled, Within
  <2> QED BY <1>15, <2>1, <2>2 DEF Breaks, Line, Cancelled
<1>16. CASE TurnAborted
  <2>1. Recording(Line("aborted", turn, count + 1), "idle", "idle")
    BY <1>0, <1>16, <1>k, EventRecording DEF TurnAborted, Places, New
  <2>2. open = <<>> /\ pc # "opened" /\ "aborted" \notin Items
    BY <1>0, <1>k, <1>16 DEF TurnAborted, Clear
  <2> QED BY <1>16, <2>1, <2>2 DEF Breaks, Line, TurnAborted
<1>17. CASE Error
  <2>1. Recording(Line("error", turn, count + 1), "idle", "idle")
    BY <1>0, <1>17, <1>k, EventRecording DEF Error, Places, New
  <2>2. pc # "opened" /\ "error" \notin Items
    BY <1>k, <1>17 DEF Error
  <2> QED BY <1>17, <2>1, <2>2 DEF Breaks, Line, Error
<1>18. CASE Ends
  BY <1>18 DEF Ends, Passes, appendVars
<1> QED BY <1>1, <1>2, <1>3, <1>4, <1>5, <1>6, <1>7, <1>8, <1>9, <1>10, <1>11, <1>12, <1>13, <1>14, <1>15,
           <1>16, <1>17, <1>18 DEF TurnStep

-----------------------------------------------------------------------------
(* What was given, and its numbers.                                        *)

\* The log and the lines that were given.
LEMMA LogTyped ==
  ASSUME FileInv
  PROVE  /\ Len(log) \in Nat /\ DOMAIN log = 1 .. Len(log)
         /\ \A i \in 1 .. Len(log) : log[i] \in Entry /\ log[i].line \in Recorded /\ log[i].line \in Given
         /\ count \in Nat /\ turn \in Nat
         /\ \A x \in Given : x \in Range(doing) \/ \E i \in 1 .. Len(log) : x = log[i].line
         /\ \A x \in Range(doing) : x \in Given
<1>1. TypeOK /\ Len(log) \in Nat /\ DOMAIN log = 1 .. Len(log)
  BY Sizes DEF FileInv
<1>2. \A i \in 1 .. Len(log) : log[i] \in Entry
  BY <1>1, ElementOfSeq DEF TypeOK
<1> QED BY <1>1, <1>2 DEF Given, Entry, TypeOK

\* A line that begins to be written is given.
LEMMA GivenMore ==
  ASSUME NEW line, NEW returned, NEW raised, Recording(line, returned, raised)
  PROVE  /\ Range(doing) = {} /\ Range(doing') = {line} /\ Given' = Given \cup {line} /\ log' = log
         /\ Ahead' = {returned, raised} /\ (\A t : Sound(t)' = Sound(t)) /\ (Failed' = Failed)
         /\ \A kind, t : Count(kind, t)' = Count(kind, t)
<1>1. doing = <<>> /\ doing' = <<line>> /\ log' = log /\ pc' = "append" /\ then' = [returned |-> returned, raised |-> raised]
  BY DEF Recording
<1>2. Range(doing) = {} /\ Range(doing') = {line}
  BY <1>1 DEF Range
<1>3. Given' = Given \cup {line}
  BY <1>1, <1>2 DEF Given
<1>4. (\A t : Sound(t)' = Sound(t)) /\ (Failed' = Failed) /\ \A kind, t : Count(kind, t)' = Count(kind, t)
  BY <1>1 DEF Sound, Failed, Count, CountAt, Appended
<1> QED BY <1>1, <1>2, <1>3, <1>4 DEF Ahead

\* What is given and what is said of the log depend on the line and the log alone.
LEMMA GivenStays ==
  ASSUME UNCHANGED <<doing, log>>
  PROVE  /\ Given' = Given /\ Range(doing') = Range(doing) /\ (\A t : Sound(t)' = Sound(t)) /\ (Failed' = Failed)
         /\ \A kind, t : Count(kind, t)' = Count(kind, t)
BY DEF Given, Sound, Failed, Count, CountAt, Appended

\* At its end the line goes from hand into the log.
LEMMA GivenLands ==
  ASSUME FileInv, NEW ok \in BOOLEAN, Lands(ok)
  PROVE  \E line \in Recorded :
         /\ doing = <<line>> /\ Range(doing) = {line} /\ Range(doing') = {} /\ Given' = Given /\ line \in Given
         /\ Len(log') = Len(log) + 1 /\ (\A i \in 1 .. Len(log) : log'[i] = log[i])
         /\ DOMAIN log' = 1 .. Len(log) + 1 /\ log' # <<>>
         /\ log'[Len(log) + 1] = [line |-> line, ok |-> ok]
         /\ Ahead' \subseteq Ahead /\ log' = Append(log, [line |-> line, ok |-> ok])
<1>1. PICK line \in Recorded : doing = <<line>> /\ log' = Append(log, [line |-> line, ok |-> ok])
  BY DEF Lands
<1> DEFINE entry == [line |-> line, ok |-> ok]
<1>2. entry \in Entry /\ log \in Seq(Entry) /\ entry.line = line
  BY DEF Entry, FileInv, TypeOK
<1> HIDE DEF entry
<1>3. /\ log' = Append(log, entry) /\ log' \in Seq(Entry) /\ Len(log') = Len(log) + 1 /\ log' # <<>>
      /\ \A i \in 1 .. Len(log) : log'[i] = log[i]
      /\ log'[Len(log) + 1] = entry
  BY <1>1, <1>2, AppendProperties DEF entry
<1>4. DOMAIN log' = 1 .. Len(log) + 1 /\ DOMAIN log = 1 .. Len(log) /\ Len(log) \in Nat
  BY <1>2, <1>3, LenProperties
<1>5. Range(doing) = {line} /\ Range(doing') = {}
  BY <1>1 DEF Range, Lands
<1>6. Given' = Given /\ line \in Given
  <2>1. \A i \in 1 .. Len(log) + 1 : i = Len(log) + 1 \/ i \in 1 .. Len(log)
    BY <1>4
  <2>2. \A i \in 1 .. Len(log) : i \in 1 .. Len(log) + 1 /\ i + 0 = i
    BY <1>4
  <2>3. Len(log) + 1 \in 1 .. Len(log) + 1
    BY <1>4
  <2>4. { log'[i].line : i \in DOMAIN log' } = { log[i].line : i \in DOMAIN log } \cup {line}
    BY <1>2, <1>3, <1>4, <2>1, <2>2, <2>3
  <2> QED BY <1>5, <2>4 DEF Given
<1>7. Ahead' \subseteq Ahead
  <2>1. Ahead = {then.returned, then.raised} /\ pc' \in {then.returned, then.raised}
    BY DEF Ahead, Lands
  <2>2. then' = then
    BY DEF Lands
  <2> QED BY <2>1, <2>2 DEF Ahead
<1> QED BY <1>1, <1>3, <1>4, <1>5, <1>6, <1>7 DEF entry

-----------------------------------------------------------------------------
(* The numbers.                                                            *)

\* The next line has the next number, and the turn of the session.
LEMMA NumberedMore ==
  ASSUME FileInv, Numbered, NEW line, NEW returned, NEW raised, Recording(line, returned, raised),
         turn' \in {turn, turn + 1}, turn' >= 1, line.kind # "meta"
  PROVE  Numbered'
<1>1. /\ Range(doing') = {line} /\ Given' = Given \cup {line} /\ log' = log
      /\ line \in Recorded /\ line.n = count + 1 /\ count' = count + 1 /\ line.turn = turn'
  BY GivenMore DEF Recording
<1>2. count \in Nat /\ turn \in Nat /\ turn <= turn' /\ turn' \in Nat
  BY LogTyped
<1>3. \A x \in Given : x \in Recorded /\ x.turn \in 1 .. turn /\ x.kind # "meta" /\ x.n <= count /\ x.n \in Nat
  BY DEF Numbered, Recorded
<1>4. \A x \in Given' : x \in Recorded /\ x.turn \in 1 .. turn' /\ x.kind # "meta" /\ x.n <= count'
  <2>1. line.turn \in 1 .. turn' /\ line.n <= count'
    BY <1>1, <1>2
  <2>2. \A x \in Given : x.turn \in 1 .. turn' /\ x.n <= count'
    BY <1>1, <1>2, <1>3
  <2> QED BY <1>1, <1>3, <2>1, <2>2
<1>5. \A x, y \in Given' : x.n < y.n => x.turn <= y.turn
  <2> TAKE x, y \in Given'
  <2> HAVE x.n < y.n
  <2>1. CASE x \in Given /\ y \in Given
    BY <2>1 DEF Numbered
  <2>2. CASE y = line
    <3>1. x.turn \in 1 .. turn'
      BY <1>4
    <3> QED BY <1>1, <1>2, <2>2, <3>1
  <2>3. CASE x = line /\ y \in Given
    BY <1>1, <1>2, <1>3, <2>3
  <2> QED BY <1>1, <2>1, <2>2, <2>3
<1>6. \A i \in DOMAIN log : log[i].line.n < line.n
  BY <1>1, <1>2, <1>3, LogTyped
<1>7. \A i, j \in DOMAIN log : i < j => log[i].line.n < log[j].line.n
  BY DEF Numbered
<1> QED BY <1>1, <1>4, <1>5, <1>6, <1>7 DEF Numbered

\* A step that records no line keeps the order.
LEMMA NumberedStays ==
  ASSUME FileInv, Numbered, UNCHANGED <<doing, log, turn>>, count' \in {count, count + 1}
  PROVE  Numbered'
<1>1. Given' = Given /\ count \in Nat /\ Range(doing') = Range(doing)
  BY GivenStays, LogTyped
<1>2. \A x \in Given : x.n <= count' /\ x \in Recorded
  BY <1>1 DEF Numbered, Recorded
<1> QED BY <1>1, <1>2 DEF Numbered

\* The line was numbered after those of the log.
LEMMA NumberedLands ==
  ASSUME FileInv, Numbered, NEW ok \in BOOLEAN, Lands(ok)
  PROVE  Numbered'
<1>1. PICK line \in Recorded :
         /\ Range(doing) = {line} /\ Range(doing') = {} /\ Given' = Given /\ line \in Given
         /\ Len(log') = Len(log) + 1 /\ (\A i \in 1 .. Len(log) : log'[i] = log[i])
         /\ DOMAIN log' = 1 .. Len(log) + 1
         /\ log'[Len(log) + 1] = [line |-> line, ok |-> ok]
  BY GivenLands
<1>2. count' = count /\ turn' = turn
  BY DEF Lands
<1>3. Len(log) \in Nat /\ DOMAIN log = 1 .. Len(log)
  BY LogTyped
<1>4. \A i, j \in 1 .. Len(log) + 1 : i < j => log'[i].line.n < log'[j].line.n
  <2> TAKE i, j \in 1 .. Len(log) + 1
  <2> HAVE i < j
  <2>1. i \in 1 .. Len(log)
    BY <1>3
  <2>2. CASE j = Len(log) + 1
    BY <1>1, <1>3, <2>1, <2>2 DEF Numbered
  <2>3. CASE j \in 1 .. Len(log)
    BY <1>1, <1>3, <2>1, <2>3 DEF Numbered
  <2> QED BY <1>3, <2>2, <2>3
<1>5. \A x, y \in Given' : x.n < y.n => x.turn <= y.turn
  BY <1>1 DEF Numbered
<1>6. \A x \in Given' : x \in Recorded /\ x.turn \in 1 .. turn' /\ x.kind # "meta" /\ x.n <= count'
  BY <1>1, <1>2 DEF Numbered
<1> QED BY <1>1, <1>4, <1>5, <1>6 DEF Numbered

-----------------------------------------------------------------------------
(* The starts of turns.                                                    *)

\* The set that the starts are looked for in, and whether appends failed.
Started(given, t) == \E x \in given : IsStart(x, t)

\* What Begun says of the given lines, the turn, the place, where it goes on, and failures.
StartsIn(given, last, from, ahead) ==
  /\ \A t \in 1 .. last - 1 : Started(given, t)
  /\ \A y \in given : y.kind # "context" => Started(given, y.turn)
  /\ from = "ended" \/ last = 0 \/ "opened" \in ahead \/ Started(given, last)

BegunIn(given, last, from, ahead, failed) ==
  /\ \A x, y \in given : x.kind = "started" /\ IsStart(y, x.turn) => x = y
  /\ \A x, y \in given : IsStart(x, y.turn) /\ y.kind \in Items => x.n < y.n
  /\ "opened" \in ahead => \A x \in given : x.turn = last => x.kind = "context"
  /\ last = 0 => from \in {"idle", "ended"}
  /\ ~failed => StartsIn(given, last, from, ahead)

\* Begun, with what it depends on.
LEMMA BegunIs ==
  /\ Begun <=> BegunIn(Given, turn, pc, Ahead, Failed)
  /\ Begun' <=> BegunIn(Given', turn', pc', Ahead', Failed')
BY DEF Begun, BegunIn, StartsIn, Started, HasStart, IsStart

\* It goes on without a new line;
LEMMA BegunStays ==
  ASSUME NEW given, NEW last, NEW from, NEW ahead, NEW failed \in BOOLEAN, NEW next, NEW later, NEW fails \in BOOLEAN,
         BegunIn(given, last, from, ahead, failed), failed => fails,
         "opened" \in later <=> "opened" \in ahead, last = 0 => next \in {"idle", "ended"},
         from = "ended" => next = "ended"
  PROVE  BegunIn(given, last, next, later, fails)
BY DEF BegunIn, StartsIn

\* and with one: the first of a turn, its start, or one of a turn that has started.
LEMMA BegunMore ==
  ASSUME NEW given, NEW last \in Nat, NEW from, NEW ahead, NEW failed \in BOOLEAN, NEW line, NEW later, NEW now \in Nat,
         BegunIn(given, last, from, ahead, failed), now \in {last, last + 1}, line.turn = now, now # 0,
         \A x \in given : x.n < line.n /\ x.turn <= last /\ x.turn \in Nat /\ line.n \in Nat /\ x.n \in Nat,
         line.kind = "started" => now = last /\ "opened" \in ahead,
         "opened" \in later <=> (now = last + 1),
         now = last + 1 => line.kind = "context" /\ from = "idle" /\ "opened" \notin ahead,
         now = last => from # "ended" /\ ("opened" \in ahead => line.kind = "started")
  PROVE  BegunIn(given \cup {line}, now, "append", later, failed)
<1> DEFINE more == given \cup {line}
<1>0. "started" # "context" /\ "started" \notin Items /\ "context" \notin Items
  BY DEF Items
<1>1. \A x, y \in more : x.kind = "started" /\ IsStart(y, x.turn) => x = y
  <2> TAKE x, y \in more
  <2> HAVE x.kind = "started" /\ IsStart(y, x.turn)
  <2>1. y.kind = "started" /\ y.turn = x.turn
    BY DEF IsStart
  <2>2. CASE x \in given /\ y \in given
    BY <2>2 DEF BegunIn
  <2>3. ASSUME line.kind = "started", NEW z \in given, z.kind = "started", z.turn = line.turn PROVE FALSE
    BY <1>0, <2>3 DEF BegunIn
  <2> QED BY <2>1, <2>2, <2>3
<1>2. \A x, y \in more : IsStart(x, y.turn) /\ y.kind \in Items => x.n < y.n
  <2> TAKE x, y \in more
  <2> HAVE IsStart(x, y.turn) /\ y.kind \in Items
  <2>1. CASE x \in given /\ y \in given
    BY <2>1 DEF BegunIn
  <2>2. CASE x \in given /\ y = line
    BY <2>2
  <2>3. CASE x = line /\ y \in given
    BY <1>0, <2>3 DEF BegunIn, IsStart
  <2>4. CASE x = line /\ y = line
    BY <1>0, <2>4 DEF IsStart
  <2> QED BY <2>1, <2>2, <2>3, <2>4
<1>3. "opened" \in later => \A x \in more : x.turn = now => x.kind = "context"
  <2>1. SUFFICES ASSUME "opened" \in later, NEW x \in given, x.turn = now PROVE FALSE
    OBVIOUS
  <2> QED BY <2>1
<1>4. ASSUME ~failed PROVE StartsIn(more, now, "append", later)
  <2>0. StartsIn(given, last, from, ahead)
    BY <1>4 DEF BegunIn
  <2>1. \A t : Started(given, t) => Started(more, t)
    BY DEF Started
  <2>2. Started(more, line.turn) \/ line.kind = "context"
    <3>1. CASE line.kind = "started"
      BY <3>1 DEF Started, IsStart
    <3>2. CASE line.kind # "started" /\ line.kind # "context"
      BY <2>0, <2>1, <3>2 DEF StartsIn
    <3> QED BY <3>1, <3>2
  <2>3. \A t \in 1 .. now - 1 : Started(more, t)
    <3>1. CASE now = last
      BY <2>0, <2>1, <3>1 DEF StartsIn
    <3>2. CASE now = last + 1
      <4>1. last = 0 \/ Started(given, last)
        BY <2>0, <3>2 DEF StartsIn
      <4>2. \A t \in 1 .. now - 1 : t \in 1 .. last - 1 \/ (t = last /\ last # 0)
        BY <3>2
      <4> QED BY <2>0, <2>1, <4>1, <4>2 DEF StartsIn
    <3> QED BY <3>1, <3>2
  <2>4. \A y \in more : y.kind # "context" => Started(more, y.turn)
    BY <2>0, <2>1, <2>2 DEF StartsIn
  <2>5. "opened" \in later \/ Started(more, now)
    <3>1. CASE now = last
      <4>1. CASE line.kind = "started"
        BY <2>2, <4>1
      <4>2. CASE line.kind # "started"
        BY <2>0, <2>1, <3>1, <4>2 DEF StartsIn
      <4> QED BY <4>1, <4>2
    <3>2. CASE now = last + 1
      BY <3>2
    <3> QED BY <3>1, <3>2
  <2> QED BY <2>3, <2>4, <2>5 DEF StartsIn
<1> QED BY <1>1, <1>2, <1>3, <1>4 DEF BegunIn

-----------------------------------------------------------------------------
(* The steps that record.                                                  *)

\* What the recording steps have in common.
Records(line, returned, raised) ==
  /\ Recording(line, returned, raised)
  /\ turn' \in {turn, turn + 1} /\ turn' # 0 /\ line.kind # "meta"
  /\ line.kind = "started" => turn' = turn /\ pc = "opened"
  /\ returned = "opened" <=> turn' = turn + 1
  /\ turn' = turn + 1 => line.kind = "context" /\ pc = "idle" /\ open' = open
  /\ turn' = turn => pc \notin {"idle", "ended"} /\ (pc = "opened" => line.kind = "started")

\* Whatever a step records is one line, of the turn the session is in or has just begun.
LEMMA WorkRecords ==
  ASSUME SessionInv, BeginsTurn \/ StartsTurn \/ Works \/ Completes \/ Breaks
  PROVE  \E line, returned, raised : Records(line, returned, raised)
<1>0. turn \in Nat /\ (turn = 0 => pc \in {"idle", "ended"})
  BY LogTyped DEF SessionInv, Begun
<1>1. CASE BeginsTurn
  <2>1. PICK line : Recording(line, "opened", "idle") /\ line.kind = "context" /\ pc = "idle" /\ turn' = turn + 1 /\ open' = open
    BY <1>1 DEF BeginsTurn
  <2>2. Records(line, "opened", "idle")
    BY <1>0, <2>1 DEF Records
  <2> QED BY <2>2
<1>2. CASE StartsTurn
  <2>1. PICK line : Recording(line, "submit", "idle") /\ line.kind = "started" /\ pc = "opened" /\ turn' = turn
    BY <1>2 DEF StartsTurn
  <2>2. Records(line, "submit", "idle")
    BY <1>0, <2>1 DEF Records
  <2> QED BY <2>2
<1>3. CASE Works
  <2>1. PICK line, returned, raised :
          /\ Recording(line, returned, raised)
          /\ line.kind \in Items \cup {"event"} /\ pc \in Within \ {"opened"} /\ turn' = turn
          /\ returned \in Within \ {"opened"}
    BY <1>3 DEF Works
  <2>2. line.kind \notin {"meta", "started", "context"} /\ pc \notin {"idle", "ended", "opened"}
    BY <2>1 DEF Items, Within
  <2>3. Records(line, returned, raised)
    BY <1>0, <2>1, <2>2 DEF Records
  <2> QED BY <2>3
<1>4. CASE Completes
  <2>1. PICK line : Recording(line, "idle", "failing") /\ line.kind = "complete" /\ pc = "stream" /\ turn' = turn
    BY <1>4 DEF Completes
  <2>2. Records(line, "idle", "failing")
    BY <1>0, <2>1 DEF Records
  <2> QED BY <2>2
<1>5. CASE Breaks
  <2>1. PICK line, returned :
          /\ Recording(line, returned, "idle")
          /\ line.kind \in {"user", "aborted", "error"} /\ pc \in Within \cup {"aborting", "failing"} /\ turn' = turn
          /\ pc # "opened" /\ returned \in {"idle", "aborting"}
    BY <1>5 DEF Breaks
  <2>2. pc \notin {"idle", "ended"}
    BY <2>1 DEF Within
  <2>3. Records(line, returned, "idle")
    BY <1>0, <2>1, <2>2 DEF Records
  <2> QED BY <2>3
<1> QED BY <1>1, <1>2, <1>3, <1>4, <1>5

\* The steps that record keep Begun,
LEMMA BegunRecords ==
  ASSUME SessionInv, NEW line, NEW returned, NEW raised, Records(line, returned, raised)
  PROVE  Begun'
<1>0. FileInv /\ Numbered /\ BegunIn(Given, turn, pc, Ahead, Failed)
  BY BegunIs DEF SessionInv
<1>1. Recording(line, returned, raised)
  BY DEF Records
<1>2. /\ Given' = Given \cup {line} /\ Ahead' = {returned, raised} /\ (Failed' = Failed)
      /\ line.n = count + 1 /\ line.turn = turn' /\ pc' = "append" /\ raised \in {"idle", "failing"}
      /\ line \in Recorded /\ pc # "append"
  <2>1. /\ Given' = Given \cup {line} /\ Ahead' = {returned, raised} /\ (Failed' = Failed)
    BY <1>1, GivenMore
  <2>2. doing = <<>>
    BY <1>1 DEF Recording
  <2>3. pc # "append"
    BY <1>0, <2>2 DEF FileInv, Writing
  <2> QED BY <1>1, <2>1, <2>3 DEF Recording
<1>3. count \in Nat /\ turn \in Nat
  BY <1>0, LogTyped
<1>4. \A x \in Given : x.n < line.n /\ x.turn <= turn /\ x.turn \in Nat /\ line.n \in Nat /\ x.n \in Nat
  BY <1>0, <1>2, <1>3 DEF Numbered, Recorded
<1>5. Ahead = {pc}
  BY <1>2 DEF Ahead
<1>6. /\ turn' \in Nat /\ turn' # 0 /\ turn' \in {turn, turn + 1} /\ (turn' = turn => turn' # turn + 1)
      /\ (line.kind = "started" => turn' = turn /\ "opened" \in Ahead)
      /\ ("opened" \in Ahead' <=> turn' = turn + 1)
      /\ (turn' = turn + 1 => line.kind = "context" /\ pc = "idle" /\ "opened" \notin Ahead)
      /\ (turn' = turn => pc # "ended" /\ ("opened" \in Ahead => line.kind = "started"))
  BY <1>2, <1>3, <1>5 DEF Records
<1>7. BegunIn(Given \cup {line}, turn', "append", Ahead', Failed)
  <2>1. PICK given, last, from, ahead, failed, later, now :
          /\ given = Given /\ last = turn /\ from = pc /\ ahead = Ahead /\ failed = Failed /\ later = Ahead' /\ now = turn'
    OBVIOUS
  <2>2. Failed \in BOOLEAN
    BY DEF Failed
  <2>3. BegunIn(given \cup {line}, now, "append", later, failed)
    BY <1>0, <1>2, <1>3, <1>4, <1>6, <2>1, <2>2, BegunMore
  <2> QED BY <2>1, <2>3
<1> QED BY <1>2, <1>7, BegunIs

\* those that do not,
LEMMA BegunPasses ==
  ASSUME SessionInv, Passes
  PROVE  Begun'
<1>0. BegunIn(Given, turn, pc, Ahead, Failed) /\ Failed \in BOOLEAN
  BY BegunIs DEF SessionInv, Failed
<1>1. Given' = Given /\ (Failed' = Failed) /\ turn' = turn
  BY GivenStays DEF Passes
<1>2. BegunIn(Given, turn, pc', Ahead', Failed)
  <2>1. turn = 0 => pc' \in {"idle", "ended"}
    BY <1>0 DEF Passes, BegunIn, Over
  <2>2. CASE pc' = "ended"
    <3>1. Ahead' = {"ended"}
      BY <2>2 DEF Ahead
    <3> QED BY <1>0, <2>1, <2>2, <3>1 DEF BegunIn, StartsIn
  <2>3. CASE pc' # "ended"
    <3>1. /\ pc \notin {"append", "opened", "ended"} /\ pc' \notin {"append", "opened"}
      BY <2>3 DEF Passes, Within
    <3>2. Ahead = {pc} /\ Ahead' = {pc'}
      BY <3>1 DEF Ahead
    <3>3. "opened" \in Ahead' <=> "opened" \in Ahead
      BY <3>1, <3>2
    <3> QED BY <1>0, <2>1, <3>1, <3>3, BegunStays
  <2> QED BY <2>2, <2>3
<1> QED BY <1>1, <1>2, BegunIs

\* and the end of the append: a start that is lost is a failure.
LEMMA BegunLands ==
  ASSUME SessionInv, NEW ok \in BOOLEAN, Lands(ok)
  PROVE  Begun'
<1>0. FileInv /\ BegunIn(Given, turn, pc, Ahead, Failed) /\ then.raised \in {"idle", "failing"}
  BY BegunIs DEF SessionInv, Balanced
<1>1. PICK line \in Recorded :
         /\ Given' = Given
         /\ Len(log') = Len(log) + 1 /\ (\A i \in 1 .. Len(log) : log'[i] = log[i])
         /\ DOMAIN log' = 1 .. Len(log) + 1
         /\ log'[Len(log) + 1] = [line |-> line, ok |-> ok]
         /\ Ahead' \subseteq Ahead
  BY <1>0, GivenLands
<1>2. Len(log) \in Nat /\ DOMAIN log = 1 .. Len(log)
  BY <1>0, LogTyped
<1>3. (Failed => Failed') /\ (~ok => Failed')
  <2>1. Len(log) + 1 \in 1 .. Len(log) + 1 /\ \A i \in 1 .. Len(log) : i \in 1 .. Len(log) + 1
    BY <1>2
  <2> QED BY <1>1, <1>2, <2>1 DEF Failed
<1>4. pc = "append" /\ turn' = turn /\ pc' = (IF ok THEN then.returned ELSE then.raised) /\ then' = then
      /\ Ahead = {then.returned, then.raised}
  BY DEF Lands, Ahead
<1>5. BegunIn(Given, turn, pc', Ahead', Failed')
  <2>1. Failed \in BOOLEAN /\ Failed' \in BOOLEAN
    BY DEF Failed
  <2>2. turn # 0
    BY <1>0, <1>4 DEF BegunIn
  <2>3. CASE ok
    <3>1. then.returned \in Places \ {"append"}
      BY <1>0 DEF FileInv, TypeOK
    <3>2. Ahead' = {then.returned}
      BY <1>4, <2>3, <3>1 DEF Ahead
    <3>3. "opened" \in Ahead' <=> "opened" \in Ahead
      BY <1>0, <1>4, <3>2
    <3> QED BY <1>0, <1>3, <1>4, <2>1, <2>2, <3>3, BegunStays
  <2>4. CASE ~ok
    <3>1. Failed'
      BY <1>3, <2>4
    <3> QED BY <1>0, <1>1, <2>2, <3>1 DEF BegunIn
  <2> QED BY <2>3, <2>4
<1> QED BY <1>1, <1>4, <1>5, BegunIs

-----------------------------------------------------------------------------
(* What history holds.                                                     *)

\* What Remembered says of a history.
HistoryIn(h, given, c) ==
  /\ h \in Seq(Item) /\ h # <<>>
  /\ \A i \in 2 .. Len(h) : h[i].n \in 1 .. c
  /\ \A i, j \in 2 .. Len(h) : i < j => h[i].n < h[j].n
  /\ \A i \in 2 .. Len(h) : h[i].kind \in Items => h[i] \in given
  /\ \A x \in given : x.kind \in Items => \E i \in 2 .. Len(h) : h[i] = x

\* One more item, numbered after the others.
LEMMA HistoryMore ==
  ASSUME NEW h, NEW given, NEW c \in Nat, HistoryIn(h, given, c), NEW item \in Item, item.n = c + 1
  PROVE  /\ item.kind \in Items => HistoryIn(Append(h, item), given \cup {item}, c + 1)
         /\ item.kind \notin Items => HistoryIn(Append(h, item), given, c + 1)
<1> DEFINE g == Append(h, item)
           N == Len(h)
<1>1. h \in Seq(Item) /\ h # <<>>
  BY DEF HistoryIn
<1>2. N \in Nat /\ N >= 1
  BY <1>1, LenProperties, EmptySeq
<1>3. g \in Seq(Item) /\ Len(g) = N + 1 /\ g # <<>> /\ g[N + 1] = item /\ \A i \in 1 .. N : g[i] = h[i]
  BY <1>1, AppendProperties
<1> HIDE DEF g
<1>4. \A i \in 2 .. N + 1 : (i \in 2 .. N /\ g[i] = h[i]) \/ (i = N + 1 /\ g[i] = item)
  <2> TAKE i \in 2 .. N + 1
  <2>1. CASE i = N + 1
    BY <1>3, <2>1
  <2>2. CASE i # N + 1
    <3>1. i \in 1 .. N /\ i \in 2 .. N
      BY <1>2, <2>2
    <3> QED BY <1>3, <3>1
  <2> QED BY <2>1, <2>2
<1>5. \A i \in 2 .. N : h[i].n \in 1 .. c
  BY DEF HistoryIn
<1>6. \A i \in 2 .. Len(g) : g[i].n \in 1 .. c + 1
  <2>1. item.n \in 1 .. c + 1
    OBVIOUS
  <2>2. \A i \in 2 .. N : h[i].n \in 1 .. c + 1
    BY <1>5
  <2> HIDE DEF N
  <2> QED BY <1>3, <1>4, <2>1, <2>2
<1>7. \A i, j \in 2 .. Len(g) : i < j => g[i].n < g[j].n
  <2> TAKE i, j \in 2 .. Len(g)
  <2> HAVE i < j
  <2>1. i \in 2 .. N /\ g[i] = h[i]
    BY <1>2, <1>3, <1>4
  <2>2. CASE j = N + 1
    BY <1>4, <1>5, <1>3, <2>1, <2>2
  <2>3. CASE j # N + 1
    <3>1. j \in 2 .. N /\ g[j] = h[j]
      BY <1>3, <1>4, <2>3
    <3> QED BY <2>1, <3>1 DEF HistoryIn
  <2> QED BY <2>2, <2>3
<1>8. \A i \in 2 .. Len(g) : g[i].kind \in Items => g[i] \in given \/ g[i] = item
  BY <1>3, <1>4 DEF HistoryIn
<1>9. \A x \in given : x.kind \in Items => \E i \in 2 .. Len(g) : g[i] = x
  <2> TAKE x \in given
  <2> HAVE x.kind \in Items
  <2>1. PICK i \in 2 .. N : h[i] = x
    BY DEF HistoryIn
  <2>2. i \in 2 .. Len(g) /\ i \in 1 .. N
    BY <1>2, <1>3, <2>1
  <2> QED BY <1>3, <2>1, <2>2
<1>10. N + 1 \in 2 .. Len(g) /\ g[N + 1] = item
  BY <1>2, <1>3
<1>11. ASSUME item.kind \in Items PROVE HistoryIn(g, given \cup {item}, c + 1)
  <2>1. \A i \in 2 .. Len(g) : g[i].kind \in Items => g[i] \in given \cup {item}
    BY <1>8
  <2>2. \A x \in given \cup {item} : x.kind \in Items => \E i \in 2 .. Len(g) : g[i] = x
    BY <1>9, <1>10
  <2> QED BY <1>3, <1>6, <1>7, <2>1, <2>2 DEF HistoryIn
<1>12. ASSUME item.kind \notin Items PROVE HistoryIn(g, given, c + 1)
  <2>1. \A i \in 2 .. Len(g) : g[i].kind \in Items => g[i] \in given
    BY <1>8, <1>12
  <2> QED BY <1>3, <1>6, <1>7, <1>9, <2>1 DEF HistoryIn
<1> QED BY <1>11, <1>12 DEF g

\* Numbers given away without an item.
LEMMA HistoryAges ==
  ASSUME NEW h, NEW given, NEW c \in Nat, NEW d \in Nat, c <= d, HistoryIn(h, given, c)
  PROVE  HistoryIn(h, given, d)
<1>1. \A i \in 2 .. Len(h) : h[i].n \in 1 .. d
  BY DEF HistoryIn
<1> QED BY <1>1 DEF HistoryIn

\* A line of another kind is no item.
LEMMA HistoryWith ==
  ASSUME NEW h, NEW given, NEW c, HistoryIn(h, given, c), NEW line, line.kind \notin Items
  PROVE  HistoryIn(h, given \cup {line}, c)
BY DEF HistoryIn

\* Remembered, with what it depends on.
LEMMA RememberedIs ==
  /\ Remembered <=> (~compacted => HistoryIn(history, Given, count))
  /\ Remembered' <=> (~compacted' => HistoryIn(history', Given', count'))
BY DEF Remembered, HistoryIn

\* The steps that record keep Remembered: an item goes into history when it is given;
LEMMA RememberedRecords ==
  ASSUME SessionInv, NEW line, NEW returned, NEW raised, Recording(line, returned, raised)
  PROVE  Remembered'
<1>0. FileInv /\ (~compacted => HistoryIn(history, Given, count))
  BY RememberedIs DEF SessionInv
<1>1. /\ Given' = Given \cup {line} /\ line \in Recorded /\ line.n = count + 1 /\ count' = count + 1
      /\ compacted' = compacted /\ history' = IF line.kind \in Items THEN Append(history, line) ELSE history
  BY GivenMore DEF Recording
<1>2. count \in Nat /\ count + 1 \in Nat /\ count <= count + 1 /\ line \in Item
  BY <1>0, <1>1, LogTyped DEF Recorded, Item
<1>3. ASSUME ~compacted PROVE HistoryIn(history', Given', count')
  <2>0. HistoryIn(history, Given, count)
    BY <1>0, <1>3
  <2>1. CASE line.kind \in Items
    BY <2>0, <1>1, <1>2, <2>1, HistoryMore
  <2>2. CASE line.kind \notin Items
    <3>1. HistoryIn(history, Given \cup {line}, count)
      BY <2>0, <2>2, HistoryWith
    <3>2. PICK h, given, c : h = history /\ given = Given \cup {line} /\ c = count
      OBVIOUS
    <3>3. HistoryIn(h, given, c + 1)
      BY <1>2, <3>1, <3>2, HistoryAges
    <3> QED BY <1>1, <2>2, <3>2, <3>3
  <2> QED BY <2>1, <2>2
<1> QED BY <1>1, <1>3, RememberedIs

\* and those that do not: an item of another type, or a compaction.
LEMMA RememberedPasses ==
  ASSUME SessionInv, Passes
  PROVE  Remembered'
<1>0. FileInv /\ (~compacted => HistoryIn(history, Given, count))
  BY RememberedIs DEF SessionInv
<1>1. Given' = Given /\ count' \in {count, count + 1} /\ count \in Nat /\ count + 1 \in Nat /\ count <= count + 1
  BY <1>0, GivenStays, LogTyped DEF Passes
<1>2. ASSUME ~compacted' PROVE HistoryIn(history', Given', count')
  <2>1. CASE UNCHANGED <<history, compacted>>
    <3>1. PICK h, given, c, d : h = history /\ given = Given /\ c = count /\ d = count'
      OBVIOUS
    <3>2. HistoryIn(h, given, c) /\ c \in Nat /\ d \in Nat /\ c <= d
      BY <1>0, <1>1, <1>2, <2>1, <3>1
    <3> QED BY <1>1, <2>1, <3>1, <3>2, HistoryAges
  <2>2. CASE compacted' = compacted /\ \E item \in Item :
               history' = Append(history, item) /\ item.kind \notin Items /\ item.n = count + 1 /\ count' = count + 1
    BY <1>0, <1>1, <1>2, <2>2, HistoryMore
  <2> QED BY <1>2, <2>1, <2>2 DEF Passes
<1> QED BY <1>2, RememberedIs

-----------------------------------------------------------------------------
(* The calls and outputs of a turn.                                        *)

\* The log as a sequence of lines.
LEMMA AppendedTyped ==
  ASSUME FileInv
  PROVE  /\ Appended \in Seq(Recorded) /\ Len(Appended) = Len(log) /\ Len(log) \in Nat
         /\ \A i \in 1 .. Len(log) : Appended[i] = log[i].line
<1>1. Len(log) \in Nat /\ DOMAIN log = 1 .. Len(log) /\ \A i \in 1 .. Len(log) : log[i].line \in Recorded
  BY LogTyped
<1>2. Appended = [i \in 1 .. Len(log) |-> log[i].line]
  BY <1>1 DEF Appended
<1> QED BY <1>1, <1>2

\* The count of a kind when a line lands.
LEMMA CountLands ==
  ASSUME FileInv, NEW line \in Recorded, NEW ok \in BOOLEAN, log' = Append(log, [line |-> line, ok |-> ok]),
         NEW kind, NEW t
  PROVE  /\ Count(kind, t) \in Nat
         /\ Count(kind, t)' = Count(kind, t) + (IF line.kind = kind /\ line.turn = t THEN 1 ELSE 0)
<1> DEFINE entry == [line |-> line, ok |-> ok]
           N == Len(log)
<1>1. entry \in Entry /\ log \in Seq(Entry) /\ entry.line = line
  BY DEF Entry, FileInv, TypeOK
<1>2. N \in Nat /\ DOMAIN log = 1 .. N
  BY LogTyped
<1>3. /\ Appended \in Seq(Recorded) /\ Len(Appended) = N
      /\ \A i \in 1 .. N : Appended[i] = log[i].line
  BY AppendedTyped
<1>4. /\ log' \in Seq(Entry) /\ Len(log') = N + 1 /\ DOMAIN log' = 1 .. N + 1
      /\ (\A i \in 1 .. N : log'[i] = log[i]) /\ log'[N + 1] = entry
  <2> HIDE DEF entry
  <2>1. log' = Append(log, entry)
    BY DEF entry
  <2> QED BY <1>1, <2>1, AppendProperties, LenProperties
<1>5. /\ Append(Appended, line) \in Seq(Recorded) /\ Len(Append(Appended, line)) = N + 1
      /\ (\A i \in 1 .. N : Append(Appended, line)[i] = Appended[i]) /\ Append(Appended, line)[N + 1] = line
  BY <1>3, AppendProperties
<1>6. Appended' = Append(Appended, line)
  <2>1. Appended' = [i \in 1 .. N + 1 |-> log'[i].line]
    BY <1>4 DEF Appended
  <2>2. \A i \in 1 .. N + 1 : log'[i].line = Append(Appended, line)[i]
    <3> TAKE i \in 1 .. N + 1
    <3>1. CASE i = N + 1
      BY <1>1, <1>4, <1>5, <3>1
    <3>2. CASE i # N + 1
      <4>1. i \in 1 .. N
        BY <1>2, <3>2
      <4> QED BY <1>3, <1>4, <1>5, <4>1
    <3> QED BY <3>1, <3>2
  <2>3. \A i \in 1 .. N + 1 : log'[i].line \in Recorded
    <3>1. \A i \in 1 .. N + 1 : Append(Appended, line)[i] \in Recorded
      BY <1>2, <1>5, ElementOfSeq
    <3> QED BY <2>2, <3>1
  <2>4. N + 1 \in Nat
    BY <1>2
  <2>5. Appended' \in Seq(Recorded) /\ Len(Appended') = N + 1 /\ \A i \in 1 .. N + 1 : Appended'[i] = log'[i].line
    <3>1. PICK s, f, M : s = Appended' /\ M = N + 1 /\ f = log'
      OBVIOUS
    <3>2. M \in Nat /\ s = [i \in 1 .. M |-> f[i].line] /\ \A i \in 1 .. M : f[i].line \in Recorded
      BY <2>1, <2>3, <2>4, <3>1
    <3>3. s \in Seq(Recorded) /\ Len(s) = M /\ \A i \in 1 .. M : s[i] = f[i].line
      BY <3>2
    <3> QED BY <3>1, <3>3
  <2> QED BY <1>5, <2>2, <2>5, SeqEqual
<1>7. PICK at, more : at = CountAt(kind, t) /\ more = CountAt(kind, t)'
  OBVIOUS
<1>8. more \cap 1 .. N = at \cap 1 .. N
  BY <1>2, <1>4, <1>7 DEF CountAt
<1>9. N + 1 \in more <=> (line.kind = kind /\ line.turn = t)
  <2>1. N + 1 \in DOMAIN log'
    BY <1>2, <1>4
  <2> QED BY <1>1, <1>4, <1>7, <2>1 DEF CountAt
<1>10. PICK r : r = Selected(Appended, at)
  OBVIOUS
<1>11. /\ r \in Seq(Recorded)
       /\ Selected(Append(Appended, line), more) = IF N + 1 \in more THEN Append(r, line) ELSE r
  BY <1>3, <1>8, <1>10, SelectedAppend
<1>12. Len(r) \in Nat /\ Len(Append(r, line)) = Len(r) + 1
  BY <1>11, AppendProperties, LenProperties
<1>13. Count(kind, t) = Len(r) /\ Count(kind, t)' = Len(Selected(Append(Appended, line), more))
  BY <1>6, <1>7, <1>10 DEF Count
<1> QED BY <1>9, <1>11, <1>12, <1>13

\* It is 0 of a turn that has no line yet.
LEMMA CountNone ==
  ASSUME FileInv, NEW kind, NEW t, \A i \in 1 .. Len(log) : log[i].line.turn # t
  PROVE  Count(kind, t) = 0 /\ Sound(t)
<1>1. Appended \in Seq(Recorded) /\ DOMAIN log = 1 .. Len(log)
  BY AppendedTyped, LogTyped
<1>2. CountAt(kind, t) = {} /\ Sound(t)
  BY <1>1 DEF CountAt, Sound
<1>3. PICK r : r = Selected(Appended, {})
  OBVIOUS
<1>4. r \in Seq(Recorded) /\ \A k \in 1 .. Len(r) : \E i \in {} \cap 1 .. Len(Appended) : r[k] = Appended[i]
  BY <1>1, <1>3, SelectedPicks, SelectedHolds
<1>5. Len(r) = 0
  <2>1. Len(r) \in Nat /\ ~(1 \in 1 .. Len(r))
    BY <1>4, LenProperties
  <2> QED BY <2>1
<1> QED BY <1>2, <1>3, <1>5 DEF Count

\* What becomes of the soundness of a turn when a line lands.
LEMMA SoundLands ==
  ASSUME FileInv, NEW line \in Recorded, NEW ok \in BOOLEAN,
         Len(log') = Len(log) + 1, \A i \in 1 .. Len(log) : log'[i] = log[i], DOMAIN log' = 1 .. Len(log) + 1,
         log'[Len(log) + 1] = [line |-> line, ok |-> ok],
         NEW t, Sound(t),
         line.turn = t /\ line.kind \in Items => ok /\ log # <<>> /\ log[Len(log)].ok
  PROVE  Sound(t)'
<1>1. Len(log) \in Nat /\ DOMAIN log = 1 .. Len(log) /\ log \in Seq(Entry)
  BY LogTyped DEF FileInv, TypeOK
<1>2. log # <<>> => Len(log) > 0 /\ Len(log) \in 1 .. Len(log)
  BY <1>1, EmptySeq
<1> SUFFICES ASSUME NEW i \in 1 .. Len(log) + 1, log'[i].line.turn = t, log'[i].line.kind \in Items
             PROVE  log'[i].ok /\ i > 1 /\ log'[i - 1].ok
  BY DEF Sound
<1>3. CASE i \in 1 .. Len(log)
  <2>1. log[i].ok /\ i > 1 /\ log[i - 1].ok
    BY <1>1, <1>3 DEF Sound
  <2>2. i - 1 \in 1 .. Len(log)
    BY <1>1, <1>3, <2>1
  <2> QED BY <1>3, <2>1, <2>2
<1>4. CASE i = Len(log) + 1
  <2>1. ok /\ log # <<>> /\ log[Len(log)].ok
    BY <1>4
  <2>2. i > 1 /\ i - 1 = Len(log) /\ Len(log) \in 1 .. Len(log)
    BY <1>1, <1>2, <1>4, <2>1
  <2>3. log'[i - 1] = log[Len(log)] /\ log'[i].ok = ok
    BY <1>4, <2>2
  <2> QED BY <2>1, <2>2, <2>3
<1> QED BY <1>1, <1>3, <1>4

\* The parts of Balanced.
Hands == open \in Seq(Recorded) /\ \A line \in Range(doing) : line.turn = turn
Ways  == then.raised \in {"idle", "failing"} /\ then.returned \in {"idle", "aborting"} \cup Within
Held  == (Ahead \cap Clear # {} => open = <<>>) /\ ("calls" \in Ahead => open # <<>>)
Ready == (\E line \in Range(doing) : line.kind = "context") \/ (log # <<>> /\ log[Len(log)].ok)
Sums  == Count("call", turn) + Doing("call") = Count("output", turn) + Doing("output") + Len(open)

\* Balanced in parts.
LEMMA BalancedIs == Balanced <=> Hands /\ Ways /\ Held /\ (Working => Sound(turn) /\ Ready /\ Sums)
BY DEF Balanced, Hands, Ways, Held, Ready, Sums

\* The line in hand, counted.
LEMMA DoingIs ==
  ASSUME NEW kind
  PROVE  /\ Doing(kind) \in {0, 1}
         /\ Range(doing) = {} => Doing(kind) = 0
         /\ \A line : Range(doing) = {line} => Doing(kind) = IF line.kind = kind THEN 1 ELSE 0
BY DEF Doing

\* What is known before a step that begins to write.
LEMMA BeforeRecording ==
  ASSUME SessionInv, NEW line, NEW returned, NEW raised, Recording(line, returned, raised)
  PROVE  /\ doing = <<>> /\ pc # "append" /\ Ahead = {pc} /\ pc \in Places
         /\ turn \in Nat /\ count \in Nat
         /\ Hands /\ Ways /\ Held
         /\ (pc \in Within => Sound(turn) /\ log # <<>> /\ log[Len(log)].ok)
         /\ (pc \in Within => Count("call", turn) = Count("output", turn) + Len(open))
         /\ Len(open) \in Nat
         /\ \A kind, t : Count(kind, t) \in Nat
<1>1. doing = <<>> /\ FileInv /\ Balanced
  BY DEF Recording, SessionInv
<1>2. pc # "append" /\ pc \in Places
  BY <1>1 DEF FileInv, Writing, TypeOK
<1>3. Ahead = {pc} /\ (pc \in Within => Working)
  BY <1>2 DEF Ahead, Working
<1>4. Range(doing) = {} /\ \A kind : Doing(kind) = 0
  BY GivenMore, DoingIs
<1>5. Hands /\ Ways /\ Held /\ (Working => Sound(turn) /\ Ready /\ Sums)
  BY <1>1, BalancedIs
<1>6. Len(open) \in Nat
  BY <1>5, LenProperties DEF Hands
<1>7. turn \in Nat /\ count \in Nat
  BY <1>1, LogTyped
<1>8. \A kind, t : Count(kind, t) \in Nat
  <2> TAKE kind, t
  <2>1. Appended \in Seq(Recorded)
    BY <1>1, AppendedTyped
  <2>2. PICK r, s, at : r = Selected(s, at) /\ s = Appended /\ at = CountAt(kind, t)
    OBVIOUS
  <2>3. r \in Seq(Recorded)
    BY <2>1, <2>2, SelectedPicks
  <2> QED BY <2>2, <2>3, LenProperties DEF Count
<1>9. pc \in Within => Ready /\ Sums /\ Sound(turn)
  BY <1>3, <1>5
<1>10. pc \in Within => Count("call", turn) = Count("output", turn) + Len(open)
  BY <1>4, <1>6, <1>8, <1>9 DEF Sums
<1>11. pc \in Within => log # <<>> /\ log[Len(log)].ok
  BY <1>4, <1>9 DEF Ready
<1> QED BY <1>1, <1>2, <1>3, <1>5, <1>6, <1>7, <1>8, <1>9, <1>10, <1>11

\* What is left to show after it.
LEMMA AfterRecording ==
  ASSUME SessionInv, NEW line, NEW returned, NEW raised, Recording(line, returned, raised),
         open' \in Seq(Recorded), returned \in {"idle", "aborting"} \cup Within,
         {returned, raised} \cap Clear # {} => open' = <<>>, returned = "calls" => open' # <<>>,
         returned \in Within =>
           /\ Sound(turn')
           /\ line.kind = "context" \/ (log # <<>> /\ log[Len(log)].ok)
           /\ Count("call", turn') + (IF line.kind = "call" THEN 1 ELSE 0)
                = Count("output", turn') + (IF line.kind = "output" THEN 1 ELSE 0) + Len(open')
  PROVE  Balanced'
<1>1. /\ Range(doing') = {line} /\ log' = log /\ Ahead' = {returned, raised}
      /\ (\A t : Sound(t)' = Sound(t)) /\ \A kind, t : Count(kind, t)' = Count(kind, t)
  BY GivenMore
<1>2. /\ pc' = "append" /\ then' = [returned |-> returned, raised |-> raised] /\ line.turn = turn'
      /\ raised \in {"idle", "failing"}
  BY DEF Recording
<1>3. \A kind : Doing(kind)' = IF line.kind = kind THEN 1 ELSE 0
  BY <1>1 DEF Doing
<1>4. Hands' /\ Ways' /\ Held'
  <2>1. Hands'
    BY <1>1, <1>2 DEF Hands
  <2>2. Ways'
    BY <1>2 DEF Ways
  <2>3. Held'
    BY <1>1, <1>2 DEF Held
  <2> QED BY <2>1, <2>2, <2>3
<1>5. ASSUME Working' PROVE Sound(turn)' /\ Ready' /\ Sums'
  <2>0. returned \in Within
    BY <1>2, <1>5 DEF Working, Within
  <2>1. PICK now : now = turn'
    OBVIOUS
  <2>2. Sound(now)' /\ Count("call", now)' = Count("call", now) /\ Count("output", now)' = Count("output", now)
    BY <1>1, <2>0, <2>1
  <2>3. Sound(turn)' <=> Sound(now)'
    BY <2>1 DEF Sound
  <2>4. Count("call", turn)' = Count("call", now)' /\ Count("output", turn)' = Count("output", now)'
    BY <2>1 DEF Count, CountAt
  <2>5. Ready'
    BY <1>1, <2>0 DEF Ready
  <2>6. Count("call", turn)' + Doing("call")' = Count("output", turn)' + Doing("output")' + Len(open')
    BY <1>3, <2>0, <2>1, <2>2, <2>4
  <2>7. Sums'
    BY <2>6 DEF Sums
  <2> QED BY <2>2, <2>3, <2>5, <2>7
<1> QED BY <1>4, <1>5 DEF Balanced, Hands, Ways, Held, Ready, Sums

\* The steps that record keep Balanced: a call is opened when it is given, closed by its output;
LEMMA BalancedRecords ==
  ASSUME SessionInv, BeginsTurn \/ StartsTurn \/ Works \/ Completes \/ Breaks
  PROVE  Balanced'
<1>e. <<>> \in Seq(Recorded) /\ Len(<<>>) = 0
  BY EmptySeq
<1>1. CASE BeginsTurn
  <2>1. PICK line : Recording(line, "opened", "idle") /\ line.kind = "context" /\ pc = "idle" /\ turn' = turn + 1 /\ open' = open
    BY <1>1 DEF BeginsTurn
  <2>2. turn \in Nat /\ Ahead = {"idle"} /\ Hands /\ Held
    BY <2>1, BeforeRecording
  <2>3. open' = <<>>
    BY <2>1, <2>2 DEF Held, Clear
  <2>4. \A i \in 1 .. Len(log) : log[i].line.turn # turn + 1
    BY <2>2, LogTyped DEF SessionInv, Numbered
  <2>5. PICK now : now = turn + 1
    OBVIOUS
  <2>6. Count("call", now) = 0 /\ Count("output", now) = 0 /\ Sound(now)
    BY <2>4, <2>5, CountNone DEF SessionInv
  <2>7. "opened" \in Within /\ "opened" # "calls"
    BY DEF Within
  <2>8. line.kind # "call" /\ line.kind # "output"
    BY <2>1
  <2>9. Count("call", turn') = 0 /\ Count("output", turn') = 0 /\ Sound(turn')
    BY <2>1, <2>5, <2>6
  <2>10. Count("call", turn') + (IF line.kind = "call" THEN 1 ELSE 0)
                = Count("output", turn') + (IF line.kind = "output" THEN 1 ELSE 0) + Len(open')
    BY <1>e, <2>3, <2>8, <2>9
  <2> QED BY <1>e, <2>1, <2>3, <2>7, <2>9, <2>10, AfterRecording
<1>2. CASE StartsTurn
  <2>1. PICK line : Recording(line, "submit", "idle") /\ line.kind = "started" /\ pc = "opened" /\ turn' = turn /\ open' = open
    BY <1>2 DEF StartsTurn
  <2>2. /\ Ahead = {"opened"} /\ Held /\ pc \in Within
        /\ Sound(turn) /\ log # <<>> /\ log[Len(log)].ok /\ Count("call", turn) = Count("output", turn) + Len(open)
        /\ Count("output", turn) \in Nat
    BY <2>1, BeforeRecording DEF Within
  <2>3. open = <<>>
    BY <2>2 DEF Held, Clear
  <2>4. "submit" \in Within /\ "submit" # "calls" /\ line.kind # "call" /\ line.kind # "output"
    BY <2>1 DEF Within
  <2>5. Count("call", turn') + (IF line.kind = "call" THEN 1 ELSE 0)
                = Count("output", turn') + (IF line.kind = "output" THEN 1 ELSE 0) + Len(open')
    BY <1>e, <2>1, <2>2, <2>3, <2>4
  <2> QED BY <1>e, <2>1, <2>2, <2>3, <2>4, <2>5, AfterRecording
<1>3. CASE Works
  <2>1. PICK line, returned, raised :
          /\ Recording(line, returned, raised)
          /\ line.kind \in Items \cup {"event"} /\ pc \in Within \ {"opened"} /\ turn' = turn
          /\ returned \in Within \ {"opened"}
          /\ line.kind = "call" => open' = Append(open, line)
          /\ line.kind = "output" => open # <<>> /\ open' = Tail(open)
          /\ line.kind \notin {"call", "output"} => open' = open
          /\ returned \in Clear \/ raised = "idle" => open' = <<>>
          /\ returned = "calls" => open' # <<>>
    BY <1>3 DEF Works
  <2>2. /\ Hands /\ Sound(turn) /\ log # <<>> /\ log[Len(log)].ok /\ Count("call", turn) = Count("output", turn) + Len(open)
        /\ Count("output", turn) \in Nat /\ Count("call", turn) \in Nat /\ Len(open) \in Nat
    BY <2>1, BeforeRecording
  <2>3. line \in Recorded /\ open \in Seq(Recorded) /\ raised \in {"idle", "failing"}
    BY <2>1, <2>2 DEF Recording, Hands
  <2>4. /\ open' \in Seq(Recorded)
        /\ line.kind = "call" => Len(open') = Len(open) + 1
        /\ line.kind = "output" => Len(open') = Len(open) - 1
        /\ line.kind \notin {"call", "output"} => Len(open') = Len(open)
    <3>1. CASE line.kind = "call"
      BY <2>1, <2>3, <3>1, AppendProperties
    <3>2. CASE line.kind = "output"
      BY <2>1, <2>3, <3>2, HeadTailProperties
    <3>3. CASE line.kind \notin {"call", "output"}
      BY <2>1, <2>3, <3>3
    <3> QED BY <3>1, <3>2, <3>3
  <2>5. Count("call", turn') + (IF line.kind = "call" THEN 1 ELSE 0)
                = Count("output", turn') + (IF line.kind = "output" THEN 1 ELSE 0) + Len(open')
    <3>0. turn' = turn
      BY <2>1
    <3>1. PICK a, b, m, n : a = Count("call", turn) /\ b = Count("output", turn) /\ m = Len(open) /\ n = Len(open')
      OBVIOUS
    <3>2. a \in Nat /\ b \in Nat /\ m \in Nat /\ a = b + m
      BY <2>2, <3>1
    <3>3. /\ line.kind = "call" => n = m + 1
          /\ line.kind = "output" => n = m - 1
          /\ line.kind \notin {"call", "output"} => n = m
      BY <2>4, <3>1
    <3>4. a + (IF line.kind = "call" THEN 1 ELSE 0) = b + (IF line.kind = "output" THEN 1 ELSE 0) + n
      <4>1. CASE line.kind = "call"
        BY <3>2, <3>3, <4>1
      <4>2. CASE line.kind = "output"
        BY <3>2, <3>3, <4>2
      <4>3. CASE line.kind \notin {"call", "output"}
        BY <3>2, <3>3, <4>3
      <4> QED BY <4>1, <4>2, <4>3
    <3> QED BY <3>0, <3>1, <3>4
  <2>6. {returned, raised} \cap Clear # {} => open' = <<>>
    BY <2>1, <2>3 DEF Clear
  <2> QED BY <2>1, <2>2, <2>4, <2>5, <2>6, AfterRecording
<1>4. CASE Completes
  <2>1. PICK line : Recording(line, "idle", "failing") /\ open' = <<>>
    BY <1>4 DEF Completes
  <2>2. "idle" \notin Within
    BY DEF Within
  <2> QED BY <1>e, <2>1, <2>2, AfterRecording
<1>5. CASE Breaks
  <2>1. PICK line, returned : Recording(line, returned, "idle") /\ returned \in {"idle", "aborting"} /\ open' = <<>>
    BY <1>5 DEF Breaks
  <2>2. returned \notin Within /\ returned # "calls"
    BY <2>1 DEF Within
  <2> QED BY <1>e, <2>1, <2>2, AfterRecording
<1> QED BY <1>1, <1>2, <1>3, <1>4, <1>5

\* Steps that leave the log alone.
LEMMA BalancedStays ==
  ASSUME SessionInv, UNCHANGED <<doing, log, then, turn, open>>, Held', Working' => Working
  PROVE  Balanced'
<1>1. Hands /\ Ways /\ Held /\ (Working => Sound(turn) /\ Ready /\ Sums)
  BY BalancedIs DEF SessionInv
<1>2. (\A t : Sound(t)' = Sound(t)) /\ \A kind, t : Count(kind, t)' = Count(kind, t)
  BY GivenStays
<1>3. \A kind : Doing(kind)' = Doing(kind)
  BY DEF Doing
<1>4. Hands' /\ Ways'
  BY <1>1 DEF Hands, Ways
<1>5. ASSUME Working' PROVE Sound(turn)' /\ Ready' /\ Sums'
  <2>1. Sound(turn)'
    BY <1>1, <1>5 DEF Sound
  <2>2. Ready'
    BY <1>1, <1>5 DEF Ready
  <2>3. Count("call", turn)' = Count("call", turn) /\ Count("output", turn)' = Count("output", turn)
    BY DEF Count, CountAt, Appended
  <2>4. Sums'
    BY <1>1, <1>3, <1>5, <2>3 DEF Sums
  <2> QED BY <2>1, <2>2, <2>4
<1> QED BY <1>4, <1>5 DEF Balanced, Hands, Ways, Held, Ready, Sums

\* so do those that do not,
LEMMA BalancedPasses ==
  ASSUME SessionInv, Passes
  PROVE  Balanced'
<1>1. UNCHANGED <<doing, log, then, turn, open>>
  BY DEF Passes
<1>2. Held'
  <2>1. CASE pc' = "ended"
    BY <2>1 DEF Held, Ahead, Clear
  <2>2. CASE pc' # "ended"
    <3>1. pc' \in (Within \ {"opened"}) \cup {"idle", "failing"} /\ (pc' \in Clear => open = <<>>) /\ (pc' = "calls" => open # <<>>)
      BY <2>2 DEF Passes
    <3>2. pc' # "append"
      BY <3>1 DEF Within
    <3>3. Ahead' = {pc'}
      BY <3>2 DEF Ahead
    <3> QED BY <1>1, <3>1, <3>3 DEF Held
  <2> QED BY <2>1, <2>2
<1>3. Working' => Working
  <2>1. SUFFICES ASSUME Working' PROVE Working
    OBVIOUS
  <2>2. pc' # "ended" /\ pc' # "idle" /\ pc' # "failing"
    <3>1. pc' \in Within \/ pc' = "append"
      BY <2>1 DEF Working
    <3> QED BY <3>1 DEF Within
  <2>3. pc \notin {"append", "opened", "ended", "aborting"} /\ pc \notin Over
    BY <2>2 DEF Passes, Over
  <2>4. pc \in Places
    BY DEF SessionInv, FileInv, TypeOK
  <2> QED BY <2>3, <2>4 DEF Working, Within, Over, Places
<1> QED BY <1>1, <1>2, <1>3, BalancedStays

\* and the end of the append: it moves the line from one count to the other, or the turn no longer works.
LEMMA BalancedLands ==
  ASSUME SessionInv, NEW ok \in BOOLEAN, Lands(ok)
  PROVE  Balanced'
<1>0. FileInv /\ Hands /\ Ways /\ Held /\ (Working => Sound(turn) /\ Ready /\ Sums)
  BY BalancedIs DEF SessionInv
<1>1. PICK line \in Recorded :
         /\ doing = <<line>> /\ Range(doing) = {line} /\ Range(doing') = {} /\ Given' = Given /\ line \in Given
         /\ Len(log') = Len(log) + 1 /\ (\A i \in 1 .. Len(log) : log'[i] = log[i])
         /\ DOMAIN log' = 1 .. Len(log) + 1 /\ log' # <<>>
         /\ log'[Len(log) + 1] = [line |-> line, ok |-> ok]
         /\ Ahead' \subseteq Ahead /\ log' = Append(log, [line |-> line, ok |-> ok])
  BY <1>0, GivenLands
<1>2. pc = "append" /\ UNCHANGED <<then, turn, open>> /\ pc' = IF ok THEN then.returned ELSE then.raised
  BY DEF Lands
<1>3. Hands' /\ Ways' /\ Held'
  <2>1. Hands' /\ Ways'
    BY <1>0, <1>1, <1>2 DEF Hands, Ways
  <2>2. Held'
    BY <1>0, <1>1, <1>2 DEF Held
  <2> QED BY <2>1, <2>2
<1>4. ASSUME Working' PROVE Sound(turn)' /\ Ready' /\ Sums'
  <2>1. then.returned \in Places \ {"append"} /\ then.raised \in {"idle", "failing"}
    BY <1>0 DEF FileInv, TypeOK, Ways
  <2>2. ok
    <3>1. SUFFICES ASSUME ~ok PROVE FALSE
      OBVIOUS
    <3>2. pc' \in {"idle", "failing"}
      BY <1>2, <2>1, <3>1
    <3> QED BY <1>4, <3>2 DEF Working, Within
  <2>3. Working
    BY <1>2, <1>4, <2>1, <2>2 DEF Working
  <2>4. Sound(turn) /\ Ready /\ Sums
    BY <1>0, <2>3
  <2>5. Ready'
    BY <1>1, <2>2, LogTyped, <1>0 DEF Ready
  <2>6. line.turn = turn /\ (line.kind # "context" => log # <<>> /\ log[Len(log)].ok)
    BY <1>0, <1>1, <2>4 DEF Hands, Ready
  <2>7. "context" \notin Items
    BY DEF Items
  <2>8. PICK now : now = turn
    OBVIOUS
  <2>9. Sound(now)'
    <3>1. line.turn = now /\ line.kind \in Items => ok /\ log # <<>> /\ log[Len(log)].ok
      BY <2>2, <2>6, <2>7
    <3> QED BY <1>0, <1>1, <2>4, <2>8, <3>1, SoundLands
  <2>10. Sound(turn)'
    BY <1>2, <2>8, <2>9 DEF Sound
  <2>11. /\ Count("call", now) \in Nat /\ Count("output", now) \in Nat
         /\ Count("call", now)' = Count("call", now) + (IF line.kind = "call" /\ line.turn = now THEN 1 ELSE 0)
         /\ Count("output", now)' = Count("output", now) + (IF line.kind = "output" /\ line.turn = now THEN 1 ELSE 0)
    BY <1>0, <1>1, CountLands
  <2>12. Count("call", turn)' = Count("call", now)' /\ Count("output", turn)' = Count("output", now)'
    BY <1>2, <2>8 DEF Count, CountAt
  <2>13. /\ Doing("call") = (IF line.kind = "call" THEN 1 ELSE 0)
         /\ Doing("output") = (IF line.kind = "output" THEN 1 ELSE 0)
    BY <1>1, DoingIs
  <2>14. Doing("call")' = 0 /\ Doing("output")' = 0
    BY <1>1 DEF Doing
  <2>15. Len(open) \in Nat
    BY <1>0, LenProperties DEF Hands
  <2>16. Count("call", turn)' + Doing("call")' = Count("output", turn)' + Doing("output")' + Len(open)
    BY <2>4, <2>6, <2>8, <2>11, <2>12, <2>13, <2>14, <2>15 DEF Sums
  <2>17. Sums'
    BY <1>2, <2>16 DEF Sums
  <2> QED BY <2>5, <2>10, <2>17
<1> QED BY <1>3, <1>4 DEF Balanced, Hands, Ways, Held, Ready, Sums

-----------------------------------------------------------------------------
(* Complete turns.                                                         *)

\* What CompletedBy says of the line c, for the lines given.
CompletedIn(c, given, last, ahead) ==
  /\ \A x \in given : x.turn = c.turn /\ x.kind \in Items => x.n < c.n
  /\ c.turn = last => ahead \subseteq Over
\* Nothing of it is missing.
Settled(t) == Sound(t) /\ Count("call", t) = Count("output", t)

\* Completed, with what it depends on.
LEMMA CompletedIs ==
  /\ Completed <=> \A c \in Given : c.kind = "complete" => Settled(c.turn) /\ CompletedIn(c, Given, turn, Ahead)
  /\ Completed' <=> \A c \in Given' : c.kind = "complete" => Settled(c.turn)' /\ CompletedIn(c, Given', turn', Ahead')
BY DEF Completed, CompletedBy, CompletedIn, Settled

\* It depends on the log alone whether a turn is settled.
LEMMA SettledStays ==
  ASSUME UNCHANGED log
  PROVE  \A t : Settled(t)' = Settled(t)
BY DEF Settled, Sound, Count, CountAt, Appended

\* The line of such a turn that comes after it is no item, and the turn goes nowhere.
LEMMA CompletedRecords ==
  ASSUME SessionInv, BeginsTurn \/ StartsTurn \/ Works \/ Completes \/ Breaks
  PROVE  Completed'
<1>0. FileInv /\ Numbered /\ \A c \in Given : c.kind = "complete" => Settled(c.turn) /\ CompletedIn(c, Given, turn, Ahead)
  BY CompletedIs DEF SessionInv
<1>1. ASSUME NEW line, NEW returned, NEW raised, Recording(line, returned, raised),
             turn' \in {turn, turn + 1},
             line.kind = "complete" => turn' = turn /\ pc \in Within /\ open = <<>> /\ {returned, raised} \subseteq Over,
             turn' = turn /\ pc \in Over => line.kind \notin Items /\ {returned, raised} \subseteq Over
      PROVE  Completed'
  <2>1. /\ Given' = Given \cup {line} /\ Ahead' = {returned, raised} /\ line.n = count + 1 /\ line.turn = turn'
        /\ log' = log
    BY <1>1, GivenMore DEF Recording
  <2>2. turn \in Nat /\ count \in Nat /\ Ahead = {pc}
    BY <1>1, BeforeRecording
  <2>3. \A x \in Given : x.n < line.n /\ x.turn <= turn /\ x.turn \in Nat
    BY <1>0, <2>1, <2>2 DEF Numbered, Recorded
  <2>4. PICK now, ahead : now = turn' /\ ahead = Ahead'
    OBVIOUS
  <2>5. ASSUME NEW c \in Given, c.kind = "complete" PROVE CompletedIn(c, Given \cup {line}, now, ahead)
    <3>1. CompletedIn(c, Given, turn, Ahead)
      BY <1>0, <2>5
    <3>2. c.turn <= turn /\ c.turn \in Nat
      BY <2>3
    <3>3. c.turn = now => now = turn /\ pc \in Over
      BY <1>1, <2>2, <2>4, <3>1, <3>2 DEF CompletedIn
    <3>4. line.turn = c.turn => line.kind \notin Items
      BY <1>1, <2>1, <2>4, <3>3
    <3>5. c.turn = now => ahead \subseteq Over
      BY <1>1, <2>1, <2>4, <3>3
    <3> QED BY <3>1, <3>4, <3>5 DEF CompletedIn
  <2>6. ASSUME line.kind = "complete" PROVE Settled(line.turn) /\ CompletedIn(line, Given \cup {line}, now, ahead)
    <3>1. pc \in Within /\ open = <<>> /\ {returned, raised} \subseteq Over
      BY <1>1, <2>6
    <3>2. /\ Sound(turn) /\ Count("call", turn) = Count("output", turn) + Len(open)
          /\ Count("output", turn) \in Nat
      BY <1>1, <3>1, BeforeRecording
    <3>3. turn' = turn
      BY <1>1, <2>6
    <3>4. Settled(turn)
      <4>1. Len(open) = 0
        BY <3>1, EmptySeq
      <4> QED BY <3>2, <4>1 DEF Settled
    <3>5. \A x \in Given \cup {line} : x.turn = line.turn /\ x.kind \in Items => x.n < line.n
      <4>1. "complete" \notin Items
        BY DEF Items
      <4> QED BY <2>3, <2>6, <4>1
    <3> QED BY <2>1, <2>4, <3>1, <3>3, <3>4, <3>5 DEF CompletedIn
  <2>7. \A c \in Given' : c.kind = "complete" => Settled(c.turn)' /\ CompletedIn(c, Given', turn', Ahead')
    <3>1. \A t : Settled(t)' = Settled(t)
      BY <2>1, SettledStays
    <3>2. \A c \in Given \cup {line} : c.kind = "complete" => Settled(c.turn) /\ CompletedIn(c, Given \cup {line}, now, ahead)
      BY <1>0, <2>5, <2>6
    <3> QED BY <2>1, <2>4, <3>1, <3>2
  <2> QED BY <2>7, CompletedIs
<1>2. turn \in Nat
  BY <1>0, LogTyped
<1>3. CASE BeginsTurn
  <2>1. PICK line : Recording(line, "opened", "idle") /\ line.kind = "context" /\ turn' = turn + 1
    BY <1>3 DEF BeginsTurn
  <2>2. turn' # turn /\ line.kind # "complete"
    BY <1>2, <2>1
  <2> QED BY <1>1, <2>1, <2>2
<1>4. CASE StartsTurn
  <2>1. PICK line : Recording(line, "submit", "idle") /\ line.kind = "started" /\ pc = "opened" /\ turn' = turn
    BY <1>4 DEF StartsTurn
  <2>2. pc \notin Over /\ line.kind # "complete"
    BY <2>1 DEF Over
  <2> QED BY <1>1, <2>1, <2>2
<1>5. CASE Works
  <2>1. PICK line, returned, raised :
          /\ Recording(line, returned, raised)
          /\ line.kind \in Items \cup {"event"} /\ pc \in Within \ {"opened"} /\ turn' = turn
    BY <1>5 DEF Works
  <2>2. pc \notin Over /\ line.kind # "complete"
    BY <2>1 DEF Over, Within, Items
  <2> QED BY <1>1, <2>1, <2>2
<1>6. CASE Completes
  <2>1. PICK line : Recording(line, "idle", "failing") /\ pc = "stream" /\ turn' = turn /\ open = <<>>
    BY <1>6 DEF Completes
  <2>2. pc \notin Over /\ pc \in Within /\ {"idle", "failing"} \subseteq Over
    BY <2>1 DEF Over, Within
  <2> QED BY <1>1, <2>1, <2>2
<1>7. CASE Breaks
  <2>1. PICK line, returned :
          /\ Recording(line, returned, "idle")
          /\ line.kind \in {"user", "aborted", "error"} /\ turn' = turn
          /\ line.kind \in Items => pc \in Within
          /\ returned \in {"idle", "aborting"} /\ (returned = "aborting" => pc \in Within)
    BY <1>7 DEF Breaks
  <2>2. line.kind # "complete"
    BY <2>1
  <2>3. pc \in Over => pc \notin Within /\ {"idle"} \subseteq Over
    BY DEF Over, Within
  <2>4. pc \in Over => line.kind \notin Items /\ {returned, "idle"} \subseteq Over
    BY <2>1, <2>3
  <2> QED BY <1>1, <2>1, <2>2, <2>4
<1> QED BY <1>3, <1>4, <1>5, <1>6, <1>7

\* A step that records nothing adds nothing to a turn that is complete.
LEMMA CompletedPasses ==
  ASSUME SessionInv, Passes
  PROVE  Completed'
<1>0. \A c \in Given : c.kind = "complete" => Settled(c.turn) /\ CompletedIn(c, Given, turn, Ahead)
  BY CompletedIs DEF SessionInv
<1>1. Given' = Given /\ UNCHANGED <<log, turn>>
  BY GivenStays DEF Passes
<1>2. Ahead \subseteq Over => Ahead' \subseteq Over
  <2>1. CASE pc' = "ended"
    BY <2>1 DEF Ahead, Over
  <2>2. CASE pc' # "ended"
    <3>1. pc # "append" /\ (pc \in Over => pc' = pc)
      BY <2>2 DEF Passes
    <3> QED BY <3>1 DEF Ahead, Over
  <2> QED BY <2>1, <2>2
<1>3. PICK ahead : ahead = Ahead'
  OBVIOUS
<1>4. \A c \in Given : c.kind = "complete" => Settled(c.turn) /\ CompletedIn(c, Given, turn, ahead)
  BY <1>0, <1>2, <1>3 DEF CompletedIn
<1> QED BY <1>1, <1>3, <1>4, SettledStays, CompletedIs

\* The line that lands is no item of it.
LEMMA CompletedLands ==
  ASSUME SessionInv, NEW ok \in BOOLEAN, Lands(ok)
  PROVE  Completed'
<1>0. FileInv /\ Numbered /\ \A c \in Given : c.kind = "complete" => Settled(c.turn) /\ CompletedIn(c, Given, turn, Ahead)
  BY CompletedIs DEF SessionInv
<1>1. PICK line \in Recorded :
         /\ doing = <<line>> /\ Range(doing) = {line} /\ Range(doing') = {} /\ Given' = Given /\ line \in Given
         /\ Len(log') = Len(log) + 1 /\ (\A i \in 1 .. Len(log) : log'[i] = log[i])
         /\ DOMAIN log' = 1 .. Len(log) + 1 /\ log' # <<>>
         /\ log'[Len(log) + 1] = [line |-> line, ok |-> ok]
         /\ Ahead' \subseteq Ahead /\ log' = Append(log, [line |-> line, ok |-> ok])
  BY <1>0, GivenLands
<1>2. turn' = turn
  BY DEF Lands
<1>3. ASSUME NEW c \in Given, c.kind = "complete" PROVE Settled(c.turn)'
  <2>0. PICK t : t = c.turn
    OBVIOUS
  <2>1. Settled(t) /\ CompletedIn(c, Given, turn, Ahead)
    BY <1>0, <1>3, <2>0
  <2>2. line.turn = t => line.kind \notin Items
    <3>1. SUFFICES ASSUME line.turn = t, line.kind \in Items PROVE FALSE
      OBVIOUS
    <3>2. line.n < c.n
      BY <1>1, <2>0, <2>1, <3>1 DEF CompletedIn
    <3>3. c # line
      BY <1>3, <3>1 DEF Items
    <3>4. PICK i \in 1 .. Len(log) : c = log[i].line
      BY <1>0, <1>1, <3>3, LogTyped
    <3>5. c.n < line.n
      BY <1>0, <1>1, <3>4, LogTyped DEF Numbered
    <3>6. c.n \in Nat /\ line.n \in Nat
      BY <1>0, <1>1 DEF Numbered, Recorded
    <3> QED BY <3>2, <3>5, <3>6
  <2>3. Sound(t)'
    BY <1>0, <1>1, <2>1, <2>2, SoundLands DEF Settled
  <2>4. /\ Count("call", t) \in Nat /\ Count("output", t) \in Nat
        /\ Count("call", t)' = Count("call", t) + (IF line.kind = "call" /\ line.turn = t THEN 1 ELSE 0)
        /\ Count("output", t)' = Count("output", t) + (IF line.kind = "output" /\ line.turn = t THEN 1 ELSE 0)
    BY <1>0, <1>1, CountLands
  <2>5. Count("call", t)' = Count("output", t)'
    BY <2>1, <2>2, <2>4 DEF Settled, Items
  <2> QED BY <2>0, <2>3, <2>5 DEF Settled
<1>4. PICK ahead : ahead = Ahead'
  OBVIOUS
<1>5. \A c \in Given : c.kind = "complete" => CompletedIn(c, Given, turn, ahead)
  BY <1>0, <1>1, <1>4 DEF CompletedIn
<1> QED BY <1>1, <1>2, <1>3, <1>4, <1>5, CompletedIs

-----------------------------------------------------------------------------
(* The steps, put together.                                                *)

\* The session at its start.
LEMMA SessionStarts == Init => SessionInv
<1> SUFFICES ASSUME Init PROVE SessionInv
  OBVIOUS
<1>1. /\ doing = <<>> /\ log = <<>> /\ pc = "idle" /\ then = [returned |-> "idle", raised |-> "idle"]
      /\ turn = 0 /\ open = <<>> /\ history = <<Startup>> /\ count = 0
  BY DEF Init
<1>2. FileInv
  BY FileStarts
<1>3. Range(doing) = {} /\ DOMAIN log = {} /\ Given = {} /\ Ahead = {"idle"}
  BY <1>1 DEF Range, Given, Ahead
<1>4. Numbered /\ Completed
  BY <1>3 DEF Numbered, Completed
<1>5. Begun
  BY <1>1, <1>3 DEF Begun
<1>6. Remembered
  <2>1. Startup = [kind |-> "user", turn |-> 0, n |-> 0] /\ "user" \in Kinds
    BY DEF Startup, Line, Kinds, Items
  <2>2. Startup \in Item
    BY <2>1 DEF Item
  <2>3. history \in Seq(Item) /\ history # <<>> /\ Len(history) = 1
    BY <1>1, <2>2
  <2> QED BY <1>3, <2>3 DEF Remembered
<1>7. Balanced
  <2>1. "idle" \notin Within /\ "idle" # "calls"
    BY DEF Within
  <2> QED BY <1>1, <1>3, <2>1 DEF Balanced, Working
<1> QED BY <1>2, <1>4, <1>5, <1>6, <1>7 DEF SessionInv

\* The steps that record keep all of it,
LEMMA RecordingKeeps ==
  ASSUME SessionInv, BeginsTurn \/ StartsTurn \/ Works \/ Completes \/ Breaks
  PROVE  Numbered' /\ Begun' /\ Remembered' /\ Balanced' /\ Completed'
<1>1. PICK line, returned, raised : Records(line, returned, raised)
  BY WorkRecords
<1>2. turn \in Nat /\ FileInv /\ Numbered
  BY LogTyped DEF SessionInv
<1>3. Recording(line, returned, raised) /\ turn' \in {turn, turn + 1} /\ turn' >= 1 /\ line.kind # "meta"
  BY <1>1, <1>2 DEF Records
<1> QED BY <1>1, <1>2, <1>3, NumberedMore, BegunRecords, RememberedRecords, BalancedRecords, CompletedRecords

\* and so do those that do not,
LEMMA PassingKeeps ==
  ASSUME SessionInv, Passes
  PROVE  Numbered' /\ Begun' /\ Remembered' /\ Balanced' /\ Completed'
<1>1. UNCHANGED <<doing, log, turn>> /\ count' \in {count, count + 1} /\ FileInv /\ Numbered
  BY DEF Passes, SessionInv
<1>2. Numbered'
  BY <1>1, NumberedStays
<1> QED BY <1>2, BegunPasses, RememberedPasses, BalancedPasses, CompletedPasses

\* A step that only writes a part of the line, or nothing.
LEMMA StandingKeeps ==
  ASSUME SessionInv, UNCHANGED <<doing, log, sessionVars>>
  PROVE  Numbered' /\ Begun' /\ Remembered' /\ Balanced' /\ Completed'
<1>1. UNCHANGED <<doing, log, pc, then, turn, open, history, compacted, count>> /\ FileInv
  BY DEF sessionVars, SessionInv
<1>2. Given' = Given /\ Ahead' = Ahead /\ (Failed' = Failed) /\ Range(doing') = Range(doing)
  BY <1>1, GivenStays DEF Ahead
<1>3. Numbered'
  BY <1>1, <1>2 DEF SessionInv, Numbered
<1>4. Begun'
  BY <1>1, <1>2 DEF SessionInv, Begun, HasStart, IsStart
<1>5. Remembered'
  BY <1>1, <1>2 DEF SessionInv, Remembered
<1>6. Balanced'
  <2>1. Held' /\ (Working' => Working)
    BY <1>1, <1>2, BalancedIs DEF SessionInv, Held, Working
  <2> QED BY <1>1, <2>1, BalancedStays
<1>7. Completed'
  BY <1>1, <1>2, SettledStays, CompletedIs DEF SessionInv
<1> QED BY <1>3, <1>4, <1>5, <1>6, <1>7

\* and the ends of an append.
LEMMA LandingKeeps ==
  ASSUME SessionInv, NEW ok \in BOOLEAN, Lands(ok)
  PROVE  Numbered' /\ Begun' /\ Remembered' /\ Balanced' /\ Completed'
<1>1. FileInv /\ Numbered
  BY DEF SessionInv
<1>2. Numbered'
  BY <1>1, NumberedLands
<1>3. Remembered'
  <2>1. Given' = Given /\ UNCHANGED <<history, compacted, count>>
    BY <1>1, GivenLands DEF Lands
  <2> QED BY <2>1 DEF SessionInv, Remembered
<1> QED BY <1>2, <1>3, BegunLands, BalancedLands, CompletedLands

\* However a session goes on, what it has recorded is numbered as it came, a turn starts once and before its items,
\* history holds what was recorded, and a turn whose task_complete is recorded has lost nothing and is in balance
\* (Session.record_item, record_event and run_turn).
THEOREM SessionInductive == Spec => []SessionInv
<1>1. ASSUME SessionInv, [Next]_vars PROVE SessionInv'
  <2>0. FileInv
    BY <1>1 DEF SessionInv
  <2>1. CASE TurnStep \/ Ends
    <3>1. FileInv'
      BY <2>0, <2>1, SessionMoves, MovesKeep DEF FileInv
    <3>2. BeginsTurn \/ StartsTurn \/ Works \/ Completes \/ Breaks \/ Passes
      BY <1>1, <2>1, SessionDoes
    <3>3. Numbered' /\ Begun' /\ Remembered' /\ Balanced' /\ Completed'
      BY <1>1, <3>2, RecordingKeeps, PassingKeeps
    <3> QED BY <3>1, <3>3 DEF SessionInv
  <2>2. CASE AppendPart \/ UNCHANGED vars
    <3>1. FileInv'
      <4>1. CASE UNCHANGED vars
        BY <2>0, <4>1 DEF FileInv, TypeOK, Writing, Stored, Alone, IsLine, End, vars, appendVars, sessionVars
      <4> QED BY <2>0, <2>2, <4>1, PartKeeps
    <3>2. UNCHANGED <<doing, log, sessionVars>>
      BY <2>2 DEF AppendPart, vars, appendVars
    <3>3. Numbered' /\ Begun' /\ Remembered' /\ Balanced' /\ Completed'
      BY <1>1, <3>2, StandingKeeps
    <3> QED BY <3>1, <3>3 DEF SessionInv
  <2>3. CASE AppendReturns \/ AppendRaises
    <3>1. FileInv'
      BY <2>0, <2>3, ReturnKeeps, RaiseKeeps
    <3>2. PICK line \in Recorded : doing = <<line>>
      BY <2>0, <2>3 DEF FileInv, Writing, AppendReturns, AppendRaises
    <3>3. Lands(TRUE) \/ Lands(FALSE)
      <4>1. CASE AppendReturns
        BY <3>2, <4>1 DEF AppendReturns, Lands
      <4>2. CASE AppendRaises
        BY <3>2, <4>2 DEF AppendRaises, AfterFailure, Lands
      <4> QED BY <2>3, <4>1, <4>2
    <3>4. Numbered' /\ Begun' /\ Remembered' /\ Balanced' /\ Completed'
      BY <1>1, <3>3, LandingKeeps
    <3> QED BY <3>1, <3>4 DEF SessionInv
  <2> QED BY <1>1, <2>1, <2>2, <2>3 DEF Next
<1>2. SessionInv /\ [Next]_vars => SessionInv'
  BY <1>1
<1> QED BY <1>2, SessionStarts, PTL DEF Spec

-----------------------------------------------------------------------------
(* What the readers select.                                                *)

\* What is in a file, or in history.
Mark == [kind : Kinds \cup {"newline", "cut", "broken", "other"}, turn : Nat, n : Nat]

\* They are numbered, and all that is written and remembered is of them.
LEMMA Marks ==
  /\ Numerals(Mark) /\ Token \subseteq Mark /\ Recorded \subseteq Mark /\ Item \subseteq Mark
  /\ Meta \in Mark /\ Meta.n = 0 /\ Meta.kind = "meta" /\ Meta.turn = 0
  /\ \A S \in SUBSET Mark : Seq(S) \subseteq Seq(Mark)
<1>1. Numerals(Mark)
  BY DEF Numerals, Mark
<1>2. Token \subseteq Mark /\ Recorded \subseteq Mark /\ Item \subseteq Mark
  BY DEF Token, Recorded, Item, Mark
<1>3. Meta = [kind |-> "meta", turn |-> 0, n |-> 0] /\ "meta" \in Kinds
  BY DEF Meta, Line, Kinds
<1>4. Meta \in Mark
  BY <1>3 DEF Mark
<1>5. \A S \in SUBSET Mark : Seq(S) \subseteq Seq(Mark)
  BY SeqMonotonic
<1> QED BY <1>1, <1>2, <1>3, <1>4, <1>5

\* The lines of these kinds.
LEMMA OnlyAmong ==
  ASSUME NEW s \in Seq(Mark), NEW kinds
  PROVE  /\ Only(s, kinds) \in Seq(Mark) /\ (Ordered(s) => Ordered(Only(s, kinds)))
         /\ \A x \in Mark : Among(Only(s, kinds), x) <=> Among(s, x) /\ x.kind \in kinds
<1> DEFINE S == { x \in Mark : x.kind \in kinds }
<1>1. \A i \in 1 .. Len(s) : i \in KindAt(s, kinds) <=> s[i] \in S
  BY LenProperties, ElementOfSeq DEF KindAt
<1>2. \A x : Among(Only(s, kinds), x) <=> Among(s, x) /\ x \in S
  <2> HIDE DEF S
  <2> QED BY <1>1, SelectedAmong DEF Only
<1>3. Only(s, kinds) \in Seq(Mark) /\ (Ordered(s) => Ordered(Only(s, kinds)))
  BY SelectedPicks, SelectedOrdered DEF Only
<1> QED BY <1>2, <1>3

\* The lines of these turns.
LEMMA OfAmong ==
  ASSUME NEW s \in Seq(Mark), NEW turns
  PROVE  /\ Of(s, turns) \in Seq(Mark) /\ (Ordered(s) => Ordered(Of(s, turns)))
         /\ \A x \in Mark : Among(Of(s, turns), x) <=> Among(s, x) /\ x.turn \in turns
<1> DEFINE S  == { x \in Mark : x.turn \in turns }
           at == { i \in DOMAIN s : s[i].turn \in turns }
<1>1. \A i \in 1 .. Len(s) : i \in at <=> s[i] \in S
  BY LenProperties, ElementOfSeq
<1>2. \A x : Among(Selected(s, at), x) <=> Among(s, x) /\ x \in S
  <2> HIDE DEF S, at
  <2> QED BY <1>1, SelectedAmong
<1>3. Selected(s, at) \in Seq(Mark) /\ (Ordered(s) => Ordered(Selected(s, at)))
  <2> HIDE DEF at
  <2> QED BY SelectedPicks, SelectedOrdered
<1> QED BY <1>2, <1>3 DEF Of

-----------------------------------------------------------------------------
(* What is read is what was given.                                         *)

\* The appended lines, in order.
LEMMA AppendedIs ==
  ASSUME SessionInv
  PROVE  /\ Appended \in Seq(Mark) /\ Ordered(Appended) /\ Len(Appended) = Len(log)
         /\ Range(Appended) = { log[i].line : i \in 1 .. Len(log) }
         /\ \A i \in 1 .. Len(log) : Appended[i] = log[i].line
         /\ \A x : Among(Appended, x) <=> x \in Range(Appended)
<1>1. /\ FileInv /\ Numbered /\ Len(log) \in Nat /\ DOMAIN log = 1 .. Len(log)
      /\ \A i \in 1 .. Len(log) : log[i].line \in Mark
  BY LogTyped, Marks DEF SessionInv
<1>2. Appended = [i \in 1 .. Len(log) |-> log[i].line]
  BY <1>1 DEF Appended
<1>3. Appended \in Seq(Mark) /\ Len(Appended) = Len(log)
  BY <1>1, <1>2, IsASeq
<1>4. Ordered(Appended)
  BY <1>1, <1>2, <1>3 DEF Ordered, Numbered
<1> QED BY <1>2, <1>3, <1>4 DEF Range, Among

\* What was given: what was appended, and the line in hand, which is the last.
LEMMA GivenIs ==
  ASSUME SessionInv
  PROVE  /\ Given = Range(Appended) \cup Range(doing)
         /\ \A x \in Given : x \in Mark /\ x.kind # "meta" /\ x.n \in Nat \ {0} /\ x.turn \in Nat /\ x.kind \in Kinds
         /\ \A x \in Range(Appended), y \in Range(doing) : x.n < y.n
         /\ \A x, y \in Range(doing) : x = y
         /\ Len(doing) \in Nat /\ (Len(doing) = 0 => Range(doing) = {})
<1>1. FileInv /\ Numbered
  BY DEF SessionInv
<1>2. Len(log) \in Nat /\ DOMAIN log = 1 .. Len(log) /\ Range(Appended) = { log[i].line : i \in 1 .. Len(log) }
  BY <1>1, LogTyped, AppendedIs
<1>3. Given = Range(Appended) \cup Range(doing)
  BY <1>2 DEF Given
<1>4. \A x \in Given : x \in Mark /\ x.kind # "meta" /\ x.n \in Nat \ {0} /\ x.turn \in Nat /\ x.kind \in Kinds
  BY <1>1, Marks DEF Numbered, Recorded
<1>5. \A x \in Range(Appended), y \in Range(doing) : x.n < y.n
  BY <1>1, <1>2 DEF Numbered
<1>6. doing = <<>> \/ \E line \in Recorded : doing = <<line>>
  BY <1>1 DEF FileInv, Writing
<1>7. (\A x, y \in Range(doing) : x = y) /\ Len(doing) \in Nat /\ (Len(doing) = 0 => Range(doing) = {})
  BY <1>6 DEF Range
<1> QED BY <1>3, <1>4, <1>5, <1>7

\* A session's file as it is read, or the beginning of it.
Told(lines) ==
  /\ lines \in Seq(Mark) /\ Ordered(lines) /\ Len(lines) >= 1 /\ lines[1] = Meta
  /\ \A i \in 2 .. Len(lines) : lines[i].kind \in Kinds \ {"meta"} /\ lines[i].n > 0

\* What is read: the session_meta, then given lines in their order; and the appended ones whose append held.
LEMMA ReadIs ==
  ASSUME SessionInv, AppendedLinesAreRead
  PROVE  /\ Told(Read)
         /\ \A x : Among(Read, x) => x = Meta \/ x \in Given
         /\ \A i \in 1 .. Len(log) : log[i].ok /\ (i = 1 \/ log[i - 1].ok) => Among(Read, log[i].line)
<1>0. FileInv /\ Numbered /\ DOMAIN log = 1 .. Len(log)
  BY LogTyped DEF SessionInv
<1>1. file \in Seq(Mark) /\ DOMAIN file = 1 .. Len(file) /\ Len(file) \in Nat
  BY <1>0, Marks, Sizes DEF FileInv, TypeOK
<1>2. PICK rows : rows = Rows(file)
  OBVIOUS
<1>3. /\ rows \in SUBSET (1 .. Len(file)) /\ 1 \in rows /\ file[1] = Meta
      /\ \A i, j \in rows \ {1} : i < j => file[i].n < file[j].n
      /\ \A i \in rows \ {1} : file[i] \in Given
      /\ \A i \in 1 .. Len(log) : log[i].ok /\ (i = 1 \/ log[i - 1].ok) => \E j \in rows : file[j] = log[i].line
  <2>1. rows \in SUBSET (1 .. Len(file))
    BY <1>1, <1>2 DEF Rows
  <2> QED BY <1>0, <1>2, <2>1, GivenIs DEF AppendedLinesAreRead
<1>4. Read = Selected(file, rows)
  BY <1>2 DEF Read, ReadRollout
<1>5. /\ Read \in Seq(Mark) /\ Len(Read) \in Nat /\ Len(Read) >= 1 /\ Read[1] = file[1]
      /\ \A k \in 2 .. Len(Read) : \E i \in rows \ {1} : Read[k] = file[i]
      /\ \A k, l \in 2 .. Len(Read) : k < l => \E i, j \in rows \ {1} : i < j /\ Read[k] = file[i] /\ Read[l] = file[j]
      /\ \A i \in rows : \E k \in 1 .. Len(Read) : Read[k] = file[i]
  <2>1. BeginsWith(Selected(file, rows), file, rows)
    BY <1>1, <1>3, SelectedBegins
  <2>2. Read \in Seq(Mark)
    BY <1>1, <1>4, SelectedPicks
  <2> QED BY <1>4, <2>1, <2>2 DEF BeginsWith
<1>8. \A k \in 2 .. Len(Read) : Read[k] \in Given /\ Read[k].kind \in Kinds \ {"meta"} /\ Read[k].n > 0 /\ Read[k].n \in Nat
  <2>1. \A x \in Given : x.kind \in Kinds \ {"meta"} /\ x.n > 0 /\ x.n \in Nat
    BY GivenIs
  <2>2. \A k \in 2 .. Len(Read) : Read[k] \in Given
    BY <1>3, <1>5
  <2> QED BY <2>1, <2>2
<1>9. Read[1] = Meta
  BY <1>3, <1>5
<1>10. Ordered(Read)
  <2>1. SUFFICES ASSUME NEW k \in 1 .. Len(Read), NEW l \in 1 .. Len(Read), k < l PROVE Read[k].n < Read[l].n
    BY DEF Ordered
  <2>2. l \in 2 .. Len(Read)
    BY <1>5, <2>1
  <2>3. CASE k = 1
    BY <1>8, <1>9, <2>2, <2>3, Marks
  <2>4. CASE k # 1
    <3>1. k \in 2 .. Len(Read)
      BY <2>4
    <3>2. PICK i \in rows \ {1}, j \in rows \ {1} : i < j /\ Read[k] = file[i] /\ Read[l] = file[j]
      BY <1>5, <2>1, <2>2, <3>1
    <3> QED BY <1>3, <3>2
  <2> QED BY <2>3, <2>4
<1>11. Told(Read)
  BY <1>5, <1>8, <1>9, <1>10 DEF Told
<1>12. \A x : Among(Read, x) => x = Meta \/ x \in Given
  <2>1. \A k \in 1 .. Len(Read) : k = 1 \/ k \in 2 .. Len(Read)
    BY <1>5
  <2> QED BY <1>8, <1>9, <2>1 DEF Among
<1>13. \A i \in 1 .. Len(log) : log[i].ok /\ (i = 1 \/ log[i - 1].ok) => Among(Read, log[i].line)
  <2>1. \A j \in rows : Among(Read, file[j])
    BY <1>5 DEF Among
  <2> QED BY <1>3, <2>1
<1> QED BY <1>11, <1>12, <1>13

\* While no append has failed, all of them are read.
LEMMA AllRead ==
  ASSUME SessionInv, AppendedLinesAreRead, ~Failed
  PROVE  \A x \in Range(Appended) : Among(Read, x)
<1>1. DOMAIN log = 1 .. Len(log) /\ Len(log) \in Nat
  BY LogTyped DEF SessionInv
<1>2. ASSUME NEW i \in 1 .. Len(log) PROVE log[i].ok /\ (i = 1 \/ log[i - 1].ok)
  <2>1. i = 1 \/ i - 1 \in 1 .. Len(log)
    BY <1>1
  <2> QED BY <1>1, <2>1 DEF Failed
<1> QED BY <1>2, ReadIs, AppendedIs

-----------------------------------------------------------------------------
(* Forks.                                                                  *)

\* The beginning of what is told is told.
LEMMA ToldBeginning ==
  ASSUME NEW lines, Told(lines), NEW m \in 0 .. Len(lines)
  PROVE  /\ SubSeq(lines, 1, m) \in Seq(Mark) /\ Len(SubSeq(lines, 1, m)) = m /\ Ordered(SubSeq(lines, 1, m))
         /\ \A i \in 1 .. m : SubSeq(lines, 1, m)[i] = lines[i] /\ i \in 1 .. Len(lines)
         /\ (m >= 1 => Told(SubSeq(lines, 1, m))) /\ m \in Nat /\ Len(lines) \in Nat
<1>1. lines \in Seq(Mark) /\ Ordered(lines) /\ Len(lines) \in Nat /\ m \in Nat
  BY LenProperties DEF Told
<1>2. /\ SubSeq(lines, 1, m) \in Seq(Mark) /\ Len(SubSeq(lines, 1, m)) = m /\ Ordered(SubSeq(lines, 1, m))
      /\ \A i \in 1 .. m : SubSeq(lines, 1, m)[i] = lines[i] /\ i \in 1 .. Len(lines)
  BY <1>1, Marks, OrderedBeginning
<1>3. PICK s : s = SubSeq(lines, 1, m)
  OBVIOUS
<1>4. ASSUME m >= 1 PROVE Told(s)
  <2>1. 1 \in 1 .. m /\ \A i \in 2 .. m : i \in 1 .. m /\ i \in 2 .. Len(lines)
    BY <1>1, <1>2, <1>4
  <2> QED BY <1>2, <1>3, <1>4, <2>1 DEF Told
<1> QED BY <1>1, <1>2, <1>3, <1>4

\* Where the turns of a file start, in their order.
LEMMA StartsIs ==
  ASSUME NEW lines \in Seq(Mark)
  PROVE  /\ Len(Starts(lines)) \in Nat /\ Grows(Starts(lines), Len(Starts(lines)))
         /\ \A k \in 1 .. Len(Starts(lines)) :
              Starts(lines)[k] \in 1 .. Len(lines) /\ lines[Starts(lines)[k]].kind = "started"
         /\ \A i \in 1 .. Len(lines) : lines[i].kind = "started" => \E k \in 1 .. Len(Starts(lines)) : Starts(lines)[k] = i
         /\ Number("started", lines) = Len(Starts(lines))
<1> DEFINE at == KindAt(lines, {"started"})
           s  == [i \in 1 .. Len(lines) |-> i]
<1>1. Len(lines) \in Nat /\ DOMAIN lines = 1 .. Len(lines) /\ at = { i \in 1 .. Len(lines) : lines[i].kind = "started" }
  BY LenProperties DEF KindAt
<1>2. s \in Seq(Int) /\ Len(s) = Len(lines) /\ Starts(lines) = Selected(s, at)
  <2>1. s \in Seq(Int) /\ Len(s) = Len(lines)
    BY <1>1, IsASeq
  <2> QED BY <1>1, <2>1 DEF Starts
<1>3. \A i \in 1 .. Len(lines) : s[i] = i
  OBVIOUS
<1> HIDE DEF s
<1>4. PICK r : r = Selected(s, at)
  OBVIOUS
<1>5. PICK q : q = Selected(lines, at)
  OBVIOUS
<1>6. at \cap 1 .. Len(lines) = at
  BY <1>1
<1> HIDE DEF at
<1>7. r \in Seq(Int) /\ \E from : Picks(r, s, at, from)
  BY <1>2, <1>4, <1>6, SelectedPicks DEF Picked
<1>8. q \in Seq(Mark) /\ \E from : Picks(q, lines, at, from)
  BY <1>5, <1>6, SelectedPicks DEF Picked
<1>9. PICK f : Picks(r, s, at, f)
  BY <1>7
<1>10. PICK g : Picks(q, lines, at, g)
  BY <1>8
<1>11. Len(r) \in Nat /\ Len(q) \in Nat /\ r \in [1 .. Len(r) -> Int]
  BY <1>7, <1>8, LenProperties
<1>12. /\ \A k \in 1 .. Len(r) : r[k] = f[k] /\ f[k] \in at /\ f[k] \in Int
       /\ \A k \in 1 .. Len(q) : g[k] \in at /\ g[k] \in Int
       /\ \A i \in at : \E k \in 1 .. Len(r) : f[k] = i
       /\ \A i \in at : \E k \in 1 .. Len(q) : g[k] = i
  <2>1. \A i \in at : i \in 1 .. Len(lines) /\ i \in Int
    BY <1>1, <1>6
  <2>2. f \in [1 .. Len(r) -> at] /\ (\A k \in 1 .. Len(r) : r[k] = s[f[k]])
        /\ (\A i \in at : \E k \in 1 .. Len(r) : f[k] = i)
    BY <1>9 DEF Picks
  <2>3. g \in [1 .. Len(q) -> at] /\ (\A i \in at : \E k \in 1 .. Len(q) : g[k] = i)
    BY <1>10 DEF Picks
  <2>4. \A k \in 1 .. Len(r) : r[k] = f[k] /\ f[k] \in at /\ f[k] \in Int
    BY <1>3, <2>1, <2>2
  <2>5. \A k \in 1 .. Len(q) : g[k] \in at /\ g[k] \in Int
    BY <2>1, <2>3
  <2> QED BY <2>2, <2>3, <2>4, <2>5
<1>13. Grows(f, Len(r)) /\ Grows(g, Len(q)) /\ Grows(r, Len(r))
  <2>1. f \in [1 .. Len(r) -> Int] /\ \A k, l \in 1 .. Len(r) : k < l => f[k] < f[l]
    BY <1>9, <1>12 DEF Picks
  <2>2. g \in [1 .. Len(q) -> Int] /\ \A k, l \in 1 .. Len(q) : k < l => g[k] < g[l]
    BY <1>10, <1>12 DEF Picks
  <2>3. \A k, l \in 1 .. Len(r) : k < l => r[k] < r[l]
    BY <1>12, <2>1
  <2> QED BY <1>11, <2>1, <2>2, <2>3 DEF Grows
<1>14. Covers(f, Len(r), g, Len(q)) /\ Covers(g, Len(q), f, Len(r))
  BY <1>12 DEF Covers
<1>15. Len(q) = Len(r)
  BY <1>11, <1>13, <1>14, GrowAlike
<1>16. Number("started", lines) = Len(q)
  BY <1>5 DEF Number, Only, at
<1>17. \A k \in 1 .. Len(r) : r[k] \in 1 .. Len(lines) /\ lines[r[k]].kind = "started"
  BY <1>1, <1>12
<1>18. \A i \in 1 .. Len(lines) : lines[i].kind = "started" => \E k \in 1 .. Len(r) : r[k] = i
  BY <1>1, <1>12
<1> QED BY <1>2, <1>4, <1>11, <1>13, <1>15, <1>16, <1>17, <1>18

\* A fork is the beginning of the session's file, up to the start that is one too many.
LEMMA ForkIs ==
  ASSUME NEW lines, Told(lines), NEW keep \in Nat
  PROVE  /\ ForkEnd(lines, keep) \in 1 .. Len(lines)
         /\ ForkLines(lines, keep) = SubSeq(lines, 1, ForkEnd(lines, keep))
         /\ Told(ForkLines(lines, keep)) /\ Len(ForkLines(lines, keep)) = ForkEnd(lines, keep)
<1>0. lines \in Seq(Mark) /\ Len(lines) \in Nat /\ Len(lines) >= 1 /\ lines[1] = Meta
  BY LenProperties DEF Told
<1>1. PICK m : m = ForkEnd(lines, keep)
  OBVIOUS
<1>2. m \in 1 .. Len(lines)
  <2>1. CASE Len(Starts(lines)) > keep
    <3>1. keep + 1 \in 1 .. Len(Starts(lines))
      BY <2>1, <1>0, StartsIs
    <3>2. PICK p \in 1 .. Len(lines) : Starts(lines)[keep + 1] = p /\ lines[p].kind = "started"
      BY <1>0, <3>1, StartsIs
    <3>3. p # 1
      BY <1>0, <3>2, Marks
    <3>4. m = p - 1
      BY <1>1, <2>1, <3>2 DEF ForkEnd
    <3> QED BY <1>0, <3>3, <3>4
  <2>2. CASE ~(Len(Starts(lines)) > keep)
    BY <1>0, <1>1, <2>2 DEF ForkEnd
  <2> QED BY <2>1, <2>2
<1>3. PICK s : s = SubSeq(lines, 1, m)
  OBVIOUS
<1>4. s \in Seq(Mark) /\ Ordered(s) /\ Told(s) /\ Len(s) = m
  <2>1. m \in 0 .. Len(lines) /\ m >= 1
    BY <1>0, <1>2
  <2> QED BY <1>3, <2>1, ToldBeginning
<1>5. PICK r : r = Only(s, Kinds \ {"meta"})
  OBVIOUS
<1>6. /\ r \in Seq(Mark) /\ Ordered(r) /\ Len(r) \in Nat
      /\ \A x \in Mark : Among(r, x) <=> Among(s, x) /\ x.kind \in Kinds \ {"meta"}
  BY <1>4, <1>5, OnlyAmong, LenProperties
<1>7. PICK t : t = <<Meta>> \o r
  OBVIOUS
<1>8. ForkLines(lines, keep) = t
  BY <1>1, <1>3, <1>5, <1>7 DEF ForkLines
<1>9. /\ t \in Seq(Mark) /\ Len(t) = Len(r) + 1 /\ t[1] = Meta
      /\ \A i \in 2 .. Len(t) : t[i] = r[i - 1] /\ i - 1 \in 1 .. Len(r)
  <2>1. <<Meta>> \in Seq(Mark) /\ Len(<<Meta>>) = 1 /\ <<Meta>>[1] = Meta
    BY Marks
  <2>2. /\ t \in Seq(Mark) /\ Len(t) = 1 + Len(r)
        /\ \A i \in 1 .. 1 + Len(r) : t[i] = IF i <= 1 THEN <<Meta>>[i] ELSE r[i - 1]
    BY <1>6, <1>7, <2>1, ConcatProperties
  <2>3. t[1] = Meta
    BY <1>6, <2>1, <2>2
  <2>4. \A i \in 2 .. Len(t) : t[i] = r[i - 1] /\ i - 1 \in 1 .. Len(r)
    BY <1>6, <2>2
  <2> QED BY <1>6, <2>2, <2>3, <2>4
<1>10. \A i \in 1 .. Len(r) : r[i] \in Mark /\ r[i].n > 0 /\ r[i].n \in Nat
  <2>1. SUFFICES ASSUME NEW i \in 1 .. Len(r) PROVE r[i] \in Mark /\ r[i].n > 0 /\ r[i].n \in Nat
    OBVIOUS
  <2>2. r[i] \in Mark /\ Among(r, r[i])
    BY <1>6, <2>1, ElementOfSeq DEF Among
  <2>3. PICK j \in 1 .. Len(s) : s[j] = r[i]
    BY <1>6, <2>2 DEF Among
  <2>4. r[i].kind # "meta"
    BY <1>6, <2>2
  <2>5. j # 1
    BY <1>4, <2>3, <2>4, Marks DEF Told
  <2>6. j \in 2 .. Len(s)
    BY <1>4, <2>3, <2>5
  <2> QED BY <1>4, <2>2, <2>3, <2>6 DEF Told, Mark
<1>11. Ordered(t)
  <2>1. SUFFICES ASSUME NEW i \in 1 .. Len(t), NEW j \in 1 .. Len(t), i < j PROVE t[i].n < t[j].n
    BY DEF Ordered
  <2>2. j \in 2 .. Len(t) /\ j - 1 \in 1 .. Len(r) /\ t[j] = r[j - 1]
    BY <1>9, <2>1
  <2>3. CASE i = 1
    BY <1>9, <1>10, <2>2, <2>3, Marks
  <2>4. CASE i # 1
    <3>1. i \in 2 .. Len(t) /\ i - 1 < j - 1
      BY <1>6, <1>9, <2>1, <2>4
    <3>2. i - 1 \in 1 .. Len(r) /\ t[i] = r[i - 1]
      BY <1>9, <3>1
    <3>3. PICK k \in 1 .. Len(r), l \in 1 .. Len(r) : k = i - 1 /\ l = j - 1
      BY <2>2, <3>2
    <3> QED BY <1>6, <2>2, <3>1, <3>2, <3>3 DEF Ordered
  <2> QED BY <2>3, <2>4
<1>12. \A x \in Mark : Among(t, x) <=> Among(s, x)
  <2>1. \A x : Among(t, x) <=> x = Meta \/ Among(r, x)
    <3>1. ASSUME NEW x, Among(t, x) PROVE x = Meta \/ Among(r, x)
      <4>1. PICK i \in 1 .. Len(t) : t[i] = x
        BY <3>1 DEF Among
      <4>2. i = 1 \/ i \in 2 .. Len(t)
        BY <1>6, <1>9
      <4> QED BY <1>9, <4>1, <4>2 DEF Among
    <3>2. Among(t, Meta)
      BY <1>6, <1>9 DEF Among
    <3>3. ASSUME NEW x, Among(r, x) PROVE Among(t, x)
      <4>1. PICK k \in 1 .. Len(r) : r[k] = x
        BY <3>3 DEF Among
      <4>2. PICK i \in 2 .. Len(t) : i = k + 1
        BY <1>6, <1>9
      <4>3. i \in 1 .. Len(t) /\ i - 1 = k
        BY <1>6, <1>9, <4>2
      <4> QED BY <1>9, <4>1, <4>3 DEF Among
    <3> QED BY <3>1, <3>2, <3>3
  <2>2. ASSUME NEW x, Among(s, x) PROVE x = Meta \/ x.kind \in Kinds \ {"meta"}
    <3>1. PICK i \in 1 .. Len(s) : s[i] = x
      BY <2>2 DEF Among
    <3>2. i = 1 \/ i \in 2 .. Len(s)
      BY <1>4
    <3> QED BY <1>4, <3>1, <3>2 DEF Told
  <2>3. Among(s, Meta)
    BY <1>2, <1>4 DEF Among, Told
  <2> QED BY <1>6, <2>1, <2>2, <2>3
<1>13. t = s
  BY <1>4, <1>9, <1>11, <1>12, Marks, OrderedAlike
<1> QED BY <1>1, <1>2, <1>3, <1>4, <1>8, <1>13

-----------------------------------------------------------------------------
(* Resuming: what is replayed is history.                                  *)

\* An ordered sequence, and the same with one more at its end.
LEMMA OrderedOneMore ==
  ASSUME NEW s \in Seq(Mark), NEW t \in Seq(Mark), NEW d \in Mark, Ordered(s), Ordered(t),
         \A x \in Mark : Among(t, x) <=> Among(s, x) \/ x = d,
         \A x \in Mark : Among(s, x) => x.n < d.n
  PROVE  t = Append(s, d)
<1>1. PICK u : u = Append(s, d)
  OBVIOUS
<1>2. /\ u \in Seq(Mark) /\ Len(u) = Len(s) + 1 /\ Len(s) \in Nat /\ u[Len(s) + 1] = d
      /\ \A i \in 1 .. Len(s) : u[i] = s[i] /\ s[i] \in Mark /\ s[i].n < d.n
  <2>1. \A i \in 1 .. Len(s) : s[i] \in Mark /\ s[i].n < d.n
    BY ElementOfSeq DEF Among
  <2> QED BY <1>1, <2>1, AppendProperties, LenProperties
<1>3. \A i \in 1 .. Len(u) : i = Len(s) + 1 \/ i \in 1 .. Len(s)
  BY <1>2
<1>4. Ordered(u)
  <2>1. SUFFICES ASSUME NEW i \in 1 .. Len(u), NEW j \in 1 .. Len(u), i < j PROVE u[i].n < u[j].n
    BY DEF Ordered
  <2>2. i \in 1 .. Len(s)
    BY <1>2, <2>1
  <2>3. CASE j = Len(s) + 1
    BY <1>2, <2>2, <2>3
  <2>4. CASE j \in 1 .. Len(s)
    BY <1>2, <2>1, <2>2, <2>4 DEF Ordered
  <2> QED BY <1>3, <2>1, <2>3, <2>4
<1>5. \A x : Among(u, x) <=> Among(s, x) \/ x = d
  <2>1. ASSUME NEW x, Among(u, x) PROVE Among(s, x) \/ x = d
    BY <1>2, <1>3, <2>1 DEF Among
  <2>2. Among(u, d)
    <3>1. Len(s) + 1 \in 1 .. Len(u)
      BY <1>2
    <3> QED BY <1>2, <3>1 DEF Among
  <2>3. ASSUME NEW x, Among(s, x) PROVE Among(u, x)
    <3>1. PICK i \in 1 .. Len(s) : s[i] = x
      BY <2>3 DEF Among
    <3>2. i \in 1 .. Len(u) /\ u[i] = x
      BY <1>2, <3>1
    <3> QED BY <3>2 DEF Among
  <2> QED BY <2>1, <2>2, <2>3
<1>6. \A x \in Mark : Among(t, x) <=> Among(u, x)
  BY <1>5
<1> QED BY <1>1, <1>2, <1>4, <1>6, Marks, OrderedAlike

\* Of history, what follows the session's beginning.
LEMMA HistoryIs ==
  ASSUME SessionInv, ~compacted
  PROVE  /\ Tail(history) \in Seq(Mark) /\ Ordered(Tail(history))
         /\ \A x \in Mark : x.kind \in Items => (Among(Tail(history), x) <=> x \in Given)
<1>1. PICK h : h = history
  OBVIOUS
<1>2. /\ h \in Seq(Item) /\ h # <<>>
      /\ \A i, j \in 2 .. Len(h) : i < j => h[i].n < h[j].n
      /\ \A i \in 2 .. Len(h) : h[i].kind \in Items => h[i] \in Given
      /\ \A x \in Given : x.kind \in Items => \E i \in 2 .. Len(h) : h[i] = x
  BY <1>1 DEF SessionInv, Remembered
<1>3. PICK t : t = Tail(h)
  OBVIOUS
<1>4. /\ t \in Seq(Mark) /\ Len(t) = Len(h) - 1 /\ Len(h) \in Nat /\ Len(t) \in Nat
      /\ \A i \in 1 .. Len(t) : t[i] = h[i + 1]
  <2>1. t \in Seq(Item) /\ Len(t) = Len(h) - 1 /\ \A i \in 1 .. Len(t) : t[i] = h[i + 1]
    BY <1>2, <1>3, HeadTailProperties
  <2>2. t \in Seq(Mark) /\ Len(t) \in Nat /\ Len(h) \in Nat
    BY <1>2, <2>1, Marks, SeqMonotonic, LenProperties
  <2> QED BY <2>1, <2>2
<1>5. Ordered(t)
  <2>1. SUFFICES ASSUME NEW i \in 1 .. Len(t), NEW j \in 1 .. Len(t), i < j PROVE t[i].n < t[j].n
    BY DEF Ordered
  <2>2. PICK k \in 2 .. Len(h), l \in 2 .. Len(h) : k = i + 1 /\ l = j + 1
    BY <1>4, <2>1
  <2>3. k < l /\ t[i] = h[k] /\ t[j] = h[l]
    BY <1>4, <2>1, <2>2
  <2> QED BY <1>2, <2>3
<1>6. ASSUME NEW x \in Mark, x.kind \in Items, Among(t, x) PROVE x \in Given
  <2>1. PICK i \in 1 .. Len(t) : t[i] = x
    BY <1>6 DEF Among
  <2>2. PICK k \in 2 .. Len(h) : k = i + 1
    BY <1>4, <2>1
  <2>3. h[k] = x
    BY <1>4, <2>1, <2>2
  <2> QED BY <1>2, <1>6, <2>3
<1>7. ASSUME NEW x \in Given, x.kind \in Items PROVE Among(t, x)
  <2>1. PICK k \in 2 .. Len(h) : h[k] = x
    BY <1>2, <1>7
  <2>2. PICK i \in 1 .. Len(t) : k = i + 1
    BY <1>4, <2>1
  <2>3. t[i] = x
    BY <1>4, <2>1, <2>2
  <2> QED BY <2>3 DEF Among
<1> QED BY <1>1, <1>3, <1>4, <1>5, <1>6, <1>7

\* What is replayed and what is known hold the same items, except perhaps the one in hand.
LEMMA Replays ==
  ASSUME SessionInv, AppendedLinesAreRead, ~Failed, ~compacted
  PROVE  LET replay == ResponseItems(Read)
             known  == ResponseItems(Tail(history))
         IN  IsPrefix(replay, known) /\ Len(known) - Len(replay) <= Len(doing)
<1>1. PICK replay, known : replay = ResponseItems(Read) /\ known = ResponseItems(Tail(history))
  OBVIOUS
<1>2. /\ replay \in Seq(Mark) /\ Ordered(replay) /\ Len(replay) \in Nat
      /\ \A x \in Mark : Among(replay, x) <=> Among(Read, x) /\ x.kind \in Items
  <2>1. Read \in Seq(Mark) /\ Ordered(Read)
    BY ReadIs DEF Told
  <2> QED BY <1>1, <2>1, OnlyAmong, LenProperties DEF ResponseItems
<1>3. /\ known \in Seq(Mark) /\ Ordered(known) /\ Len(known) \in Nat
      /\ \A x \in Mark : Among(known, x) <=> x \in Given /\ x.kind \in Items
  <2>1. Tail(history) \in Seq(Mark) /\ Ordered(Tail(history))
    BY HistoryIs
  <2>2. /\ known \in Seq(Mark) /\ Ordered(known) /\ Len(known) \in Nat
        /\ \A x \in Mark : Among(known, x) <=> Among(Tail(history), x) /\ x.kind \in Items
    BY <1>1, <2>1, OnlyAmong, LenProperties DEF ResponseItems
  <2> QED BY <2>2, HistoryIs
<1>4. \A x \in Mark : Among(replay, x) => Among(known, x)
  <2>1. Meta.kind \notin Items
    BY Marks DEF Items
  <2> QED BY <1>2, <1>3, <2>1, ReadIs
<1>5. \A x \in Mark : Among(known, x) => Among(replay, x) \/ x \in Range(doing)
  BY <1>2, <1>3, AllRead, GivenIs
<1>6. CASE \A x \in Mark : Among(known, x) => Among(replay, x)
  <2>1. known = replay
    BY <1>2, <1>3, <1>4, <1>6, Marks, OrderedAlike
  <2>2. Len(doing) \in Nat
    BY GivenIs
  <2>3. IsPrefix(replay, known) /\ Len(known) - Len(replay) <= Len(doing)
    BY <1>2, <2>1, <2>2 DEF IsPrefix
  <2> QED BY <1>1, <2>3
<1>7. CASE ~ \A x \in Mark : Among(known, x) => Among(replay, x)
  <2>1. PICK d \in Mark : Among(known, d) /\ ~Among(replay, d)
    BY <1>7
  <2>2. d \in Range(doing)
    BY <1>5, <2>1
  <2>3. \A x \in Mark : Among(known, x) <=> Among(replay, x) \/ x = d
    BY <1>4, <1>5, <2>1, <2>2, GivenIs
  <2>4. \A x \in Mark : Among(replay, x) => x.n < d.n
    <3>1. ASSUME NEW x \in Mark, Among(replay, x) PROVE x \in Given /\ x # d
      BY <1>3, <1>4, <2>1, <3>1
    <3> QED BY <2>2, <3>1, GivenIs
  <2>5. known = Append(replay, d)
    BY <1>2, <1>3, <2>3, <2>4, OrderedOneMore
  <2>6. Len(known) = Len(replay) + 1 /\ Len(doing) >= 1
    <3>1. Len(known) = Len(replay) + 1
      BY <1>2, <2>5, AppendProperties
    <3> QED BY <2>2, <3>1, GivenIs
  <2>7. SubSeq(known, 1, Len(replay)) = SubSeq(replay, 1, Len(replay))
    <3>1. SubSeq(replay, 1, Len(replay)) = replay
      BY <1>2, SubSeqFull
    <3>2. \A i \in 1 .. Len(replay) : known[i] = replay[i] /\ known[i] \in Mark /\ 1 + i - 1 = i
      BY <1>2, <2>5, AppendProperties, ElementOfSeq
    <3>3. PICK s : s = SubSeq(known, 1, Len(replay))
      OBVIOUS
    <3>4. PICK l \in Nat : l = Len(replay)
      BY <1>2
    <3>5. s \in Seq(Mark) /\ Len(s) = l /\ \A i \in 1 .. l : s[i] = known[i]
      BY <3>2, <3>3, <3>4, SubSeqProperties
    <3>6. s = replay
      BY <1>2, <3>2, <3>4, <3>5, SeqEqual
    <3> QED BY <3>1, <3>3, <3>6
  <2>8. IsPrefix(replay, known) /\ Len(known) - Len(replay) <= Len(doing)
    <3>1. Len(replay) <= Len(known) /\ Len(known) - Len(replay) <= Len(doing)
      BY <1>2, <1>3, <2>6, GivenIs
    <3> QED BY <2>7, <3>1 DEF IsPrefix
  <2> QED BY <1>1, <2>8
<1> QED BY <1>6, <1>7

\* While no append has failed and nothing was compacted, what resume() replays is the session's history, up to the
\* item that was being recorded when the process ended (Rollout.response_items, Session.resume).
THEOREM HistoryReplayed == Spec => []ReplayIsHistory
<1>1. SessionInv /\ AppendedLinesAreRead => ReplayIsHistory
  BY Replays DEF ReplayIsHistory
<1> QED BY <1>1, SessionInductive, Durable, PTL

-----------------------------------------------------------------------------
(* Complete turns, read back.                                              *)

\* What may be found on disk is a beginning of what is read.
LEMMA OnDiskIs ==
  ASSUME NEW lines, Told(lines), NEW found \in OnDisk(lines)
  PROVE  \E m \in 0 .. Len(lines) : found = SubSeq(lines, 1, m)
<1>1. lines \in Seq(Mark) /\ Len(lines) \in Nat
  BY LenProperties DEF Told
<1>2. CASE found = lines
  <2>1. SubSeq(lines, 1, Len(lines)) = lines /\ Len(lines) \in 0 .. Len(lines)
    BY <1>1, SubSeqFull
  <2> QED BY <1>2, <2>1
<1>3. CASE found # lines
  <2>1. PICK keep \in 0 .. MaxTurns : found \in Prefixes(ForkLines(lines, keep))
    BY <1>3 DEF OnDisk
  <2>k. keep \in Nat
    OBVIOUS
  <2>2. PICK e \in 1 .. Len(lines) : ForkLines(lines, keep) = SubSeq(lines, 1, e) /\ Len(ForkLines(lines, keep)) = e
    BY <2>k, ForkIs
  <2>3. PICK m \in 0 .. e : found = SubSeq(SubSeq(lines, 1, e), 1, m)
    BY <2>1, <2>2 DEF Prefixes
  <2>4. m \in 0 .. Len(lines) /\ e \in 0 .. Len(lines)
    BY <1>1
  <2>5. CASE m = 0
    <3>1. found = <<>> /\ SubSeq(lines, 1, 0) = <<>>
      BY <2>3, <2>5, SubSeqEmpty
    <3> QED BY <2>4, <2>5, <3>1
  <2>6. CASE m # 0
    <3>1. 1 \in 1 .. Len(lines) /\ 1 \in 1 .. e - 1 + 1 /\ m \in 1 .. e - 1 + 1 /\ 1 + 1 - 1 = 1 /\ 1 + m - 1 = m
      BY <1>1, <2>6
    <3>2. SubSeq(SubSeq(lines, 1, e), 1, m) = SubSeq(lines, 1 + 1 - 1, 1 + m - 1)
      BY ONLY <1>1, <3>1, SubSeqOfSubSeq
    <3> QED BY <2>3, <2>4, <3>1, <3>2
  <2> QED BY <2>5, <2>6
<1> QED BY <1>2, <1>3

\* The lines of a turn for the model, of a kind.
LEMMA CountIs ==
  ASSUME SessionInv, NEW t, NEW kind \in Items
  PROVE  Number(kind, Of(ResponseItems(Appended), {t})) = Count(kind, t)
<1>1. Appended \in Seq(Mark) /\ Ordered(Appended)
  BY AppendedIs
<1>2. PICK a, b, c : a = ResponseItems(Appended) /\ b = Of(a, {t}) /\ c = Only(b, {kind})
  OBVIOUS
<1>3. a \in Seq(Mark) /\ Ordered(a) /\ \A x \in Mark : Among(a, x) <=> Among(Appended, x) /\ x.kind \in Items
  BY <1>1, <1>2, OnlyAmong DEF ResponseItems
<1>4. b \in Seq(Mark) /\ Ordered(b) /\ \A x \in Mark : Among(b, x) <=> Among(a, x) /\ x.turn \in {t}
  BY <1>2, <1>3, OfAmong
<1>5. c \in Seq(Mark) /\ Ordered(c) /\ \A x \in Mark : Among(c, x) <=> Among(b, x) /\ x.kind \in {kind}
  BY <1>2, <1>4, OnlyAmong
<1>6. PICK at : at = CountAt(kind, t)
  OBVIOUS
<1>7. PICK d : d = Selected(Appended, at)
  OBVIOUS
<1> DEFINE S == { x \in Mark : x.turn = t /\ x.kind = kind }
<1>8. \A i \in 1 .. Len(Appended) : i \in at <=> Appended[i] \in S
  <2>1. Len(Appended) = Len(log) /\ DOMAIN log = 1 .. Len(log)
        /\ \A i \in 1 .. Len(log) : Appended[i] = log[i].line
    BY AppendedIs, LogTyped DEF SessionInv
  <2>2. \A i \in 1 .. Len(Appended) : Appended[i] \in Mark
    BY <1>1, ElementOfSeq
  <2> QED BY <1>6, <2>1, <2>2 DEF CountAt
<1>9. d \in Seq(Mark) /\ Ordered(d) /\ \A x : Among(d, x) <=> Among(Appended, x) /\ x \in S
  <2> HIDE DEF S
  <2> QED BY <1>1, <1>7, <1>8, SelectedPicks, SelectedOrdered, SelectedAmong
<1>10. \A x \in Mark : Among(c, x) <=> Among(d, x)
  BY <1>3, <1>4, <1>5, <1>9
<1>11. c = d
  BY <1>5, <1>9, <1>10, Marks, OrderedAlike
<1> QED BY <1>2, <1>6, <1>7, <1>11 DEF Number, Count

\* What is known of a complete turn was given before its last line, so it is read before it.
LEMMA WholeTurns ==
  ASSUME SessionInv, AppendedLinesAreRead, NEW m \in 0 .. Len(Read), NEW i \in 1 .. m,
         NEW lines, lines = SubSeq(Read, 1, m), lines[i].kind = "complete"
  PROVE  LET turnNo == lines[i].turn
             replay == Of(ResponseItems(lines), {turnNo})
         IN  /\ replay = Of(ResponseItems(Appended), {turnNo})
             /\ Number("call", replay) = Number("output", replay)
<1>1. PICK c, t : c = lines[i] /\ t = c.turn
  OBVIOUS
<1>2. /\ lines \in Seq(Mark) /\ Len(lines) = m /\ Ordered(lines) /\ m \in Nat /\ Len(Read) \in Nat
      /\ \A j \in 1 .. m : lines[j] = Read[j] /\ j \in 1 .. Len(Read)
  BY ReadIs, ToldBeginning
<1>3. c \in Given /\ c.kind = "complete" /\ Read[i] = c
  <2>1. Among(Read, c) /\ c.kind = "complete" /\ Read[i] = c
    BY <1>1, <1>2 DEF Among
  <2> QED BY <2>1, ReadIs, Marks
<1>4. /\ Sound(t) /\ Count("call", t) = Count("output", t)
      /\ \A x \in Given : x.turn = t /\ x.kind \in Items => x.n < c.n
  BY <1>1, <1>3 DEF SessionInv, Completed, CompletedBy
<1>5. PICK a, b : a = ResponseItems(lines) /\ b = Of(a, {t})
  OBVIOUS
<1>6. a \in Seq(Mark) /\ Ordered(a) /\ \A x \in Mark : Among(a, x) <=> Among(lines, x) /\ x.kind \in Items
  BY <1>2, <1>5, OnlyAmong DEF ResponseItems
<1>7. b \in Seq(Mark) /\ Ordered(b) /\ \A x \in Mark : Among(b, x) <=> Among(a, x) /\ x.turn = t
  BY <1>5, <1>6, OfAmong
<1>8. PICK p, q : p = ResponseItems(Appended) /\ q = Of(p, {t})
  OBVIOUS
<1>9. p \in Seq(Mark) /\ Ordered(p) /\ \A x \in Mark : Among(p, x) <=> x \in Range(Appended) /\ x.kind \in Items
  <2>1. Appended \in Seq(Mark) /\ Ordered(Appended) /\ \A x : Among(Appended, x) <=> x \in Range(Appended)
    BY AppendedIs
  <2> QED BY <1>8, <2>1, OnlyAmong DEF ResponseItems
<1>10. q \in Seq(Mark) /\ Ordered(q) /\ \A x \in Mark : Among(q, x) <=> Among(p, x) /\ x.turn = t
  BY <1>8, <1>9, OfAmong
<1>11. ASSUME NEW x \in Mark, Among(lines, x), x.kind \in Items, x.turn = t PROVE x \in Range(Appended)
  <2>1. Among(Read, x)
    BY <1>2, <1>11 DEF Among
  <2>2. x \in Given
    BY <1>11, <2>1, ReadIs, Marks DEF Items
  <2>3. SUFFICES ASSUME x \in Range(doing) PROVE FALSE
    BY <2>2, GivenIs
  <2>4. x.n < c.n /\ x # c /\ x.n \in Nat /\ c.n \in Nat
    BY <1>3, <1>4, <1>11, <2>2, GivenIs DEF Items
  <2>5. c \in Range(Appended)
    BY <1>3, <2>3, <2>4, GivenIs
  <2>6. c.n < x.n
    BY <2>3, <2>5, GivenIs
  <2> QED BY <2>4, <2>6
<1>12. ASSUME NEW x \in Mark, x \in Range(Appended), x.kind \in Items, x.turn = t PROVE Among(lines, x)
  <2>0. DOMAIN log = 1 .. Len(log) /\ Range(Appended) = { log[k].line : k \in 1 .. Len(log) }
    BY AppendedIs, LogTyped DEF SessionInv
  <2>1. PICK k \in 1 .. Len(log) : x = log[k].line
    BY <1>12, <2>0
  <2>2. log[k].ok /\ k > 1 /\ log[k - 1].ok
    BY <1>4, <1>12, <2>0, <2>1 DEF Sound
  <2>3. Among(Read, x)
    BY <2>1, <2>2, ReadIs
  <2>4. PICK j \in 1 .. Len(Read) : Read[j] = x
    BY <2>3 DEF Among
  <2>5. x \in Given /\ x.n < c.n /\ x.n \in Nat /\ c.n \in Nat
    BY <1>3, <1>4, <1>12, GivenIs
  <2>6. ~(i <= j)
    <3>1. CASE i = j
      BY <1>3, <2>4, <2>5, <3>1
    <3>2. CASE i < j
      <4>1. c.n < x.n
        BY <1>2, <1>3, <2>4, <3>2, ReadIs DEF Told, Ordered
      <4> QED BY <2>5, <4>1
    <3> QED BY <3>1, <3>2
  <2>7. j \in 1 .. m
    BY <1>2, <2>6
  <2> QED BY <1>2, <2>4, <2>7 DEF Among
<1>13. b = q
  <2>1. \A x \in Mark : Among(b, x) <=> Among(q, x)
    BY <1>6, <1>7, <1>9, <1>10, <1>11, <1>12
  <2> QED BY <1>7, <1>10, <2>1, Marks, OrderedAlike
<1>14. Number("call", b) = Number("output", b)
  <2>1. Number("call", q) = Count("call", t) /\ Number("output", q) = Count("output", t)
    BY <1>8, CountIs DEF Items
  <2> QED BY <1>4, <1>13, <2>1
<1> QED BY <1>1, <1>5, <1>8, <1>13, <1>14

\* A turn whose task_complete is in a file, the session's or a fork's, whole or not, replays with all its items and
\* an output for each call, whatever other appends have failed (run_turn's handlers, read_rollout, fork).
THEOREM CompleteTurnsReplayed == Spec => []CompleteTurnsReplayWhole
<1>1. ASSUME SessionInv, AppendedLinesAreRead PROVE CompleteTurnsReplayWhole
  <2>1. SUFFICES ASSUME NEW lines \in OnDisk(Read), NEW i \in DOMAIN lines, lines[i].kind = "complete"
                 PROVE  LET turnNo == lines[i].turn
                            replay == Of(ResponseItems(lines), {turnNo})
                        IN  /\ replay = Of(ResponseItems(Appended), {turnNo})
                            /\ Number("call", replay) = Number("output", replay)
    BY DEF CompleteTurnsReplayWhole
  <2>2. PICK m \in 0 .. Len(Read) : lines = SubSeq(Read, 1, m)
    BY <1>1, OnDiskIs, ReadIs
  <2>3. DOMAIN lines = 1 .. m
    BY <1>1, <2>2, ReadIs, ToldBeginning, LenProperties
  <2> QED BY <1>1, <2>1, <2>2, <2>3, WholeTurns
<1> QED BY <1>1, SessionInductive, Durable, PTL

-----------------------------------------------------------------------------
(* Forking: the first turns.                                               *)

\* What starts a turn, among lines.
StartAt(lines, i, t) == i \in 1 .. Len(lines) /\ lines[i].kind = "started" /\ lines[i].turn = t

\* The starts in the file of a session without failures, of its turns 1 .. S one after another;
\* the items of a turn are between its start and the next.
Counted(lines, S) ==
  /\ S \in Nat /\ Len(Starts(lines)) = S
  /\ \A k \in 1 .. S : StartAt(lines, Starts(lines)[k], k)
  /\ \A i \in 1 .. Len(lines) : lines[i].kind \in Items => lines[i].turn \in 1 .. S
  /\ \A i, j \in 1 .. Len(lines) : lines[i].kind = "started" /\ lines[j].kind \in Items =>
       (i < j <=> lines[i].turn <= lines[j].turn)

\* Each start that is followed by another line in the session has been read.
LEMMA StartRead ==
  ASSUME SessionInv, AppendedLinesAreRead, ~Failed, NEW x \in Given, NEW y \in Given,
         x.kind = "started", x.turn < y.turn \/ (x.turn = y.turn /\ y.kind \in Items)
  PROVE  \E i \in 1 .. Len(Read) : Read[i] = x
<1>1. /\ \A u, v \in Given : u.n < v.n => u.turn <= v.turn
      /\ \A u, v \in Given : IsStart(u, v.turn) /\ v.kind \in Items => u.n < v.n
  BY DEF SessionInv, Numbered, Begun
<1>2. x.n \in Nat /\ y.n \in Nat /\ x.turn \in Nat /\ y.turn \in Nat
  BY GivenIs
<1>3. x \notin Range(doing)
  <2>1. SUFFICES ASSUME x \in Range(doing) PROVE FALSE
    OBVIOUS
  <2>2. x # y
    BY <1>2 DEF Items
  <2>3. y \in Range(Appended)
    BY <2>1, <2>2, GivenIs
  <2>4. y.n < x.n
    BY <2>1, <2>3, GivenIs
  <2>5. y.turn <= x.turn
    BY <1>1, <2>4
  <2>6. x.turn = y.turn /\ y.kind \in Items
    BY <1>2, <2>5
  <2>7. x.n < y.n
    BY <1>1, <2>6 DEF IsStart
  <2> QED BY <1>2, <2>4, <2>7
<1>4. x \in Range(Appended)
  BY <1>3, GivenIs
<1> QED BY <1>4, AllRead DEF Among

\* The turns of the file, counted by their starts: the starts grow, and none is left out.
LEMMA ReadCounted ==
  ASSUME SessionInv, AppendedLinesAreRead, ~Failed
  PROVE  \E S : Counted(Read, S)
<1>1. /\ \A u, v \in Given : u.n < v.n => u.turn <= v.turn
      /\ \A u \in Given : u.turn \in 1 .. turn
      /\ \A u, v \in Given : u.kind = "started" /\ IsStart(v, u.turn) => u = v
      /\ \A u, v \in Given : IsStart(u, v.turn) /\ v.kind \in Items => u.n < v.n
      /\ \A t \in 1 .. turn - 1 : HasStart(t)
      /\ \A v \in Given : v.kind # "context" => HasStart(v.turn)
      /\ turn \in Nat
  BY LogTyped DEF SessionInv, Numbered, Begun
<1>2. PICK lines : lines = Read
  OBVIOUS
<1>3. /\ Told(lines) /\ lines \in Seq(Mark) /\ Ordered(lines) /\ Len(lines) \in Nat
      /\ \A i \in 1 .. Len(lines) : lines[i] = Meta \/ lines[i] \in Given
      /\ \A x \in Given, y \in Given :
           x.kind = "started" /\ (x.turn < y.turn \/ (x.turn = y.turn /\ y.kind \in Items)) =>
             \E i \in 1 .. Len(lines) : lines[i] = x
  <2>1. Told(lines) /\ lines \in Seq(Mark) /\ Ordered(lines) /\ Len(lines) \in Nat
    BY <1>2, ReadIs, LenProperties DEF Told
  <2>2. \A i \in 1 .. Len(lines) : lines[i] = Meta \/ lines[i] \in Given
    BY <1>2, ReadIs DEF Among
  <2> QED BY <1>2, <2>1, <2>2, StartRead
<1>4. \A i \in 1 .. Len(lines) : lines[i].kind \in Items \cup {"started"} => lines[i] \in Given
  BY <1>3, Marks DEF Items
<1>5. PICK S \in Nat, starts \in {Starts(lines)} :
         /\ S = Len(starts) /\ starts = Starts(lines) /\ Grows(starts, S)
         /\ \A k \in 1 .. S : starts[k] \in 1 .. Len(lines) /\ lines[starts[k]].kind = "started"
         /\ \A i \in 1 .. Len(lines) : lines[i].kind = "started" => \E k \in 1 .. S : starts[k] = i
  BY <1>3, StartsIs
<1> DEFINE f == [k \in 1 .. S |-> lines[starts[k]].turn]
<1>6. \A k \in 1 .. S : lines[starts[k]] \in Given /\ f[k] \in 1 .. turn /\ f[k] \in Int
  BY <1>1, <1>4, <1>5
<1>7. Grows(f, S)
  <2>1. ASSUME NEW k \in 1 .. S, NEW l \in 1 .. S, k < l PROVE f[k] < f[l]
    <3>1. starts[k] < starts[l]
      BY <1>5, <2>1 DEF Grows
    <3>2. PICK x, y : x = lines[starts[k]] /\ y = lines[starts[l]]
      OBVIOUS
    <3>3. x.n < y.n
      BY <1>3, <1>5, <3>1, <3>2 DEF Ordered
    <3>4. x \in Given /\ y \in Given /\ x.kind = "started" /\ y.kind = "started" /\ x.n \in Nat /\ y.n \in Nat
      BY <1>5, <1>6, <3>2, GivenIs
    <3>5. x.turn <= y.turn /\ x.turn # y.turn
      BY <1>1, <3>3, <3>4 DEF IsStart
    <3>6. f[k] = x.turn /\ f[l] = y.turn
      BY <3>2
    <3> QED BY <1>6, <3>5, <3>6
  <2>2. f \in [1 .. S -> Int]
    BY <1>6
  <2> HIDE DEF f
  <2> QED BY <2>1, <2>2 DEF Grows
<1>8. ASSUME NEW k \in 1 .. S, NEW t \in 1 .. f[k] PROVE \E l \in 1 .. S : f[l] = t
  <2>1. CASE t = f[k]
    BY <2>1
  <2>2. CASE t # f[k]
    <3>1. t \in 1 .. turn - 1 /\ t < f[k]
      <4>1. PICK v : v = f[k]
        OBVIOUS
      <4>2. v \in 1 .. turn /\ t \in 1 .. v /\ t # v /\ turn \in Nat
        BY <1>1, <1>6, <1>8, <2>2, <4>1
      <4>3. t \in 1 .. turn - 1 /\ t < v
        BY <4>2
      <4> QED BY <4>1, <4>3
    <3>2. PICK x \in Given : IsStart(x, t)
      BY <1>1, <3>1 DEF HasStart
    <3>3. PICK y \in Given : y = lines[starts[k]]
      BY <1>6
    <3>4. y.turn = f[k]
      BY <3>3
    <3>5. x.kind = "started" /\ x.turn < y.turn
      BY <3>1, <3>2, <3>4 DEF IsStart
    <3>6. PICK i \in 1 .. Len(lines) : lines[i] = x
      BY <1>3, <3>5
    <3>7. PICK l \in 1 .. S : starts[l] = i
      BY <1>5, <3>5, <3>6
    <3> QED BY <3>2, <3>6, <3>7 DEF IsStart
  <2> QED BY <2>1, <2>2
<1>9. \A k \in 1 .. S : f[k] = k
  <2>1. CASE S = 0
    BY <2>1
  <2>2. CASE S # 0
    <3>1. PICK M \in Nat : M = f[S]
      BY <1>1, <1>6, <2>2
    <3> DEFINE g == [k \in 1 .. M |-> k]
    <3>2. Grows(g, M)
      BY DEF Grows
    <3>3. Covers(f, S, g, M)
      <4>1. ASSUME NEW k \in 1 .. S PROVE f[k] \in 1 .. M
        <5>1. S \in 1 .. S /\ (k = S \/ k < S)
          BY <2>2
        <5>2. f[k] <= f[S]
          BY <1>6, <1>7, <5>1 DEF Grows
        <5> QED BY <1>1, <1>6, <3>1, <5>2
      <4> HIDE DEF f
      <4> QED BY <4>1 DEF Covers
    <3>4. Covers(g, M, f, S)
      <4>1. S \in 1 .. S
        BY <2>2
      <4>2. \A k \in 1 .. M : \E l \in 1 .. S : f[l] = k
        BY <1>8, <3>1, <4>1
      <4> HIDE DEF f
      <4> QED BY <4>2 DEF Covers
    <3>5. S = M /\ \A k \in 1 .. S : f[k] = g[k]
      <4> HIDE DEF f, g
      <4> QED BY <1>7, <3>2, <3>3, <3>4, GrowAlike
    <3> QED BY <3>5
  <2> QED BY <2>1, <2>2
<1>10. \A k \in 1 .. S : StartAt(lines, starts[k], k)
  BY <1>5, <1>9 DEF StartAt
<1> HIDE DEF f
<1>11. ASSUME NEW i \in 1 .. Len(lines), lines[i].kind \in Items PROVE lines[i].turn \in 1 .. S
  <2>1. PICK y \in Given : y = lines[i]
    BY <1>4, <1>11
  <2>2. PICK x \in Given : IsStart(x, y.turn)
    BY <1>1, <1>11, <2>1 DEF HasStart, Items
  <2>3. PICK j \in 1 .. Len(lines) : lines[j] = x
    BY <1>3, <1>11, <2>1, <2>2 DEF IsStart
  <2>4. PICK k \in 1 .. S : starts[k] = j
    BY <1>5, <2>2, <2>3 DEF IsStart
  <2>5. lines[j].turn = k
    BY <1>10, <2>4 DEF StartAt
  <2> QED BY <2>1, <2>2, <2>3, <2>5 DEF IsStart
<1>12. ASSUME NEW i \in 1 .. Len(lines), NEW j \in 1 .. Len(lines), lines[i].kind = "started", lines[j].kind \in Items
       PROVE  i < j <=> lines[i].turn <= lines[j].turn
  <2>1. PICK x \in Given, y \in Given : x = lines[i] /\ y = lines[j]
    BY <1>4, <1>12
  <2>2. x.turn \in Nat /\ y.turn \in Nat /\ x.n \in Nat /\ y.n \in Nat /\ i # j
    BY <1>12, <2>1, GivenIs DEF Items
  <2>3. i < j => x.n < y.n
    BY <1>3, <2>1 DEF Ordered
  <2>4. j < i => y.n < x.n
    BY <1>3, <2>1 DEF Ordered
  <2>5. x.turn = y.turn => x.n < y.n
    BY <1>1, <1>12, <2>1 DEF IsStart
  <2>6. (x.n < y.n => x.turn <= y.turn) /\ (y.n < x.n => y.turn <= x.turn)
    BY <1>1
  <2> QED BY <2>1, <2>2, <2>3, <2>4, <2>5, <2>6
<1>13. Counted(lines, S)
  BY <1>5, <1>10, <1>11, <1>12 DEF Counted
<1> QED BY <1>2, <1>13

\* The smaller one.
Less(a, b) == IF a <= b THEN a ELSE b

\* A fork has the first turns, where the session has them.
LEMMA ForkStarts ==
  ASSUME NEW lines, Told(lines), NEW keep \in Nat
  PROVE  LET fork == ForkLines(lines, keep)
             M    == Less(keep, Len(Starts(lines)))
         IN  Len(Starts(fork)) = M /\ \A k \in 1 .. M : Starts(fork)[k] = Starts(lines)[k]
<1>f. PICK fork, N, M : fork = ForkLines(lines, keep) /\ N = Len(Starts(lines)) /\ M = Less(keep, N)
  OBVIOUS
<1>0. lines \in Seq(Mark) /\ Len(lines) \in Nat
  BY LenProperties DEF Told
<1>1. PICK L : L = Starts(lines)
  OBVIOUS
<1>2. /\ N \in Nat /\ M \in Nat /\ M <= N /\ M <= keep /\ Grows(L, N)
      /\ \A k \in 1 .. N : L[k] \in 1 .. Len(lines) /\ lines[L[k]].kind = "started"
      /\ \A i \in 1 .. Len(lines) : lines[i].kind = "started" => \E k \in 1 .. N : L[k] = i
  <2>1. N \in Nat /\ Grows(L, N)
    BY <1>f, <1>0, <1>1, StartsIs
  <2>2. \A k \in 1 .. Len(L) : L[k] \in 1 .. Len(lines) /\ lines[L[k]].kind = "started"
    BY <1>0, <1>1, StartsIs
  <2>3. \A i \in 1 .. Len(lines) : lines[i].kind = "started" => \E k \in 1 .. Len(L) : L[k] = i
    BY <1>0, <1>1, StartsIs
  <2>4. M \in Nat /\ M <= N /\ M <= keep
    BY <1>f, <2>1 DEF Less
  <2> QED BY <1>f, <1>1, <2>1, <2>2, <2>3, <2>4
<1>3. PICK e \in 1 .. Len(lines) :
        /\ e = ForkEnd(lines, keep) /\ fork = SubSeq(lines, 1, e) /\ Len(fork) = e /\ fork \in Seq(Mark)
        /\ \A i \in 1 .. e : fork[i] = lines[i] /\ i \in 1 .. Len(lines)
  <2>1. PICK e \in 1 .. Len(lines) : e = ForkEnd(lines, keep) /\ fork = SubSeq(lines, 1, e)
    BY <1>f, ForkIs
  <2>2. e \in 0 .. Len(lines)
    OBVIOUS
  <2> QED BY <2>1, <2>2, ToldBeginning
<1>4. \A k \in 1 .. N : L[k] \in 1 .. e <=> k <= M
  <2>1. CASE N <= keep
    <3>1. e = Len(lines) /\ M = N
      BY <1>f, <1>1, <1>2, <1>3, <2>1 DEF ForkEnd, Less
    <3> QED BY <1>2, <3>1
  <2>2. CASE ~(N <= keep)
    <3>1. M = keep /\ keep + 1 \in 1 .. N /\ e = L[keep + 1] - 1
      BY <1>f, <1>1, <1>2, <1>3, <2>2 DEF ForkEnd, Less
    <3>2. PICK p \in 1 .. Len(lines) : p = L[keep + 1]
      BY <1>2, <3>1
    <3>3. SUFFICES ASSUME NEW k \in 1 .. N PROVE L[k] \in 1 .. e <=> k <= M
      OBVIOUS
    <3>4. PICK q \in 1 .. Len(lines) : q = L[k]
      BY <1>2
    <3>5. k < keep + 1 => q < p
      BY <1>2, <3>1, <3>2, <3>4 DEF Grows
    <3>6. keep + 1 < k => p < q
      BY <1>2, <3>1, <3>2, <3>4 DEF Grows
    <3>7. k = keep + 1 => p = q
      BY <3>2, <3>4
    <3> QED BY <1>2, <3>1, <3>2, <3>4, <3>5, <3>6, <3>7
  <2> QED BY <2>1, <2>2
<1>k. PICK F, K : F = Starts(fork) /\ K = Len(F)
  OBVIOUS
<1>5. /\ K \in Nat /\ Grows(F, K)
      /\ \A k \in 1 .. K : F[k] \in 1 .. Len(fork) /\ fork[F[k]].kind = "started"
      /\ \A i \in 1 .. Len(fork) : fork[i].kind = "started" => \E k \in 1 .. K : F[k] = i
  BY <1>3, <1>k, StartsIs
<1> DEFINE g == [k \in 1 .. M |-> L[k]]
<1>6. Grows(g, M)
  <2>1. \A k \in 1 .. M : k \in 1 .. N
    BY <1>2
  <2> QED BY <1>2, <2>1 DEF Grows
<1>7. Covers(F, K, g, M)
  <2>1. SUFFICES ASSUME NEW k \in 1 .. K PROVE \E l \in 1 .. M : F[k] = g[l]
    BY DEF Covers
  <2>2. F[k] \in 1 .. e /\ lines[F[k]].kind = "started" /\ F[k] \in 1 .. Len(lines)
    BY <1>3, <1>5
  <2>3. PICK l \in 1 .. N : L[l] = F[k]
    BY <1>2, <2>2
  <2>4. l \in 1 .. M
    BY <1>2, <1>4, <2>2, <2>3
  <2> QED BY <2>3, <2>4
<1>8. Covers(g, M, F, K)
  <2>1. SUFFICES ASSUME NEW l \in 1 .. M PROVE \E k \in 1 .. K : g[l] = F[k]
    BY DEF Covers
  <2>2. l \in 1 .. N /\ l <= M
    BY <1>2
  <2>3. L[l] \in 1 .. e /\ lines[L[l]].kind = "started"
    BY <1>2, <1>4, <2>2
  <2>4. PICK k \in 1 .. K : F[k] = L[l]
    BY <1>3, <1>5, <2>3
  <2> QED BY <2>4
<1>9. K = M /\ \A k \in 1 .. K : F[k] = g[k]
  <2> HIDE DEF g
  <2> QED BY <1>2, <1>5, <1>6, <1>7, <1>8, GrowAlike
<1> QED BY <1>f, <1>1, <1>k, <1>9

\* Forking a fork once more.
LEMMA ForkAgain ==
  ASSUME NEW lines, Told(lines), NEW keep \in Nat, NEW again \in 0 .. keep
  PROVE  ForkLines(ForkLines(lines, keep), again) = ForkLines(lines, again)
<1>0. lines \in Seq(Mark) /\ Len(lines) \in Nat /\ again \in Nat
  BY LenProperties DEF Told
<1>1. PICK fork : fork = ForkLines(lines, keep)
  OBVIOUS
<1>2. PICK e \in 1 .. Len(lines) :
        e = ForkEnd(lines, keep) /\ fork = SubSeq(lines, 1, e) /\ Told(fork) /\ Len(fork) = e
  BY <1>1, ForkIs
<1>3. PICK N \in Nat : N = Len(Starts(lines))
  BY <1>0, StartsIs
<1>9. PICK M : M = Less(keep, N)
  OBVIOUS
<1>4. Len(Starts(fork)) = M /\ \A k \in 1 .. M : Starts(fork)[k] = Starts(lines)[k]
  BY <1>1, <1>3, <1>9, ForkStarts
<1>5. ForkEnd(fork, again) = ForkEnd(lines, again)
  <2>1. CASE M > again
    <3>1. again + 1 \in 1 .. M /\ N > again
      BY <1>0, <1>3, <1>9, <2>1 DEF Less
    <3>2. Starts(fork)[again + 1] = Starts(lines)[again + 1]
      BY <1>4, <3>1
    <3> QED BY <1>3, <1>9, <1>4, <2>1, <3>1, <3>2 DEF ForkEnd
  <2>2. CASE ~(M > again)
    <3>1. ForkEnd(fork, again) = e
      BY <1>2, <1>4, <2>2 DEF ForkEnd
    <3>2. CASE N <= again
      <4>1. N <= keep
        BY <3>2
      <4>2. e = Len(lines)
        BY <1>2, <1>3, <1>9, <4>1 DEF ForkEnd
      <4>3. ForkEnd(lines, again) = Len(lines)
        BY <1>3, <1>9, <3>2 DEF ForkEnd
      <4> QED BY <3>1, <4>2, <4>3
    <3>3. CASE ~(N <= again)
      <4>1. again = keep
        BY <1>3, <1>9, <2>2, <3>3 DEF Less
      <4> QED BY <1>2, <3>1, <4>1
    <3> QED BY <3>2, <3>3
  <2> QED BY <2>1, <2>2
<1>6. PICK a \in 1 .. e : a = ForkEnd(fork, again) /\ ForkLines(fork, again) = SubSeq(fork, 1, a)
  BY <1>0, <1>2, ForkIs
<1>7. ForkLines(lines, again) = SubSeq(lines, 1, a)
  BY <1>0, <1>5, <1>6, ForkIs
<1>8. SubSeq(SubSeq(lines, 1, e), 1, a) = SubSeq(lines, 1, a)
  <2>1. 1 \in 1 .. Len(lines) /\ 1 \in 1 .. e - 1 + 1 /\ a \in 1 .. e - 1 + 1 /\ 1 + 1 - 1 = 1 /\ 1 + a - 1 = a
    BY <1>0
  <2>2. SubSeq(SubSeq(lines, 1, e), 1, a) = SubSeq(lines, 1 + 1 - 1, 1 + a - 1)
    BY ONLY <1>0, <2>1, SubSeqOfSubSeq
  <2> QED BY <2>1, <2>2
<1> QED BY <1>1, <1>2, <1>6, <1>7, <1>8

\* What a fork replays.
LEMMA ForkReplays ==
  ASSUME NEW lines, Told(lines), NEW S, Counted(lines, S), NEW keep \in Nat
  PROVE  ResponseItems(ForkLines(lines, keep)) = Of(ResponseItems(lines), 0 .. keep)
<1>0. lines \in Seq(Mark) /\ Len(lines) \in Nat /\ S \in Nat /\ Ordered(lines)
  BY LenProperties DEF Told, Counted
<1>1. PICK fork : fork = ForkLines(lines, keep)
  OBVIOUS
<1>2. PICK e \in 1 .. Len(lines) :
        /\ e = ForkEnd(lines, keep) /\ Len(fork) = e /\ fork \in Seq(Mark) /\ Ordered(fork)
        /\ \A i \in 1 .. e : fork[i] = lines[i] /\ i \in 1 .. Len(lines)
  <2>1. PICK e \in 1 .. Len(lines) : e = ForkEnd(lines, keep) /\ fork = SubSeq(lines, 1, e)
    BY <1>1, ForkIs
  <2>2. e \in 0 .. Len(lines)
    OBVIOUS
  <2> QED BY <2>1, <2>2, ToldBeginning
<1>3. ASSUME NEW i \in 1 .. Len(lines), lines[i].kind \in Items
      PROVE  i <= e <=> lines[i].turn \in 0 .. keep
  <2>0. lines[i].turn \in 1 .. S
    BY <1>3 DEF Counted
  <2>1. CASE S <= keep
    <3>1. e = Len(lines)
      BY <1>2, <2>1 DEF Counted, ForkEnd
    <3> QED BY <1>0, <2>0, <2>1, <3>1
  <2>2. CASE ~(S <= keep)
    <3>1. keep + 1 \in 1 .. S /\ e = Starts(lines)[keep + 1] - 1
      BY <1>0, <1>2, <2>2 DEF Counted, ForkEnd
    <3>2. PICK p \in 1 .. Len(lines) : p = Starts(lines)[keep + 1] /\ lines[p].kind = "started" /\ lines[p].turn = keep + 1
      BY <3>1 DEF Counted, StartAt
    <3>3. p < i <=> keep + 1 <= lines[i].turn
      BY <1>3, <3>2 DEF Counted
    <3>4. p # i
      BY <1>3, <3>2 DEF Items
    <3> QED BY <2>0, <3>1, <3>2, <3>3, <3>4
  <2> QED BY <2>1, <2>2
<1>4. PICK a, b, c : a = ResponseItems(fork) /\ b = ResponseItems(lines) /\ c = Of(b, 0 .. keep)
  OBVIOUS
<1>5. a \in Seq(Mark) /\ Ordered(a) /\ \A x \in Mark : Among(a, x) <=> Among(fork, x) /\ x.kind \in Items
  BY <1>2, <1>4, OnlyAmong DEF ResponseItems
<1>6. b \in Seq(Mark) /\ Ordered(b) /\ \A x \in Mark : Among(b, x) <=> Among(lines, x) /\ x.kind \in Items
  BY <1>0, <1>4, OnlyAmong DEF ResponseItems
<1>7. c \in Seq(Mark) /\ Ordered(c) /\ \A x \in Mark : Among(c, x) <=> Among(b, x) /\ x.turn \in 0 .. keep
  BY <1>4, <1>6, OfAmong
<1>8. ASSUME NEW x \in Mark, x.kind \in Items PROVE Among(fork, x) <=> Among(lines, x) /\ x.turn \in 0 .. keep
  <2>1. ASSUME Among(fork, x) PROVE Among(lines, x) /\ x.turn \in 0 .. keep
    <3>1. PICK i \in 1 .. e : fork[i] = x
      BY <1>2, <2>1 DEF Among
    <3>2. i \in 1 .. Len(lines) /\ lines[i] = x /\ i <= e
      BY <1>2, <3>1
    <3> QED BY <1>3, <1>8, <3>2 DEF Among
  <2>2. ASSUME Among(lines, x), x.turn \in 0 .. keep PROVE Among(fork, x)
    <3>1. PICK i \in 1 .. Len(lines) : lines[i] = x
      BY <2>2 DEF Among
    <3>2. i \in 1 .. e
      BY <1>3, <1>8, <2>2, <3>1
    <3> QED BY <1>2, <3>1, <3>2 DEF Among
  <2> QED BY <2>1, <2>2
<1>9. \A x \in Mark : Among(a, x) <=> Among(c, x)
  BY <1>5, <1>6, <1>7, <1>8
<1>10. a = c
  BY <1>5, <1>7, <1>9, Marks, OrderedAlike
<1> QED BY <1>1, <1>4, <1>10

\* Its session_meta is its own.
LEMMA OneMeta ==
  ASSUME NEW lines, Told(lines)
  PROVE  Number("meta", lines) = 1
<1>0. lines \in Seq(Mark) /\ Len(lines) \in Nat /\ Ordered(lines)
  BY LenProperties DEF Told
<1>1. PICK m, s : m = Only(lines, {"meta"}) /\ s = <<Meta>>
  OBVIOUS
<1>2. m \in Seq(Mark) /\ Ordered(m) /\ \A x \in Mark : Among(m, x) <=> Among(lines, x) /\ x.kind \in {"meta"}
  BY <1>0, <1>1, OnlyAmong
<1>3. s \in Seq(Mark) /\ Len(s) = 1 /\ s[1] = Meta
  BY <1>1, Marks
<1>4. Ordered(s) /\ \A x : Among(s, x) <=> x = Meta
  <2>1. \A i \in 1 .. Len(s) : i = 1
    BY <1>3
  <2> QED BY <1>3, <2>1 DEF Ordered, Among
<1>5. \A x : Among(lines, x) /\ x.kind \in {"meta"} <=> x = Meta
  <2>1. \A i \in 1 .. Len(lines) : i = 1 \/ i \in 2 .. Len(lines)
    BY <1>0
  <2>2. 1 \in 1 .. Len(lines) /\ lines[1] = Meta /\ \A i \in 2 .. Len(lines) : lines[i].kind # "meta"
    BY <1>0 DEF Told
  <2> QED BY <2>1, <2>2, Marks DEF Among
<1>6. m = s
  BY <1>2, <1>3, <1>4, <1>5, Marks, OrderedAlike
<1> QED BY <1>1, <1>3, <1>6 DEF Number

\* The smaller of two numbers.
LEMMA Smaller ==
  ASSUME NEW a \in Nat, NEW b \in Nat
  PROVE  Min({a, b}) = Less(a, b)
<1>1. \E x \in {a, b} : \A y \in {a, b} : x <= y
  OBVIOUS
<1>2. Min({a, b}) \in {a, b} /\ \A y \in {a, b} : Min({a, b}) <= y
  BY <1>1 DEF Min
<1> QED BY <1>2 DEF Less

\* All that is claimed of a fork, of any file that is counted so.
LEMMA ForksKeep ==
  ASSUME NEW lines, Told(lines), NEW S, Counted(lines, S), NEW keep \in Nat
  PROVE  LET fork == ForkLines(lines, keep) IN
         /\ ResponseItems(fork) = Of(ResponseItems(lines), 0 .. keep)
         /\ Number("started", fork) = Min({keep, Number("started", lines)})
         /\ Number("meta", fork) = 1
         /\ \A again \in 0 .. keep : ForkLines(fork, again) = ForkLines(lines, again)
<1>1. PICK fork : fork = ForkLines(lines, keep)
  OBVIOUS
<1>2. Told(fork) /\ fork \in Seq(Mark) /\ lines \in Seq(Mark)
  BY <1>1, ForkIs DEF Told
<1>3. ResponseItems(fork) = Of(ResponseItems(lines), 0 .. keep)
  BY <1>1, ForkReplays
<1>4. Number("started", fork) = Min({keep, Number("started", lines)})
  <2>1. PICK N \in Nat : N = Len(Starts(lines)) /\ N = Number("started", lines)
    BY <1>2, StartsIs
  <2>2. PICK M : M = Less(keep, N)
    OBVIOUS
  <2>3. Len(Starts(fork)) = M
    BY <1>1, <2>1, <2>2, ForkStarts
  <2>4. Number("started", fork) = M
    BY <1>2, <2>3, StartsIs
  <2> QED BY <2>1, <2>2, <2>4, Smaller
<1>5. Number("meta", fork) = 1
  BY <1>2, OneMeta
<1>6. \A again \in 0 .. keep : ForkLines(fork, again) = ForkLines(lines, again)
  BY <1>1, ForkAgain
<1> QED BY <1>1, <1>3, <1>4, <1>5, <1>6

\* While no append has failed, fork() keeps exactly the first turns, all of them if it is asked for more, has one
\* session_meta, and forking a fork is forking the session (fork, read_rollout).
THEOREM FirstTurnsForked == Spec => []ForksKeepFirstTurns
<1>1. ASSUME SessionInv, AppendedLinesAreRead PROVE ForksKeepFirstTurns
  <2>1. SUFFICES ASSUME ~Failed, NEW keep \in 0 .. MaxTurns
                 PROVE  LET fork == ForkLines(Read, keep) IN
                        /\ ResponseItems(fork) = Of(ResponseItems(Read), 0 .. keep)
                        /\ Number("started", fork) = Min({keep, Number("started", Read)})
                        /\ Number("meta", fork) = 1
                        /\ \A again \in 0 .. keep : ForkLines(fork, again) = ForkLines(Read, again)
    BY DEF ForksKeepFirstTurns
  <2>2. PICK S : Counted(Read, S)
    BY <1>1, <2>1, ReadCounted
  <2>3. keep \in Nat /\ Told(Read)
    BY <1>1, ReadIs
  <2> QED BY <2>2, <2>3, ForksKeep
<1> QED BY <1>1, SessionInductive, Durable, PTL
=============================================================================
