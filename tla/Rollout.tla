------------------------------ MODULE Rollout ------------------------------
(***************************************************************************)
(* A session (s15) that appends to its rollout file (s10), line by line.   *)
(*                                                                         *)
(* The session's process may end at any moment, also inside a write; a     *)
(* write may fail (OSError) and leave a part of its line; and readers come *)
(* at any moment, which is why what they do, resume and fork, is no action *)
(* but a function of the file as it is: they change nothing of it.         *)
(*                                                                         *)
(* An action is the code from one append to the next: appends do not       *)
(* suspend, but the process can end between any two of them.               *)
(***************************************************************************)
EXTENDS RolloutFile, FiniteSets

CONSTANTS
  MaxTurns, \* bound: turns of the session
  MaxLines, \* bound: items and events it records
  MaxFails  \* bound: appends that fail

ASSUME BoundsAssumption == MaxTurns \in Nat /\ MaxLines \in Nat /\ MaxFails \in Nat

VARIABLES
  file,    \* the tokens of the rollout file
  doing,   \* the append the session is in: <<>> or the line
  part,    \* the tokens of it that are in the file already
  pc,      \* where the session is
  then,    \* where it goes on after the append, and after its exception
  turn,    \* the number of the turn
  open,    \* the calls of the last response not yet answered
  history, \* Session.history
  compacted, \* whether history has been rebuilt
  count,   \* how many items and events it has recorded
  log      \* the appends that have returned or raised

appendVars  == <<file, doing, part, log>>
sessionVars == <<pc, then, turn, open, history, compacted, count>>
vars == <<appendVars, sessionVars>>

\* What prompt assembly and the SessionStart hooks put into history.
Startup == Line("user", 0, 0)

Init ==
  /\ file = Whole(Meta)
  /\ doing = <<>> /\ part = <<>> /\ log = <<>>
  /\ pc = "idle" /\ then = [returned |-> "idle", raised |-> "idle"]
  /\ turn = 0 /\ open = <<>> /\ history = <<Startup>> /\ compacted = FALSE /\ count = 0

-----------------------------------------------------------------------------
(* Session.record_item and record_event, up to the append.                 *)

New(kind) == Line(kind, turn, count + 1)

HasRoom == count < MaxLines

Goes(line, returned, raised) ==
  IF Persisted(line)
  THEN doing' = <<line>> /\ pc' = "append" /\ then' = [returned |-> returned, raised |-> raised]
  ELSE pc' = returned /\ UNCHANGED <<doing, then>>

RecordEvent(line, returned, raised) ==
  /\ HasRoom /\ count' = count + 1
  /\ Goes(line, returned, raised)
  /\ UNCHANGED <<file, part, log, history, compacted>>

RecordItem(item, returned, raised) ==
  /\ HasRoom /\ count' = count + 1
  /\ history' = Append(history, item)
  /\ Goes(item, returned, raised)
  /\ UNCHANGED <<file, part, log, compacted>>

-----------------------------------------------------------------------------
(* RolloutRecorder._append.                                                *)

\* The file with the part of the line that is in it taken off.
Before == SubSeq(file, 1, Len(file) - Len(part))

\* A long line reaches the file in several writes.
AppendPart ==
  /\ pc = "append" /\ part = <<>>
  /\ \E p \in Partial(doing[1]) \ {<<>>} :
       /\ part' = p
       /\ file' = file \o p
  /\ UNCHANGED <<doing, log, sessionVars>>

AppendReturns ==
  /\ pc = "append"
  /\ file' = Before \o Whole(doing[1])
  /\ log' = Append(log, [line |-> doing[1], ok |-> TRUE])
  /\ pc' = then.returned
  /\ doing' = <<>> /\ part' = <<>>
  /\ UNCHANGED <<then, turn, open, history, compacted, count>>

\* Mutant: a failed append is only logged.
AfterFailure_GoesOn == then.returned

AfterFailure == then.raised

\* The disk is full: the part stays.
AppendRaises ==
  /\ pc = "append"
  /\ Cardinality({i \in DOMAIN log : ~log[i].ok}) < MaxFails
  /\ log' = Append(log, [line |-> doing[1], ok |-> FALSE])
  /\ pc' = AfterFailure
  /\ doing' = <<>> /\ part' = <<>>
  /\ UNCHANGED <<file, then, turn, open, history, compacted, count>>

\* The process ends, by itself or killed.
Ends ==
  /\ pc # "ended"
  /\ pc' = "ended"
  /\ UNCHANGED <<appendVars, then, turn, open, history, compacted, count>>

-----------------------------------------------------------------------------
(* run_turn, by what it records.  An exception before its `try' ends the   *)
(* turn without a line; one inside goes to the handler ("failing").        *)

TurnContext ==
  /\ pc = "idle" /\ turn < MaxTurns
  /\ turn' = turn + 1
  /\ RecordEvent(Line("context", turn + 1, count + 1), "opened", "idle")
  /\ UNCHANGED open

TaskStarted ==
  /\ pc = "opened"
  /\ RecordEvent(New("started"), "submit", "idle")
  /\ UNCHANGED <<turn, open>>

\* A hook refuses the prompt, or raises: nothing more is recorded of the turn.
PromptBlocked ==
  /\ pc = "submit"
  /\ pc' = "idle"
  /\ UNCHANGED <<appendVars, then, turn, open, history, compacted, count>>

\* What hooks add, and then the prompt.
Prompt ==
  /\ pc \in {"submit", "extras"}
  /\ \E next \in {"extras", "prompted"} : RecordItem(New("user"), next, "idle")
  /\ UNCHANGED <<turn, open>>

UserMessage ==
  /\ pc = "prompted"
  /\ RecordEvent(New("event"), "step", "idle")
  /\ UNCHANGED <<turn, open>>

Steering ==
  /\ pc = "step"
  /\ RecordItem(New("user"), "step", "failing")
  /\ UNCHANGED <<turn, open>>

\* _compact: of history, the user's messages and a summary stay.
\* Bound: one compaction.
Compacts ==
  /\ ~compacted /\ HasRoom /\ count' = count + 1
  /\ compacted' = TRUE
  /\ history' = Append(Only(history, {"user"}), New("summary"))
  /\ UNCHANGED <<file, part, log, turn, open>>

Compaction == pc = "step" /\ Compacts /\ Goes(New("compacted"), "stream", "failing")

\* The Compact op, between turns or while the turn is at an await.
CompactOp == pc \in {"idle", "stream", "calls"} /\ Compacts /\ Goes(New("compacted"), pc, pc)

Request ==
  /\ pc = "step"
  /\ pc' = "stream"
  /\ UNCHANGED <<appendVars, then, turn, open, history, compacted, count>>

\* An item of the response.
StreamCall ==
  /\ pc = "stream"
  /\ RecordItem(New("call"), "stream", "failing")
  /\ open' = Append(open, New("call"))
  /\ UNCHANGED turn

\* A message, which is told as an event too, or reasoning.
StreamMessage ==
  /\ pc = "stream"
  /\ \E next \in {"said", "stream"} : RecordItem(New("assistant"), next, "failing")
  /\ UNCHANGED <<turn, open>>

AgentMessage ==
  /\ pc = "said"
  /\ RecordEvent(New("event"), "stream", "failing")
  /\ UNCHANGED <<turn, open>>

StreamOther ==
  /\ pc = "stream"
  /\ RecordItem(New("other"), "stream", "failing")
  /\ UNCHANGED <<turn, open>>

\* The response ends: calls to answer, or something typed meanwhile, or the end.
StreamEnd ==
  /\ pc = "stream"
  /\ \/ /\ pc' = IF open # <<>> THEN "calls" ELSE "step"
        /\ UNCHANGED <<appendVars, then, turn, open, history, compacted, count>>
     \/ /\ open = <<>>
        /\ RecordEvent(New("complete"), "idle", "failing")
        /\ UNCHANGED <<turn, open>>

\* exec_command_begin and exec_command_end; hooks' texts.
DuringCall ==
  /\ pc = "calls"
  /\ RecordEvent(New("event"), "calls", "failing") \/ RecordItem(New("user"), "calls", "failing")
  /\ UNCHANGED <<turn, open>>

Output ==
  /\ pc = "calls"
  /\ open' = Tail(open)
  /\ RecordItem(New("output"), IF Tail(open) = <<>> THEN "step" ELSE "calls", "failing")
  /\ UNCHANGED turn

\* CancelledError, at an await, and any other exception.
Cancelled ==
  /\ pc \in {"step", "stream", "calls"}
  /\ open' = <<>>
  /\ RecordItem(New("user"), "aborting", "idle")
  /\ UNCHANGED turn

TurnAborted ==
  /\ pc = "aborting"
  /\ RecordEvent(New("aborted"), "idle", "idle")
  /\ UNCHANGED <<turn, open>>

Raises ==
  /\ pc \in {"step", "stream", "calls"}
  /\ pc' = "failing"
  /\ UNCHANGED <<appendVars, then, turn, open, history, compacted, count>>

Error ==
  /\ pc = "failing"
  /\ open' = <<>>
  /\ RecordEvent(New("error"), "idle", "idle")
  /\ UNCHANGED turn

-----------------------------------------------------------------------------
TurnStep ==
  \/ TurnContext \/ TaskStarted \/ PromptBlocked \/ Prompt \/ UserMessage
  \/ Steering \/ Compaction \/ CompactOp \/ Request
  \/ StreamCall \/ StreamMessage \/ AgentMessage \/ StreamOther \/ StreamEnd
  \/ DuringCall \/ Output
  \/ Cancelled \/ TurnAborted \/ Raises \/ Error

Next ==
  \/ TurnStep
  \/ AppendPart \/ AppendReturns \/ AppendRaises \/ Ends

Spec == Init /\ [][Next]_vars
=============================================================================
