----------------------------- MODULE JsonWriter -----------------------------
(***************************************************************************)
(* ThreadEventWriter of s15: the event stream as the public lines of       *)
(* `codex exec --json'.  A command is one item, opened by the event that   *)
(* says it begins and closed by the one that says it ended.  The lines of  *)
(* messages, patches, plans and MCP calls, which are items of one line,    *)
(* are those of events that Harness.tla leaves out.                        *)
(***************************************************************************)
EXTENDS Harness

Absent == <<>>

\* at: the event that a line translates.
Line(type, id, command, at) == [type |-> type, id |-> id, command |-> command, at |-> at]

NewWriter == [next |-> 0, open |-> [c \in Calls |-> Absent], lines |-> <<>>]

Began(w, call, at) ==
  [next  |-> w.next + 1,
   open  |-> [w.open EXCEPT ![call] = <<w.next, CmdOf[call]>>],
   lines |-> Append(w.lines, Line("item.started", w.next, CmdOf[call], at))]

\* An item that is not open gets an id of its own, and no command.
Ended(w, call, at) ==
  LET item == IF w.open[call] = Absent THEN <<w.next, "">> ELSE w.open[call]
  IN  [next  |-> w.next + (IF w.open[call] = Absent THEN 1 ELSE 0),
       open  |-> [w.open EXCEPT ![call] = Absent],
       lines |-> Append(w.lines, Line("item.completed", item[1], item[2], at))]

Plainly(w, type, at) == [w EXCEPT !.lines = Append(@, Line(type, -1, "", at))]

Translate(w, event, at) ==
  CASE event.msg \in {"BeginSandboxed", "BeginUnsandboxed"} -> Began(w, event.call, at)
    [] event.msg = "ExecCommandEnd" -> Ended(w, event.call, at)
    [] event.msg = "TaskStarted"    -> Plainly(w, "turn.started", at)
    [] event.msg = "TaskComplete"   -> Plainly(w, "turn.completed", at)
    [] event.msg = "TurnAborted"    -> Plainly(w, "turn.failed", at)
    [] event.msg = "ErrorEvent"     -> Plainly(w, "error", at)
    [] OTHER -> w

\* What render_json has printed when it has read all there is.
Printed ==
  LET writer[n \in 0 .. Len(events)] ==
        IF n = 0 THEN NewWriter ELSE Translate(writer[n - 1], events[n], n)
  IN  writer[Len(events)].lines

-----------------------------------------------------------------------------
\* The items a reader of the lines can rely on: each is started once and completed at most once, an item
\* that completes was started and repeats its command, and with the turn every one has completed but
\* those of a command the sandbox blocked and somebody was asked about (`codex exec --json' refuses by itself):
\* that item stays open (ThreadEventWriter.translate, Session._exec_command).
ItemsComplete ==
  LET lines == Printed
      Of(type) == { i \in DOMAIN lines : lines[i].type = type }
      started   == Of("item.started")
      completed == Of("item.completed")
  IN  /\ \A i, j \in started : lines[i].id = lines[j].id => i = j
      /\ \A i, j \in completed : lines[i].id = lines[j].id => i = j
      /\ \A j \in completed : \E i \in started :
           i < j /\ lines[i].id = lines[j].id /\ lines[i].command = lines[j].command
      /\ \A k \in Of("turn.completed") : \A i \in started :
           LET begin == events[lines[i].at]
           IN  begin.sub = events[lines[k].at].sub =>
                 \/ \E j \in completed : lines[i].id = lines[j].id /\ j < k
                 \/ \E n \in lines[i].at .. lines[k].at : events[n] = CallEv(begin.sub, "ExecApprovalRequest", begin.call)
=============================================================================
