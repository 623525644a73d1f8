----------------------------- MODULE AgentLoop -----------------------------
(***************************************************************************)
(* The loop around the model (s01), which every chapter repeats: ask, take *)
(* what the response holds, run its calls, ask again until it holds none.  *)
(***************************************************************************)
EXTENDS Naturals, Sequences

CONSTANT MaxItems \* bound on the items of a history

VARIABLES
  history,
  phase,   \* "idle", "request", "tools", or "crashed": an exception nobody catches
  calls    \* the calls of the response that have not been answered, by their position

loopVars == <<history, phase, calls>>

Item(kind, about) == [kind |-> kind, about |-> about]

LoopInit == history = <<>> /\ phase = "idle" /\ calls = <<>>

\* run_turn begins with what is put before the prompt, and the prompt.
Ask(before) ==
  /\ phase = "idle" /\ Len(history) + Len(before) < MaxItems
  /\ history' = history \o before \o <<Item("user", 0)>>
  /\ phase' = "request"
  /\ UNCHANGED calls

\* OutputItemDone: everything the model produces goes into the history (reasoning as well).
Streamed(kind) ==
  /\ phase = "request" /\ Len(history) < MaxItems
  /\ history' = Append(history, Item(kind, 0))
  /\ calls' = IF kind = "function_call" THEN Append(calls, Len(history')) ELSE calls
  /\ UNCHANGED phase

ResponseEnds ==
  /\ phase = "request"
  /\ phase' = IF calls = <<>> THEN "idle" ELSE "tools"
  /\ UNCHANGED <<history, calls>>

\* _dispatch answers: an output, an unknown tool, arguments that are not JSON, a failure to start.
ToolAnswers ==
  /\ phase = "tools"
  /\ history' = Append(history, Item("function_call_output", Head(calls)))
  /\ calls' = Tail(calls)
  /\ phase' = IF Tail(calls) = <<>> THEN "request" ELSE "tools"

\* The stream breaks, or _dispatch raises (arguments that are no object; in s03 also a timeout): the
\* exception leaves run_turn and main.
Crash ==
  /\ phase \in {"request", "tools"}
  /\ phase' = "crashed"
  /\ UNCHANGED <<history, calls>>

LoopNext ==
  \/ \E kind \in {"message", "function_call"} : Streamed(kind)
  \/ ResponseEnds \/ ToolAnswers \/ Crash
=============================================================================
