------------------------------ MODULE Registry ------------------------------
(***************************************************************************)
(* The tool registry and the loop around it (s04): which tools a turn has, *)
(* how an item of the response becomes a call, and how each call is        *)
(* answered, whatever is wrong with it.                                    *)
(***************************************************************************)
EXTENDS Naturals, Sequences, FiniteSets, Selection

CONSTANTS
  Configs,  \* the ToolsConfigs: [shell, patch, plan, search]
  Writes,   \* what the model may write: items without their ids, see Item
  MaxItems  \* bound on the items of a history

VARIABLES
  config,
  history,
  phase,    \* "idle", "request", "tools", or "crashed"
  items,    \* what the response has held so far
  todo,     \* the ToolCalls that are left
  plan      \* ToolContext.plan: the statuses of its steps

vars == <<config, history, phase, items, todo, plan>>

(***************************************************************************)
(* build_registry                                                          *)
(***************************************************************************)
Tools(c) ==
  {IF c.shell = "shell" THEN "shell" ELSE "exec_command"}
    \cup (IF c.patch THEN {"apply_patch"} ELSE {})
    \cup (IF c.plan THEN {"update_plan"} ELSE {})
    \cup (IF c.search THEN {"web_search"} ELSE {})

(***************************************************************************)
(* An item is a message, a function_call or a custom_tool_call, or the     *)
(* output of one.  payload is what its arguments or input hold: "broken"   *)
(* (no JSON), "list" (JSON, but no object), "text" or "patch" (of a custom *)
(* call), "empty" (an object that lacks what the tool needs), "good", or,  *)
(* for a plan, the statuses of its steps.                                  *)
(***************************************************************************)
Item(type, name, payload) == [type |-> type, name |-> name, payload |-> payload]
Output(type, call, result) == [type |-> type, call |-> call, result |-> result]

Is(item, types) == item.type \in types
CallTypes   == {"function_call", "custom_tool_call"}
OutputTypes == {"function_call_output", "custom_tool_call_output"}

\* What the theorems about this module assume of the model's writing.
WritesTyped ==
  \A item \in Writes :
    /\ item.type \in CallTypes \cup {"message"}
    /\ item.payload \in Seq(STRING) /\ item.payload # <<>>
    /\ Len(item.payload) > 1 => item.payload[1] = "plan"
    /\ item.type = "function_call" => item.payload[1] \in {"broken", "list", "empty", "good", "plan"}
    /\ item.type = "custom_tool_call" => item.payload[1] \in {"text", "patch"}

\* build_tool_call raises ToolError.
Rejected(item) == item.type = "function_call" /\ item.payload = <<"broken">>

InProgress(steps) == { i \in DOMAIN steps : steps[i] = "in_progress" }

\* handle_update_plan refuses, or fails on a payload that is no object.
PlanFault(payload) ==
  payload[1] # "plan" \/ Len(payload) = 1 \/ Cardinality(InProgress(payload)) > 1

\* What dispatch makes of a call: any handler may also report a failure of its own (_run).
Results(call) ==
  CASE call.name \notin Tools(config) -> {"unsupported"}
    [] call.name = "web_search"       -> {"empty"}
    [] call.name = "update_plan"      -> {IF PlanFault(call.payload) THEN "error" ELSE "plan updated"}
    [] call.name = "apply_patch"      -> {IF call.payload = <<"patch">> THEN "would patch" ELSE "error"}
    [] OTHER -> IF call.payload = <<"good">> THEN {"exited", "error"} ELSE {"error"}

\* isinstance(call.payload, dict) chooses the type of the answer.
OutputType(payload) ==
  IF payload[1] \in {"list", "text", "patch"} THEN "custom_tool_call_output" ELSE "function_call_output"

Init ==
  /\ config \in Configs
  /\ history = <<>> /\ phase = "idle" /\ items = <<>> /\ todo = <<>> /\ plan = <<>>

RunTurn ==
  /\ phase = "idle" /\ Len(history) < MaxItems
  /\ history' = Append(history, Item("message", "user", <<"text">>))
  /\ phase' = "request"
  /\ UNCHANGED <<config, items, todo, plan>>

\* Calls carry the position at which they were recorded, as an id of their own.
Streamed(item) ==
  /\ phase = "request" /\ Len(history) < MaxItems
  /\ history' = Append(history, item)
  /\ items' = Append(items, [item |-> item, id |-> Len(history) + 1])
  /\ UNCHANGED <<config, phase, todo, plan>>

\* Mutant: an item that is no call it can read is passed over.
Refusals_Silent(seq) == <<>>

Refusals(seq) ==
  [i \in DOMAIN seq |-> Output("function_call_output", seq[i].id, "error")]

\* The response is over: what cannot be read is answered at once, the rest becomes calls; with neither, the
\* turn is over; with refusals alone the model is asked again.
ResponseEnds ==
  LET rejected == Selected(items, { k \in DOMAIN items : Rejected(items[k].item) })
      accepted == Selected(items, { k \in DOMAIN items : Is(items[k].item, CallTypes) /\ ~Rejected(items[k].item) })
  IN  /\ phase = "request"
      /\ history' = history \o Refusals(rejected)
      /\ todo' = accepted
      /\ items' = <<>>
      /\ phase' = IF accepted # <<>> THEN "tools" ELSE IF rejected # <<>> THEN "request" ELSE "idle"
      /\ UNCHANGED <<config, plan>>

Dispatch(result) ==
  /\ phase = "tools"
  /\ LET call == Head(todo)
     IN  /\ result \in Results(call.item)
         /\ history' = Append(history, Output(OutputType(call.item.payload), call.id, result))
         /\ plan' = IF result = "plan updated" THEN Tail(call.item.payload) ELSE plan
  /\ todo' = Tail(todo)
  /\ phase' = IF Tail(todo) = <<>> THEN "request" ELSE "tools"
  /\ UNCHANGED <<config, items>>

\* The stream breaks: the exception leaves run_turn and main.
Crash ==
  /\ phase = "request"
  /\ phase' = "crashed"
  /\ UNCHANGED <<config, history, items, todo, plan>>

Next ==
  \/ RunTurn
  \/ \E item \in Writes : Streamed(item)
  \/ ResponseEnds
  \/ \E result \in {"unsupported", "empty", "error", "plan updated", "would patch", "exited"} : Dispatch(result)
  \/ Crash

Spec == Init /\ [][Next]_vars

-----------------------------------------------------------------------------
Calls   == { i \in DOMAIN history : Is(history[i], CallTypes) }
Answers(i) == { j \in DOMAIN history : Is(history[j], OutputTypes) /\ history[j].call = i }

\* Before a request opens, and when a turn is over, each call there ever was has one answer, behind it; an
\* output answers a call, of its own kind unless its arguments are JSON and no object (build_tool_call,
\* dispatch, Session.run_turn; "an unanswered call_id breaks the next request").  And the plan never has
\* two steps in progress: a call that is refused leaves it alone (handle_update_plan).
EveryCallAnswered ==
  /\ phase = "idle" \/ (phase = "request" /\ items = <<>>) =>
       \A i \in Calls : \E j \in Answers(i) : Answers(i) = {j} /\ i < j
  /\ \A j \in DOMAIN history : Is(history[j], OutputTypes) =>
       LET i == history[j].call
       IN  /\ i \in Calls
           /\ history[i].payload # <<"list">> =>
                (history[j].type = "custom_tool_call_output" <=> history[i].type = "custom_tool_call")
  /\ Cardinality(InProgress(plan)) <= 1
=============================================================================
