------------------------------ MODULE Context ------------------------------
(***************************************************************************)
(* The conversation of a session as the model gets it: what it starts with *)
(* (s12, s15), what turns add, and what compactions leave (s11).           *)
(***************************************************************************)
EXTENDS Compaction

CONSTANTS
  Trees,   \* the files a session may find: see Instructions
  Shapes,  \* the sizes and shapes of what the user types
  Sizes,   \* the sizes of what the model and the tools write
  MaxSaid, \* bound on the user's messages
  MaxItems \* bound on the items of the model and its tools in one history, and on open calls

VARIABLES
  tree,    \* the files found
  start,   \* what the history began with
  history,
  said,    \* everything recorded as the user's own, in order
  phase,   \* "idle", or in a turn: "top" of its loop, "request", "tools"; "stopped": no session
  calls,   \* calls of the response not yet answered
  compacted \* whether there has been a compaction

vars == <<tree, start, history, said, phase, calls, compacted>>

HookContext(event) == UserItem(Block(<<"hook_context", event>>))
Note == [id |-> <<"interrupted">>, size |-> 2, opens |-> FALSE, closings |-> {}]
Other(type, size) == [type |-> type, role |-> "assistant", text |-> [id |-> <<type>>, size |-> size, opens |-> FALSE, closings |-> {}]]

\* Session.__init__: the prompt's items, then what the SessionStart hooks add.  The kernel always gives its
\* permissions to build_prompt, which needs none.
Init ==
  /\ tree \in Trees
  /\ \E permissionsBlock \in BOOLEAN, hooked \in BOOLEAN :
       start = IF Raises(tree) THEN <<>>
               ELSE BuildPrompt(tree, permissionsBlock) \o (IF hooked THEN <<HookContext("SessionStart")>> ELSE <<>>)
  /\ history = start /\ said = <<>>
  /\ phase = IF Raises(tree) THEN "stopped" ELSE "idle"
  /\ calls = 0 /\ compacted = FALSE

Typed(shape) == [id |-> <<"user", Len(said) + 1>>, size |-> shape.size, opens |-> shape.opens, closings |-> shape.closings]

Record(items, texts) ==
  /\ history' = history \o items
  /\ said' = said \o texts

\* run_turn begins: what the UserPromptSubmit hooks add, and the prompt.
TurnBegins(shape, hooked) ==
  /\ phase = "idle" /\ Len(said) < MaxSaid
  /\ Record((IF hooked THEN <<HookContext("UserPromptSubmit")>> ELSE <<>>) \o <<UserItem(Typed(shape))>>, <<Typed(shape)>>)
  /\ phase' = "top"
  /\ UNCHANGED <<tree, start, calls, compacted>>

\* A queued correction is drained at the top of the loop.
Drain(shape) ==
  /\ phase = "top" /\ Len(said) < MaxSaid
  /\ Record(<<UserItem(Typed(shape))>>, <<Typed(shape)>>)
  /\ UNCHANGED <<tree, start, phase, calls, compacted>>

Rebuild ==
  /\ history' = Compacted(history)
  /\ compacted' = TRUE
  /\ UNCHANGED <<tree, start, said, calls>>

\* Checked before the request; the request follows whatever the compaction left.
AutoCompact ==
  /\ phase = "top" /\ NeedsCompaction(history)
  /\ Rebuild
  /\ phase' = "request"

Open ==
  /\ phase = "top" /\ ~NeedsCompaction(history)
  /\ phase' = "request"
  /\ UNCHANGED <<tree, start, history, said, calls, compacted>>

\* The Compact operation: the submission loop runs it, also beside a turn.
OpCompact ==
  /\ phase # "stopped"
  /\ Rebuild
  /\ UNCHANGED phase

OwnItems == Cardinality({ i \in DOMAIN history : ~IsUser(history[i]) })

ModelWrites(type, size) ==
  /\ phase = "request" /\ OwnItems < MaxItems /\ calls < MaxItems
  /\ Record(<<Other(type, size)>>, <<>>)
  /\ calls' = calls + (IF type = "function_call" THEN 1 ELSE 0)
  /\ UNCHANGED <<tree, start, phase, compacted>>

ResponseEnds ==
  /\ phase = "request"
  /\ phase' = IF calls = 0 THEN "idle" ELSE "tools"
  /\ UNCHANGED <<tree, start, history, said, calls, compacted>>

ToolAnswers(size) ==
  /\ phase = "tools"
  /\ Record(<<Other("function_call_output", size)>>, <<>>)
  /\ calls' = calls - 1
  /\ phase' = IF calls = 1 THEN "top" ELSE "tools"
  /\ UNCHANGED <<tree, start, compacted>>

\* The summary or the response fails, or a handler raises: the turn is over and nothing is taken back.
TurnFails ==
  /\ phase \in {"request", "tools"} \/ (phase = "top" /\ NeedsCompaction(history))
  /\ phase' = "idle" /\ calls' = 0
  /\ UNCHANGED <<tree, start, history, said, compacted>>

\* Cancelled at one of its awaits: the note is recorded as a message of the user's.
Interrupted ==
  /\ phase \in {"request", "tools"} \/ (phase = "top" /\ NeedsCompaction(history))
  /\ Len(said) < MaxSaid
  /\ Record(<<UserItem(Note)>>, <<Note>>)
  /\ phase' = "idle" /\ calls' = 0
  /\ UNCHANGED <<tree, start, compacted>>

Next ==
  \/ \E shape \in Shapes : Drain(shape) \/ \E hooked \in BOOLEAN : TurnBegins(shape, hooked)
  \/ AutoCompact \/ Open \/ OpCompact
  \/ \E type \in {"message", "function_call"}, size \in Sizes : ModelWrites(type, size)
  \/ ResponseEnds
  \/ \E size \in Sizes : ToolAnswers(size)
  \/ TurnFails \/ Interrupted

Spec == Init /\ [][Next]_vars
=============================================================================
