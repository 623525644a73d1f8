----------------------------- MODULE MCChapters -----------------------------
(***************************************************************************)
(* Small instances of the chapters that have a loop of their own.          *)
(***************************************************************************)
EXTENDS Chapters

SomeConfigs ==
  { [shell |-> s, patch |-> TRUE, plan |-> p, search |-> p] : s \in {"shell", "exec_command"}, p \in BOOLEAN }

Call(type, name, payload) == [type |-> type, name |-> name, payload |-> payload]

\* A message, calls whose tool or arguments are wrong in each of the ways there are, and ones that work.
SomeWrites ==
  { Call("message", "assistant", <<"text">>),
    Call("function_call", "shell", <<"good">>), Call("function_call", "shell", <<"list">>),
    Call("function_call", "exec_command", <<"broken">>), Call("function_call", "web_search", <<"empty">>),
    Call("custom_tool_call", "apply_patch", <<"patch">>), Call("custom_tool_call", "update_plan", <<"text">>),
    Call("function_call", "update_plan", <<"plan", "in_progress", "in_progress">>),
    Call("function_call", "update_plan", <<"plan", "in_progress", "completed">>) }

ASSUME WritesAssumption == Registered!WritesTyped

\* Two calls of one command.
SameCommand == <<"make", "make">>

-----------------------------------------------------------------------------
(* Two sessions, with notes and skills, and a file that is not UTF-8; a     *)
(* user who types a long text, a block, and a text of which only a part     *)
(* looks like a block.                                                      *)
Dir(marker, agents, override) == [marker |-> marker, agents |-> agents, override |-> override]
Skill(form, name, description) ==
  [form |-> form, name |-> name, description |-> description, scope |-> "project", folder |-> "folder"]

SomeTrees ==
  { [personal |-> "absent", dirs |-> <<Dir(FALSE, "notes", "absent"), Dir(TRUE, "absent", "absent")>>, skills |-> <<>>],
    [personal |-> "mine", dirs |-> <<Dir(TRUE, "notes", "absent"), Dir(FALSE, "notes", "blank")>>,
     skills |-> <<Skill("complete", "", "what for"), Skill("open", "s", "what for"), Skill("complete", "s", "")>>],
    [personal |-> "absent", dirs |-> <<Dir(FALSE, "undecodable", "absent")>>, skills |-> <<>>] }

Shape(size, opens, closings) == [size |-> size, opens |-> opens, closings |-> closings]
SomeShapes == { Shape(5, FALSE, {5}), Shape(3, TRUE, {3}), Shape(5, TRUE, {2, 4}) }
=============================================================================
