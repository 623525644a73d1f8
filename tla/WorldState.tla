----------------------------- MODULE WorldState -----------------------------
(***************************************************************************)
(* What the model is told about its turn (s03).  The settings of a turn    *)
(* are resolved once, and persist; the sections that describe them go into *)
(* the history when their rendering is not the one remembered.             *)
(***************************************************************************)
EXTENDS AgentLoop

CONSTANTS
  Dirs,    \* working directories
  Modes,   \* sandbox modes and approval policies, taken together
  Unknown, \* those of them that have no text in SANDBOX_TEXT or APPROVAL_TEXT
  Dates,   \* what today may be
  Keep,    \* an override that is None
  MaxTurns \* bound on the turns

ASSUME KeepAssumption == Keep \notin Dirs \cup Modes /\ Unknown \subseteq Modes

VARIABLES
  today,
  defaults, \* the settings of the session
  last,     \* WorldState.last: what each section's text was, when it was rendered last
  turn,     \* the turn's TurnContext, and the day it began
  turns     \* how many there were

vars == <<history, phase, calls, today, defaults, last, turn, turns>>

Nothing  == <<>>
Sections == {"environment", "permissions"}
Settings == [cwd : Dirs, mode : Modes, network : BOOLEAN]

Overridden(ctx, o) ==
  [cwd     |-> IF o.cwd = Keep THEN ctx.cwd ELSE o.cwd,
   mode    |-> IF o.mode = Keep THEN ctx.mode ELSE o.mode,
   network |-> o.network] \* overridden by what it was, if it was not

\* render_environment and render_permissions.
Render(section, ctx, day) ==
  IF section = "environment" THEN <<ctx.cwd, ctx.network, day>> ELSE <<ctx.mode, ctx.network, "any day">>

\* Mutant: a section is told once.
Update_Once(section, ctx) ==
  IF last[section] # Nothing THEN <<>> ELSE <<Item(section, Render(section, ctx, today))>>

Update(section, ctx) ==
  IF last[section] = Render(section, ctx, today) THEN <<>>
  ELSE <<Item(section, Render(section, ctx, today))>>

Init ==
  /\ LoopInit
  /\ today \in Dates /\ defaults \in Settings
  /\ last = [section \in Sections |-> Nothing]
  /\ turn = Nothing /\ turns = 0

Begins(ctx) ==
  /\ defaults' = ctx
  /\ turn' = [ctx |-> ctx, day |-> today]
  /\ turns' = turns + 1
  /\ UNCHANGED today

RunTurn(o) ==
  LET ctx == Overridden(defaults, o)
  IN  /\ turns < MaxTurns /\ ctx.mode \notin Unknown
      /\ Ask(Update("environment", ctx) \o Update("permissions", ctx))
      /\ last' = [section \in Sections |-> Render(section, ctx, today)]
      /\ Begins(ctx)

\* render_permissions raises KeyError: the settings have persisted, and the environment is remembered as
\* told, but nothing has reached the history.  The exception ends the program.
RunTurnRaises(o) ==
  LET ctx == Overridden(defaults, o)
  IN  /\ turns < MaxTurns /\ phase = "idle" /\ ctx.mode \in Unknown
      /\ last' = [last EXCEPT !["environment"] = Render("environment", ctx, today)]
      /\ Begins(ctx)
      /\ phase' = "crashed"
      /\ UNCHANGED <<history, calls>>

Loop ==
  /\ LoopNext
  /\ UNCHANGED <<today, defaults, last, turn, turns>>

\* The date changes, also while a turn runs.
Midnight ==
  /\ \E day \in Dates : today' = day
  /\ UNCHANGED <<history, phase, calls, defaults, last, turn, turns>>

Overrides == [cwd : Dirs \cup {Keep}, mode : Modes \cup {Keep}, network : BOOLEAN]

Next ==
  \/ \E o \in Overrides : RunTurn(o) \/ RunTurnRaises(o)
  \/ Loop \/ Midnight

Spec == Init /\ [][Next]_vars

-----------------------------------------------------------------------------
\* In history h, the last section of that name says this.
Tells(h, section, text) ==
  \E i \in DOMAIN h :
    /\ h[i] = Item(section, text)
    /\ \A j \in DOMAIN h : j > i => h[j].kind # section

\* Of two sections of one name with none between, the texts differ.
TellsOnlyChanges(h) ==
  \A i, j \in DOMAIN h :
    /\ i < j /\ h[i].kind \in Sections
    /\ h[j].kind = h[i].kind
    /\ \A k \in DOMAIN h : i < k /\ k < j => h[k].kind # h[i].kind
    => h[i] # h[j]

\* While a turn runs, what the model was last told of its directory, its permissions and the network is what
\* holds for this turn, whichever settings earlier turns had, changed and changed back; and it is told only
\* what is new (WorldState.updates, Session.run_turn).
ModelKnowsContext ==
  /\ phase \in {"request", "tools"} =>
       /\ Tells(history, "environment", <<turn.ctx.cwd, turn.ctx.network, turn.day>>)
       /\ Tells(history, "permissions", <<turn.ctx.mode, turn.ctx.network, "any day">>)
  /\ TellsOnlyChanges(history)
=============================================================================
