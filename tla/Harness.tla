------------------------------ MODULE Harness ------------------------------
(***************************************************************************)
(* The kernel of the harness (s15): a thread's submission queue and its    *)
(* single consumer, the turn that runs as a task beside it, the approvals  *)
(* the turn parks on, and the frontend that reads the event stream.        *)
(*                                                                         *)
(* Everything here shares one asyncio event loop.  An action is the code   *)
(* between two points at which a coroutine suspends; `dispatch' is the one *)
(* phase that does not suspend, so while a turn is in it nothing else runs *)
(* (LoopFree).  Commands, MCP calls, summaries and the model stream run in *)
(* OS threads: the phases that wait for them end at any moment.            *)
(*                                                                         *)
(* Data kept: identities.  A UserTurn is its submission id, a turn is the  *)
(* id of the UserTurn that started it, a tool call is its call id.  Left   *)
(* out: texts, token counts (compaction may be due at any step boundary),  *)
(* assistant messages and deltas, the plan and hook context items.  Of the *)
(* rollout file (s10, Rollout.tla) the kernel sees only that an append may *)
(* raise.                                                                  *)
(***************************************************************************)
EXTENDS Integers, Sequences, FiniteSets

CONSTANTS
  MaxSubs,        \* bound: submissions the client makes, approvals not counted
  MaxCalls,       \* bound: tool calls the model makes in the whole session
  MaxWork,        \* bound: submissions and tool calls together
  Cmds,           \* shell commands
  CmdOf,          \* the command a call carries if it turns out to be an exec
  Verdict,        \* what the exec policy (s09) says of each command
  ApprovalPolicy, \* Config.approval_policy
  FullAccess,     \* Config.sandbox_mode = danger-full-access
  Seatbelt,       \* platform_sandbox() = "seatbelt": what s07 can enforce here
  Ops             \* the operations this client uses

Ids   == 1 .. MaxSubs
Calls == 1 .. MaxCalls

\* ReviewDecision (s08).  The harness refuses on two of them and takes any other
\* string for an approval; a client that sends one more is left out.
Decisions == {"approved", "approved_for_session", "denied", "abort"}
Refusals  == {"denied", "abort"}

ASSUME BoundsAssumption == MaxSubs \in Nat /\ MaxCalls \in Nat /\ MaxWork \in Nat
ASSUME ConfigAssumption ==
  /\ CmdOf \in [Calls -> Cmds]
  /\ Verdict \in [Cmds -> {"allow", "prompt", "forbidden"}]
  /\ ApprovalPolicy \in {"untrusted", "on-request", "never"}
  /\ FullAccess \in BOOLEAN /\ Seatbelt \in BOOLEAN
  /\ Ops \subseteq {"UserTurn", "Interrupt", "Compact", "Shutdown"}

VARIABLES
  submissions, \* CodexThread.submissions
  nextSub,     \* the next fresh submission id
  loop,        \* what _submission_loop waits for, or how it ended
  loopSub,     \* the Compact submission the loop is waiting on, or 0
  active,      \* Session.active: the id of the newest turn task, or 0
  pc,          \* the phase of each turn task
  todo,        \* per turn: the calls of the last response not yet answered
  cancelled,   \* turns cancelled that have not run since
  pending,     \* Session.pending_input
  futures,     \* Session.pending_approvals: the state of each call's future
  approved,    \* Session.approved_commands
  said,        \* the user messages of Session.history, in order
  callItems,   \* the tool calls of Session.history
  outItems,    \* the tool outputs of Session.history
  nextCall,    \* the next fresh call id
  bare,        \* history variable: the calls whose command ran in no sandbox
  turnDiffs,   \* Session.turn_diffs: the turns whose patches are in it
  events,      \* Session.events, kept as a log
  read,        \* the last question of them the frontend has read, by position
  asking,      \* the call the frontend is asking its user about, or 0
  answers,     \* what the user answered about each call
  torn,        \* history variable: the turns whose ending a failed append spoilt
  lost         \* history variable: messages taken from pending_input and dropped

queueVars == <<submissions, nextSub>>
loopVars  == <<loop, loopSub>>
taskVars  == <<active, pc, todo, cancelled>>
convVars  == <<pending, said, callItems, outItems, nextCall>>
execVars  == <<futures, approved, bare, turnDiffs>>
uiVars    == <<read, asking, answers>>
rollVars  == <<torn, lost>>
vars == <<queueVars, loopVars, taskVars, convVars, execVars, events, uiVars, rollVars>>

\* The user message that records an interruption.
Mark == 0

\* Phases in which a turn is suspended at an await after its first step.
Waiting == {"streaming", "compacting", "exec", "execFull", "ask", "askEscalate", "mcp"}
Phases  == Waiting \cup {"none", "created", "dispatch", "done"}
Live    == Waiting \cup {"created", "dispatch"}

FutureStates == Decisions \cup {"absent", "open", "cancelled"}

Submission ==
  [op : {"UserTurn", "Interrupt", "Compact", "Shutdown"}, id : Ids]
    \cup [op : {"ExecApproval"}, call : Calls, decision : Decisions]

Terminal == {"TaskComplete", "TurnAborted", "ErrorEvent"}
Kinds == Terminal \cup
  {"TaskStarted", "BackgroundNotice", "ContextCompacted", "TurnDiff", "ShutdownComplete",
   "ExecApprovalRequest", "BeginSandboxed", "BeginUnsandboxed", "ExecCommandEnd"}
Event == [sub : 0 .. MaxSubs, msg : Kinds, call : 0 .. MaxCalls]

TypeOK ==
  /\ submissions \in Seq(Submission)
  /\ nextSub \in 1 .. MaxSubs + 1
  /\ loop \in {"get", "compact", "returned", "raised"}
  /\ loopSub \in 0 .. MaxSubs
  /\ active \in 0 .. MaxSubs
  /\ pc \in [Ids -> Phases]
  /\ todo \in [Ids -> Seq(Calls)]
  /\ cancelled \subseteq Ids
  /\ pending \in Seq(Ids)
  /\ futures \in [Calls -> FutureStates]
  /\ approved \subseteq Cmds /\ bare \subseteq Calls
  /\ said \in Seq(0 .. MaxSubs)
  /\ callItems \subseteq Calls /\ outItems \subseteq Calls
  /\ nextCall \in 1 .. MaxCalls + 1
  /\ turnDiffs \subseteq Ids
  /\ events \in Seq(Event)
  /\ read \in 0 .. Len(events)
  /\ asking \in 0 .. MaxCalls
  /\ answers \in [Calls -> Decisions \cup {"none"}]
  /\ torn \subseteq Ids /\ lost \subseteq Ids

Init ==
  /\ submissions = <<>> /\ nextSub = 1
  /\ loop = "get" /\ loopSub = 0
  /\ active = 0
  /\ pc = [t \in Ids |-> "none"]
  /\ todo = [t \in Ids |-> <<>>]
  /\ cancelled = {}
  /\ pending = <<>>
  /\ said = <<>>
  /\ callItems = {} /\ outItems = {} /\ nextCall = 1
  /\ futures = [c \in Calls |-> "absent"]
  /\ approved = {} /\ bare = {} /\ turnDiffs = {}
  /\ events = <<>> /\ read = 0
  /\ asking = 0
  /\ answers = [c \in Calls |-> "none"]
  /\ torn = {} /\ lost = {}

-----------------------------------------------------------------------------
(* Shared pieces of the handlers.                                          *)

\* The bound on a session's work, a guard on what adds to it.
HasRoom == (nextSub - 1) + (nextCall - 1) < MaxWork

\* No task is between two awaits: any ready coroutine may take its step.
LoopFree == \A t \in Ids : pc[t] # "dispatch"

\* Session.emit, for one and for two events.
Ev(s, m)      == [sub |-> s, msg |-> m, call |-> 0]
CallEv(s, m, c) == [sub |-> s, msg |-> m, call |-> c]
Emit(e)       == events' = Append(events, e)
Emit2(e, f)   == events' = Append(Append(events, e), f)

Go(t, phase)  == pc' = [pc EXCEPT ![t] = phase]

\* Mutant: a task counts as running only once it has taken its first step.
TurnRunning_Started == active # 0 /\ pc[active] \notin {"created", "done"}

\* `sess.active and not sess.active.done()'
TurnRunning == active # 0 /\ pc[active] # "done"

\* Task.cancel(): the future the task waits for is cancelled if it is still
\* open; the task itself sees CancelledError when it next runs.
Cancel(t) ==
  /\ cancelled' = cancelled \cup {t}
  /\ futures' = [c \in Calls |->
       IF pc[t] \in {"ask", "askEscalate"} /\ c = Head(todo[t]) /\ futures[c] = "open"
       THEN "cancelled" ELSE futures[c]]

\* Mutant: pending_input is read and not replaced by a new list.
StepBoundary_KeepsPending(t, base) ==
  /\ said' = base \o pending
  /\ UNCHANGED pending
  /\ \E phase \in {"streaming", "compacting"} : Go(t, phase)

\* The top of run_turn's loop: fold the steering messages into history, after
\* the messages `base' already there, then compact first or send the request.
StepBoundary(t, base) ==
  /\ said' = base \o pending
  /\ pending' = <<>>
  /\ \E phase \in {"streaming", "compacting"} : Go(t, phase)

\* Mutant: a response's calls after the first are forgotten.
RecordOutput_FirstOnly(t) ==
  /\ outItems' = outItems \cup {Head(todo[t])}
  /\ todo' = [todo EXCEPT ![t] = <<>>]
  /\ StepBoundary(t, said)

\* Record the output of the call in flight and go on to the next one, or to
\* the next request when it was the last.
RecordOutput(t) ==
  /\ outItems' = outItems \cup {Head(todo[t])}
  /\ todo' = [todo EXCEPT ![t] = Tail(@)]
  /\ IF Tail(todo[t]) # <<>>
     THEN Go(t, "dispatch") /\ UNCHANGED <<said, pending>>
     ELSE StepBoundary(t, said)

\* Session._ask up to `await future'.
Ask(t, phase) ==
  LET c == Head(todo[t]) IN
  /\ futures' = [futures EXCEPT ![c] = "open"]
  /\ Emit(CallEv(t, "ExecApprovalRequest", c))
  /\ Go(t, phase)

\* Mutant: no `finally' around the await.
WithoutFuture_Kept(c) == futures

\* `finally: self.pending_approvals.pop(call_id, None)'
WithoutFuture(c) == [futures EXCEPT ![c] = "absent"]

\* Mutant: the exception is caught inside the loop, and the turn goes on.
Fail_Continues(t, before) ==
  /\ events' = events \o before \o <<Ev(t, "ErrorEvent")>>
  /\ todo' = [todo EXCEPT ![t] = <<>>]
  /\ UNCHANGED outItems
  /\ StepBoundary(t, said)

\* `except Exception' in run_turn, after a step that had emitted `before'.
Fail(t, before) ==
  /\ events' = events \o before \o <<Ev(t, "ErrorEvent")>>
  /\ Go(t, "done")
  /\ todo' = [todo EXCEPT ![t] = <<>>]
  /\ UNCHANGED <<said, pending, outItems>>

-----------------------------------------------------------------------------
(* The client: CodexThread.submit.                                         *)

\* amain reads no further line after the one that made it submit Shutdown.
Quitting == loop = "returned" \/ \E i \in DOMAIN submissions : submissions[i].op = "Shutdown"

Submit(op) ==
  /\ LoopFree /\ ~Quitting
  /\ nextSub \in Ids /\ HasRoom
  /\ submissions' = Append(submissions, [op |-> op, id |-> nextSub])
  /\ nextSub' = nextSub + 1
  /\ UNCHANGED <<loopVars, taskVars, convVars, execVars, events, uiVars, rollVars>>

-----------------------------------------------------------------------------
(* _submission_loop, one action per operation.                             *)

\* Mutant: the loop awaits run_turn instead of making a task of it.
Receive_Inline(op) ==
  /\ LoopFree
  /\ loop = "get" /\ ~TurnRunning
  /\ submissions # <<>> /\ Head(submissions).op = op
  /\ submissions' = Tail(submissions)
  /\ UNCHANGED nextSub

\* `await self.submissions.get()' returns an op of this kind.
Receive(op) ==
  /\ LoopFree
  /\ loop = "get"
  /\ submissions # <<>> /\ Head(submissions).op = op
  /\ submissions' = Tail(submissions)
  /\ UNCHANGED nextSub

\* Mutant: the newest message is put first.
Enqueued_First(t) == <<t>> \o pending

\* pending_input.append(op.text)
Enqueued(t) == Append(pending, t)

LoopUserTurn ==
  /\ Receive("UserTurn")
  /\ LET t == Head(submissions).id IN
     \/ /\ TurnRunning
        /\ pending' = Enqueued(t)
        /\ Emit(Ev(t, "BackgroundNotice"))
        /\ UNCHANGED <<active, pc>>
     \/ /\ ~TurnRunning
        /\ active' = t
        /\ Go(t, "created")
        /\ UNCHANGED <<pending, events>>
  /\ UNCHANGED <<loopVars, todo, cancelled, said, callItems, outItems, nextCall, execVars, uiVars,
                 rollVars>>

\* Session.resolve_approval: only an open future takes the answer.
LoopExecApproval ==
  /\ Receive("ExecApproval")
  /\ LET s == Head(submissions) IN
     IF futures[s.call] = "open"
     THEN futures' = [futures EXCEPT ![s.call] = s.decision] /\ UNCHANGED events
     ELSE Emit(Ev(0, "ErrorEvent")) /\ UNCHANGED futures
  /\ UNCHANGED <<loopVars, taskVars, convVars, approved, bare, turnDiffs, uiVars, rollVars>>

\* `await sess._compact(sub.id)': the loop itself waits for the summary.
LoopCompact ==
  /\ Receive("Compact")
  /\ loop' = "compact" /\ loopSub' = Head(submissions).id
  /\ UNCHANGED <<taskVars, convVars, execVars, events, uiVars, rollVars>>

LoopInterrupt ==
  /\ Receive("Interrupt")
  /\ IF TurnRunning
     THEN Cancel(active) /\ UNCHANGED events
     ELSE Emit(Ev(Head(submissions).id, "TurnAborted")) /\ UNCHANGED <<cancelled, futures>>
  /\ UNCHANGED <<loopVars, active, pc, todo, convVars, approved, bare, turnDiffs, uiVars, rollVars>>

\* A SessionEnd hook that raises ends the loop without the last event.
LoopShutdown ==
  /\ Receive("Shutdown")
  /\ IF TurnRunning THEN Cancel(active) ELSE UNCHANGED <<cancelled, futures>>
  /\ UNCHANGED events \/ Emit(Ev(Head(submissions).id, "ShutdownComplete"))
  /\ loop' = "returned"
  /\ UNCHANGED <<loopSub, active, pc, todo, convVars, approved, bare, turnDiffs, uiVars, rollVars>>

\* The rest of _compact: history is rebuilt from the user messages it holds
\* now; every other item goes, whenever it was recorded.
RebuildHistory == callItems' = {} /\ outItems' = {} /\ UNCHANGED said

LoopCompactDone ==
  /\ LoopFree /\ loop = "compact"
  /\ RebuildHistory
  /\ Emit(Ev(loopSub, "ContextCompacted"))
  /\ loop' = "get" /\ loopSub' = 0
  /\ UNCHANGED <<queueVars, taskVars, pending, nextCall, execVars, uiVars, rollVars>>

\* request_summary raises and nothing catches it: the loop's task ends.
LoopCompactRaises ==
  /\ LoopFree /\ loop = "compact"
  /\ loop' = "raised"
  /\ UNCHANGED <<queueVars, loopSub, taskVars, convVars, execVars, events, uiVars, rollVars>>

-----------------------------------------------------------------------------
(* Session.run_turn.  A cancelled task only ever takes TurnCancelled.      *)

Resume(t, phase) == LoopFree /\ t \notin cancelled /\ pc[t] = phase

\* From the first step to the first await.  A hook may refuse the prompt.  The
\* hook, or an append to the rollout, may raise: run_turn's `try' starts later,
\* so that the task dies without a word (once the prompt is said: StartBreaks).
TurnStart(t) ==
  /\ Resume(t, "created")
  /\ \/ /\ Emit(Ev(t, "TaskStarted"))
        /\ Go(t, "done")
        /\ UNCHANGED <<said, pending>>
     \/ /\ events' = Append(Append(Append(events, Ev(t, "TaskStarted")), Ev(t, "ErrorEvent")),
                           Ev(t, "TaskComplete"))
        /\ Go(t, "done")
        /\ UNCHANGED <<said, pending>>
     \/ /\ Emit(Ev(t, "TaskStarted"))
        /\ StepBoundary(t, Append(said, t))
  /\ UNCHANGED <<queueVars, loopVars, active, todo, cancelled, callItems, outItems, nextCall,
                 execVars, uiVars, rollVars>>

\* The auto-compaction the turn waited for is done; the request goes out.
TurnCompacted(t) ==
  /\ Resume(t, "compacting")
  /\ RebuildHistory
  /\ Emit(Ev(t, "ContextCompacted"))
  /\ Go(t, "streaming")
  /\ UNCHANGED <<queueVars, loopVars, active, todo, cancelled, pending, nextCall, execVars, uiVars,
                 rollVars>>

\* The stream delivers a finished tool call, recorded as it arrives.
StreamCall(t) ==
  /\ Resume(t, "streaming")
  /\ nextCall \in Calls /\ HasRoom
  /\ callItems' = callItems \cup {nextCall}
  /\ todo' = [todo EXCEPT ![t] = Append(@, nextCall)]
  /\ nextCall' = nextCall + 1
  /\ UNCHANGED <<queueVars, loopVars, active, pc, cancelled, pending, said, outItems, execVars,
                 events, uiVars, rollVars>>

\* Mutant: the turn completes without the second look at pending_input.
NothingQueued_Unchecked == TRUE

\* `if self.pending_input: continue' does not apply.
NothingQueued == pending = <<>>

\* The stream ends: run the calls, or go round again for a steering message
\* that came meanwhile, or complete the turn (an append fails: StreamBreaks).
StreamEnd(t) ==
  /\ Resume(t, "streaming")
  /\ \/ /\ todo[t] # <<>>
        /\ Go(t, "dispatch")
        /\ UNCHANGED <<said, pending, turnDiffs, events>>
     \/ /\ todo[t] = <<>> /\ pending # <<>>
        /\ StepBoundary(t, said)
        /\ UNCHANGED <<turnDiffs, events>>
     \/ /\ todo[t] = <<>> /\ NothingQueued
        /\ IF turnDiffs # {}
           THEN Emit2(Ev(t, "TurnDiff"), Ev(t, "TaskComplete"))
           ELSE Emit(Ev(t, "TaskComplete"))
        /\ turnDiffs' = {}
        /\ Go(t, "done")
        /\ UNCHANGED <<said, pending>>
  /\ UNCHANGED <<queueVars, loopVars, active, todo, cancelled, callItems, outItems, nextCall,
                 futures, approved, bare, uiVars, rollVars>>

\* CancelledError at the await the task is suspended at.  A task cancelled
\* before its first step never enters run_turn at all.  The handler records the
\* mark before it says TurnAborted (the append fails: CancelBreaks).
TurnCancelled(t) ==
  /\ LoopFree
  /\ t \in cancelled
  /\ cancelled' = cancelled \ {t}
  /\ Go(t, "done")
  /\ todo' = [todo EXCEPT ![t] = <<>>]
  /\ \/ /\ pc[t] = "created"
        /\ UNCHANGED <<said, futures, events>>
     \/ /\ pc[t] \in Waiting
        /\ said' = Append(said, Mark)
        /\ Emit(Ev(t, "TurnAborted"))
        /\ futures' = IF pc[t] \in {"ask", "askEscalate"}
                      THEN WithoutFuture(Head(todo[t])) ELSE futures
  /\ UNCHANGED <<queueVars, loopVars, active, pending, callItems, outItems, nextCall, approved,
                 bare, turnDiffs, uiVars, rollVars>>

\* Any other exception: the model client, a command that cannot be started, a
\* tool, a PostToolUse hook.  A call in hand stays unanswered; a patch may have
\* been applied, and a command may have ended or not.
TurnError(t) ==
  /\ \/ pc[t] = "dispatch"
     \/ \E phase \in {"streaming", "compacting", "exec", "execFull", "mcp"} : Resume(t, phase)
  /\ \/ Fail(t, <<>>)
     \/ /\ pc[t] \in {"exec", "execFull"}
        /\ Fail(t, <<CallEv(t, "ExecCommandEnd", Head(todo[t]))>>)
  /\ \/ UNCHANGED turnDiffs
     \/ pc[t] = "dispatch" /\ turnDiffs' = turnDiffs \cup {t}
  /\ UNCHANGED <<queueVars, loopVars, active, cancelled, callItems, nextCall, futures, approved,
                 bare, uiVars, rollVars>>

-----------------------------------------------------------------------------
(* Session._dispatch and _exec_command: the call at the head of todo[t].   *)

\* Answered without waiting: refused by a hook or by the exec policy, an
\* unknown tool, update_plan, or a patch, whose diff is kept for the turn.
DispatchInline(t) ==
  /\ pc[t] = "dispatch"
  /\ \E patched \in BOOLEAN : turnDiffs' = IF patched THEN turnDiffs \cup {t} ELSE turnDiffs
  /\ RecordOutput(t)
  /\ UNCHANGED <<queueVars, loopVars, active, cancelled, callItems, nextCall, futures, approved,
                 bare, events, uiVars, rollVars>>

DispatchMcp(t) ==
  /\ pc[t] = "dispatch"
  /\ Go(t, "mcp")
  /\ UNCHANGED <<queueVars, loopVars, active, todo, cancelled, convVars, execVars, events, uiVars,
                 rollVars>>

McpDone(t) ==
  /\ Resume(t, "mcp")
  /\ RecordOutput(t)
  /\ UNCHANGED <<queueVars, loopVars, active, cancelled, callItems, nextCall, execVars, events, uiVars,
                 rollVars>>

\* hookAsk: a PreToolUse hook answered `ask'.
NeedsAsk(c, hookAsk) ==
  /\ hookAsk \/ (Verdict[CmdOf[c]] = "prompt" /\ ApprovalPolicy = "untrusted")
  /\ CmdOf[c] \notin approved

\* What the turn asks for, and says in ExecCommandBegin.
Sandboxed(c) == CmdOf[c] \notin approved /\ ~FullAccess

\* What the command gets: off macOS build_command hands back the bare command,
\* and nobody is asked.
Confined(c) == Sandboxed(c) /\ Seatbelt

DispatchExec(t) ==
  LET c == Head(todo[t]) IN
  /\ pc[t] = "dispatch"
  /\ Verdict[CmdOf[c]] # "forbidden"
  /\ \E hookAsk \in BOOLEAN :
     \/ /\ NeedsAsk(c, hookAsk)
        /\ Ask(t, "ask") /\ UNCHANGED bare
     \/ /\ ~NeedsAsk(c, hookAsk)
        /\ Emit(CallEv(t, IF Sandboxed(c) THEN "BeginSandboxed" ELSE "BeginUnsandboxed", c))
        /\ IF Confined(c) THEN Go(t, "exec") /\ UNCHANGED bare
           ELSE Go(t, "execFull") /\ bare' = bare \cup {c}
        /\ UNCHANGED futures
  /\ UNCHANGED <<queueVars, loopVars, active, todo, cancelled, convVars, approved, turnDiffs, uiVars,
                 rollVars>>

\* Mutant: a command that ran unsandboxed is not reported as ended.
ExecDone_Silent(t) ==
  /\ Resume(t, "exec") \/ Resume(t, "execFull")
  /\ IF pc[t] = "exec" THEN Emit(CallEv(t, "ExecCommandEnd", Head(todo[t]))) ELSE UNCHANGED events
  /\ RecordOutput(t)
  /\ UNCHANGED <<queueVars, loopVars, active, cancelled, callItems, nextCall, execVars, uiVars,
                 rollVars>>

\* The command ran; its output goes back to the model.
ExecDone(t) ==
  /\ Resume(t, "exec") \/ Resume(t, "execFull")
  /\ Emit(CallEv(t, "ExecCommandEnd", Head(todo[t])))
  /\ RecordOutput(t)
  /\ UNCHANGED <<queueVars, loopVars, active, cancelled, callItems, nextCall, execVars, uiVars,
                 rollVars>>

\* A sandboxed command was blocked: tell the model under `never', else ask to escalate.
ExecDenied(t) ==
  /\ Resume(t, "exec")
  /\ \/ /\ ApprovalPolicy = "never"
        /\ Emit(CallEv(t, "ExecCommandEnd", Head(todo[t])))
        /\ RecordOutput(t)
        /\ UNCHANGED futures
     \/ /\ ApprovalPolicy # "never"
        /\ Ask(t, "askEscalate")
        /\ UNCHANGED <<todo, said, pending, outItems>>
  /\ UNCHANGED <<queueVars, loopVars, active, cancelled, callItems, nextCall, approved, bare,
                 turnDiffs, uiVars, rollVars>>

\* Mutant: any approval is remembered, not only one for the session.
Remember_Always(c, d) == approved \cup {CmdOf[c]}

\* `approved_for_session' adds the command to approved_commands.
Remember(c, d) == IF d = "approved_for_session" THEN approved \cup {CmdOf[c]} ELSE approved

\* The future is resolved.  Approved, the command runs at once, outside the
\* sandbox and on the event loop's own thread (_run).
Decided(t) ==
  LET c     == Head(todo[t])
      begin == CallEv(t, "BeginUnsandboxed", c)
      end   == CallEv(t, "ExecCommandEnd", c) IN
  /\ Resume(t, "ask") \/ Resume(t, "askEscalate")
  /\ futures[c] \in Decisions
  /\ futures' = WithoutFuture(c)
  /\ \/ /\ futures[c] \in Refusals
        /\ \/ RecordOutput(t) /\ UNCHANGED events
           \/ Fail(t, <<>>)
        /\ UNCHANGED <<approved, bare>>
     \/ /\ futures[c] \notin Refusals
        /\ approved' = Remember(c, futures[c])
        /\ bare' = bare \cup {c}
        /\ \/ Emit2(begin, end) /\ RecordOutput(t)
           \/ Fail(t, <<begin>>)
           \/ Fail(t, <<begin, end>>)
  /\ UNCHANGED <<queueVars, loopVars, active, cancelled, callItems, nextCall, turnDiffs, uiVars,
                 rollVars>>

-----------------------------------------------------------------------------
(* An append to the rollout raises (s10, RolloutRecorder._append).  It does *)
(* so after record_item has put its item in history; the turns append, the *)
(* submission loop never does.                                             *)

\* The turn's task ends, having said `tail' last.
Dies(t, tail) ==
  /\ events' = events \o tail
  /\ Go(t, "done")
  /\ todo' = [todo EXCEPT ![t] = <<>>]

\* The failing append is that of a drained message: it and those before it are
\* said, after `base'; those behind it are in no list any more.
DrainBreaks(base) ==
  /\ \E k \in DOMAIN pending :
       /\ said' = base \o SubSeq(pending, 1, k)
       /\ lost' = lost \cup { pending[i] : i \in k + 1 .. Len(pending) }
  /\ pending' = <<>>

\* Of the prompt, before the `try': the task dies with the prompt said and no
\* ending.  Of a message drained before the first request: inside the `try'.
StartBreaks(t) ==
  /\ Resume(t, "created")
  /\ \/ /\ Dies(t, <<Ev(t, "TaskStarted")>>)
        /\ said' = Append(said, t)
        /\ torn' = torn \cup {t}
        /\ UNCHANGED <<pending, lost>>
     \/ /\ Dies(t, <<Ev(t, "TaskStarted"), Ev(t, "ErrorEvent")>>)
        /\ DrainBreaks(Append(said, t))
        /\ UNCHANGED torn
  /\ UNCHANGED <<cancelled, callItems, outItems, nextCall, execVars>>

\* Of the interruption's mark: no TurnAborted.
CancelBreaks(t) ==
  /\ LoopFree /\ t \in cancelled /\ pc[t] \in Waiting
  /\ Dies(t, <<>>)
  /\ cancelled' = cancelled \ {t}
  /\ said' = Append(said, Mark)
  /\ futures' = IF pc[t] \in {"ask", "askEscalate"} THEN WithoutFuture(Head(todo[t])) ELSE futures
  /\ torn' = torn \cup {t}
  /\ UNCHANGED <<pending, callItems, outItems, nextCall, approved, bare, turnDiffs, lost>>

\* Of an arriving call, of task_complete, which makes an ErrorEvent follow the
\* TaskComplete, or of a message that came during the stream.
StreamBreaks(t) ==
  /\ Resume(t, "streaming")
  /\ \/ /\ nextCall \in Calls /\ HasRoom
        /\ callItems' = callItems \cup {nextCall}
        /\ nextCall' = nextCall + 1
        /\ Dies(t, <<Ev(t, "ErrorEvent")>>)
        /\ UNCHANGED <<said, pending, turnDiffs, rollVars>>
     \/ /\ todo[t] = <<>> /\ NothingQueued
        /\ Dies(t, (IF turnDiffs # {} THEN <<Ev(t, "TurnDiff")>> ELSE <<>>)
                     \o <<Ev(t, "TaskComplete"), Ev(t, "ErrorEvent")>>)
        /\ turnDiffs' = {}
        /\ torn' = torn \cup {t}
        /\ UNCHANGED <<said, pending, callItems, nextCall, lost>>
     \/ /\ todo[t] = <<>>
        /\ Dies(t, <<Ev(t, "ErrorEvent")>>)
        /\ DrainBreaks(said)
        /\ UNCHANGED <<callItems, nextCall, turnDiffs, torn>>
  /\ UNCHANGED <<cancelled, outItems, futures, approved, bare>>

\* Of a call's output, or, when it was the last one's, of a message that came
\* since the last request.
OutputBreaks(t) ==
  LET c == Head(todo[t])
      end == CallEv(t, "ExecCommandEnd", c)
      error == Ev(t, "ErrorEvent") IN
  /\ todo[t] # <<>>
  /\ outItems' = outItems \cup {c}
  /\ \/ UNCHANGED <<said, pending, lost>>
     \/ Tail(todo[t]) = <<>> /\ DrainBreaks(said)
  /\ \/ /\ pc[t] = "dispatch"
        /\ Dies(t, <<error>>)
        /\ turnDiffs' \in {turnDiffs, turnDiffs \cup {t}}
        /\ UNCHANGED <<futures, approved, bare>>
     \/ /\ Resume(t, "mcp")
        /\ Dies(t, <<error>>)
        /\ UNCHANGED execVars
     \/ /\ Resume(t, "exec") \/ Resume(t, "execFull")
        /\ Dies(t, <<end, error>>)
        /\ UNCHANGED execVars
     \/ /\ Resume(t, "ask") \/ Resume(t, "askEscalate")
        /\ futures[c] \in Decisions
        /\ futures' = WithoutFuture(c)
        /\ \/ /\ futures[c] \in Refusals
              /\ Dies(t, <<error>>)
              /\ UNCHANGED <<approved, bare>>
           \/ /\ futures[c] \notin Refusals
              /\ approved' = Remember(c, futures[c])
              /\ bare' = bare \cup {c}
              /\ Dies(t, <<CallEv(t, "BeginUnsandboxed", c), end, error>>)
        /\ UNCHANGED turnDiffs
  /\ UNCHANGED <<cancelled, callItems, nextCall, torn>>

\* Of exec_command_begin: the command that was said to begin does not run.
BeginBreaks(t) ==
  LET c == Head(todo[t]) IN
  /\ pc[t] = "dispatch"
  /\ Verdict[CmdOf[c]] # "forbidden" /\ ~NeedsAsk(c, FALSE)
  /\ Dies(t, <<CallEv(t, IF Sandboxed(c) THEN "BeginSandboxed" ELSE "BeginUnsandboxed", c),
               Ev(t, "ErrorEvent")>>)
  /\ UNCHANGED <<cancelled, convVars, execVars, rollVars>>

AppendFails(t) ==
  /\ \/ StartBreaks(t) \/ CancelBreaks(t) \/ StreamBreaks(t)
     \/ OutputBreaks(t) \/ BeginBreaks(t)
  /\ UNCHANGED <<queueVars, loopVars, active, uiVars>>

-----------------------------------------------------------------------------
(* The frontend: render_human or render_json.                              *)

\* The next question in the stream.  After ShutdownComplete nothing is read.
NextQuestion(i) ==
  /\ i > read /\ events[i].msg = "ExecApprovalRequest"
  /\ \A j \in 1 .. i - 1 :
       /\ events[j].msg # "ShutdownComplete"
       /\ j > read => events[j].msg # "ExecApprovalRequest"

\* Mutant: render_json prints the question and does not answer it.
Render_Silent ==
  /\ LoopFree /\ asking = 0
  /\ \E i \in DOMAIN events : NextQuestion(i) /\ read' = i
  /\ UNCHANGED <<queueVars, loopVars, taskVars, convVars, execVars, events, asking, answers,
                 rollVars>>

\* Read the events up to the next question to the user, which stops the reading
\* until it is answered; the others are printed and have no effect here.
Render ==
  /\ LoopFree /\ asking = 0
  /\ \E i \in DOMAIN events : NextQuestion(i) /\ read' = i /\ asking' = events[i].call
  /\ UNCHANGED <<queueVars, loopVars, taskVars, convVars, execVars, events, answers, rollVars>>

\* The human types an answer, or render_json refuses on its own.
AnswerApproval(d) ==
  /\ LoopFree
  /\ asking # 0
  /\ submissions' = Append(submissions, [op |-> "ExecApproval", call |-> asking, decision |-> d])
  /\ answers' = [answers EXCEPT ![asking] = d]
  /\ asking' = 0
  /\ UNCHANGED <<nextSub, loopVars, taskVars, convVars, execVars, events, read, rollVars>>

-----------------------------------------------------------------------------
LoopStep ==
  \/ LoopUserTurn \/ LoopExecApproval \/ LoopInterrupt \/ LoopShutdown
  \/ LoopCompact \/ LoopCompactDone \/ LoopCompactRaises

TurnStep(t) ==
  \/ TurnStart(t) \/ TurnCompacted(t) \/ StreamCall(t) \/ StreamEnd(t)
  \/ TurnCancelled(t) \/ TurnError(t) \/ AppendFails(t)
  \/ DispatchInline(t) \/ DispatchMcp(t) \/ McpDone(t)
  \/ DispatchExec(t) \/ ExecDone(t) \/ ExecDenied(t) \/ Decided(t)

Next ==
  \/ \E op \in Ops : Submit(op)
  \/ LoopStep
  \/ \E t \in Ids : TurnStep(t)
  \/ Render
  \/ \E d \in Decisions : AnswerApproval(d)

Spec == Init /\ [][Next]_vars

\* The event loop runs every ready coroutine; the model, commands, MCP servers
\* and summaries end some time; the user answers what is asked.
Fairness ==
  /\ WF_vars(LoopStep)
  /\ \A t \in Ids : WF_vars(TurnStep(t))
  /\ WF_vars(Render)
  /\ WF_vars(\E d \in Decisions : AnswerApproval(d))

LiveSpec == Spec /\ Fairness
=============================================================================
