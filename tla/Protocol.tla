------------------------------ MODULE Protocol ------------------------------
(***************************************************************************)
(* The two queues (s02): what a frontend submits, one consumer takes; a    *)
(* turn runs beside it as a task, and a message that comes meanwhile       *)
(* steers it.  Unlike the kernel's (s15), this thread has no operation     *)
(* that waits in the consumer, and no hook that may refuse a prompt.       *)
(*                                                                         *)
(* Left out: texts and tokens, the events, and the calls but for their     *)
(* number.  A message is the number of its UserTurn, and so is its turn.   *)
(***************************************************************************)
EXTENDS Naturals, Sequences, Functions

CONSTANTS
  MaxSubs,  \* bound on the UserTurns
  MaxCalls, \* bound on the calls of a response
  MaxQueue  \* bound on the submissions that wait

Ids  == 1 .. MaxSubs
Mark == 0 \* the note "[turn interrupted by user]"

VARIABLES
  submissions, \* [op, id]; only a UserTurn has a number
  sent,        \* how many UserTurns there were
  listening,   \* _submission_loop has not returned
  active,      \* Session.active: the newest turn, or 0
  pc,          \* the phase of each
  todo,        \* the calls it still has to run
  cancelled,   \* turns cancelled that have not run since
  pending,     \* Session.pending_input
  said         \* the user messages of Session.history

queueVars == <<submissions, sent, listening>>
vars == <<queueVars, active, pc, todo, cancelled, pending, said>>

Init ==
  /\ submissions = <<>> /\ sent = 0 /\ listening = TRUE
  /\ active = 0 /\ pc = [t \in Ids |-> "none"] /\ todo = [t \in Ids |-> 0] /\ cancelled = {}
  /\ pending = <<>> /\ said = <<>>

\* The frontend: a line is a UserTurn, or /interrupt, or /quit.
SubmitTurn ==
  /\ Len(submissions) < MaxQueue /\ sent < MaxSubs
  /\ sent' = sent + 1
  /\ submissions' = Append(submissions, [op |-> "UserTurn", id |-> sent'])
  /\ UNCHANGED <<listening, active, pc, todo, cancelled, pending, said>>

SubmitOp(op) ==
  /\ Len(submissions) < MaxQueue
  /\ submissions' = Append(submissions, [op |-> op, id |-> Mark])
  /\ UNCHANGED <<sent, listening, active, pc, todo, cancelled, pending, said>>

-----------------------------------------------------------------------------
\* `sess.active is not None and not sess.active.task.done()'
TurnRunning == active # 0 /\ pc[active] # "done"

Receive(op) ==
  /\ listening /\ submissions # <<>> /\ Head(submissions).op = op
  /\ submissions' = Tail(submissions)
  /\ UNCHANGED sent

LoopUserTurn ==
  /\ Receive("UserTurn")
  /\ IF TurnRunning
     THEN /\ pending' = Append(pending, Head(submissions).id)
          /\ UNCHANGED <<active, pc>>
     ELSE /\ active' = Head(submissions).id
          /\ pc' = [pc EXCEPT ![active'] = "created"]
          /\ UNCHANGED pending
  /\ UNCHANGED <<listening, todo, cancelled, said>>

Cancel == cancelled' = IF TurnRunning THEN cancelled \cup {active} ELSE cancelled

\* With no turn that runs, an Interrupt is only reported.
LoopInterrupt ==
  /\ Receive("Interrupt") /\ Cancel
  /\ UNCHANGED <<listening, active, pc, todo, pending, said>>

LoopShutdown ==
  /\ Receive("Shutdown") /\ Cancel
  /\ listening' = FALSE
  /\ UNCHANGED <<active, pc, todo, pending, said>>

-----------------------------------------------------------------------------
(* Session.run_turn: a step is what it does between two awaits.            *)

Resume(t, phase) == t \notin cancelled /\ pc[t] = phase

\* Mutant: the queue is read, and not replaced by an empty one.
Request_KeepsPending(t, before) ==
  /\ said' = before \o pending
  /\ pc' = [pc EXCEPT ![t] = "streaming"]
  /\ UNCHANGED pending

\* A step boundary, and the request that follows it: drain_pending_input into the history.
Request(t, before) ==
  /\ said' = before \o pending
  /\ pending' = <<>>
  /\ pc' = [pc EXCEPT ![t] = "streaming"]

TurnStart(t) ==
  /\ Resume(t, "created") /\ Request(t, Append(said, t))
  /\ UNCHANGED <<queueVars, active, todo, cancelled>>

StreamCall(t) ==
  /\ Resume(t, "streaming") /\ todo[t] < MaxCalls
  /\ todo' = [todo EXCEPT ![t] = @ + 1]
  /\ UNCHANGED <<queueVars, active, pc, cancelled, pending, said>>

\* The response is over: its calls run, or the turn goes on with what was queued, or it completes.
StreamEnd(t) ==
  /\ Resume(t, "streaming")
  /\ \/ /\ todo[t] > 0
        /\ pc' = [pc EXCEPT ![t] = "tools"]
        /\ UNCHANGED <<pending, said>>
     \/ /\ todo[t] = 0 /\ pending # <<>>
        /\ Request(t, said)
     \/ /\ todo[t] = 0 /\ pending = <<>>
        /\ pc' = [pc EXCEPT ![t] = "done"]
        /\ UNCHANGED <<pending, said>>
  /\ UNCHANGED <<queueVars, active, todo, cancelled>>

\* A command ends, or a call is answered without one, and the next request follows the last.
ToolAnswers(t) ==
  /\ Resume(t, "tools")
  /\ todo' = [todo EXCEPT ![t] = @ - 1]
  /\ IF todo'[t] = 0 THEN Request(t, said) ELSE UNCHANGED <<pc, pending, said>>
  /\ UNCHANGED <<queueVars, active, cancelled>>

\* CancelledError at the await: a note goes into the history, unless the task had not begun.
TurnCancelled(t) ==
  /\ t \in cancelled
  /\ cancelled' = cancelled \ {t}
  /\ pc' = [pc EXCEPT ![t] = "done"] /\ todo' = [todo EXCEPT ![t] = 0]
  /\ said' = IF pc[t] = "created" THEN said ELSE Append(said, Mark)
  /\ UNCHANGED <<queueVars, active, pending>>

\* `except Exception': the stream breaks, or a call's arguments are no object.
TurnError(t) ==
  /\ Resume(t, "streaming") \/ Resume(t, "tools")
  /\ pc' = [pc EXCEPT ![t] = "done"] /\ todo' = [todo EXCEPT ![t] = 0]
  /\ UNCHANGED <<queueVars, active, cancelled, pending, said>>

Next ==
  \/ SubmitTurn \/ \E op \in {"Interrupt", "Shutdown"} : SubmitOp(op)
  \/ LoopUserTurn \/ LoopInterrupt \/ LoopShutdown
  \/ \E t \in Ids : \/ TurnStart(t) \/ StreamCall(t) \/ StreamEnd(t) \/ ToolAnswers(t)
                    \/ TurnCancelled(t) \/ TurnError(t)

Spec == Init /\ [][Next]_vars

-----------------------------------------------------------------------------
\* The thread keeps the promise of module Steering, the one the kernel keeps: what is accepted waits, is said
\* once or refused (its task was cancelled before it began), and a message that comes while a turn runs
\* opens no other (_submission_loop, drain_pending_input, run_turn).
Thread == INSTANCE Steering WITH
  Messages     <- Ids,
  Marker       <- Mark,
  conversation <- said,
  waiting      <- Range(pending) \cup { t \in Ids : pc[t] = "created" },
  refused      <- { t \in Ids : pc[t] = "done" /\ t \notin Range(said) },
  open         <- IF TurnRunning THEN active ELSE Mark

ThreadSteers == Thread!Spec
=============================================================================
