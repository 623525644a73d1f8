------------------------------ MODULE Approval ------------------------------
(***************************************************************************)
(* Approval and escalation (s08): a command runs in the sandbox, and only  *)
(* a user's answer, now or earlier in the session, lets it out.  The turn  *)
(* waits on a future that a later submission completes.  A UserTurn always *)
(* makes a task, so that several turns may run and ask at once.            *)
(*                                                                         *)
(* Left out: the history but for what is still to be answered, the         *)
(* streamed text, and the events but for the questions (asked).  A turn is *)
(* its number, a call its id.                                              *)
(***************************************************************************)
EXTENDS Naturals, Sequences, FiniteSets

CONSTANTS
  Turns,    \* 1 .. n, bound on the UserTurns
  Calls,    \* 1 .. n, bound on the calls of the session
  CmdOf,    \* the command of each call
  Trusted,  \* the commands that is_trusted accepts
  MaxQueue  \* bound on the submissions that wait

Policies  == {"untrusted", "on-request", "never"}
Decisions == {"approved", "approved_for_session", "denied", "abort"}

\* The answers that _exec_with_approval takes for a no.  Whatever else it is told it takes for a yes: that
\* no one tells it anything but a decision is the frontends' doing.
Refusals == {"denied", "abort"}

VARIABLES
  approval_policy,
  sandboxes,   \* sandbox_available()
  submissions,
  listening,   \* _submission_loop has not returned
  active,      \* Session.active, or 0
  pc, todo,    \* of each turn: its phase, and the calls it has not answered
  made,        \* how many calls the model has made
  cancelled,   \* turns cancelled that have not run since
  futures,     \* Session.pending_approvals: "absent", "open", "cancelled", or the decision
  approved,    \* Session.approved
  asked,       \* the calls of the ExecApprovalRequests
  answers,     \* what the user answered to each
  ran          \* the calls whose command was run outside the sandbox

sessionVars == <<approval_policy, sandboxes>>
queueVars   == <<submissions, listening, active>>
turnVars    == <<pc, todo, made, cancelled>>
consentVars == <<futures, approved, asked, answers, ran>>
vars == <<sessionVars, queueVars, turnVars, consentVars>>

Waiting == {"streaming", "ask", "exec", "escalate", "retry"}

Init ==
  /\ approval_policy \in Policies /\ sandboxes \in BOOLEAN
  /\ submissions = <<>> /\ listening = TRUE /\ active = 0
  /\ pc = [t \in Turns |-> "none"] /\ todo = [t \in Turns |-> <<>>] /\ made = 0 /\ cancelled = {}
  /\ futures = [c \in Calls |-> "absent"] /\ approved = {}
  /\ asked = {} /\ answers = [c \in Calls |-> "none"] /\ ran = {}

\* No turn is between two awaits.
LoopFree == \A t \in Turns : pc[t] # "calls"

-----------------------------------------------------------------------------
(* The client: it submits, and answers what it is asked.                   *)

Submit(sub) ==
  /\ LoopFree /\ Len(submissions) < MaxQueue
  /\ submissions' = Append(submissions, sub)
  /\ UNCHANGED <<sessionVars, listening, active, turnVars, futures, approved, asked, ran>>

SubmitOp(op) == Submit([op |-> op]) /\ UNCHANGED answers

\* run_cli asks its user, who says y, always, or anything else; another client may send an abort.
Answer(c, decision) ==
  /\ c \in asked /\ answers[c] = "none"
  /\ Submit([op |-> "ExecApproval", call |-> c, decision |-> decision])
  /\ answers' = [answers EXCEPT ![c] = decision]

-----------------------------------------------------------------------------
(* _submission_loop                                                        *)

Receive(op) ==
  /\ LoopFree /\ listening
  /\ submissions # <<>> /\ Head(submissions).op = op
  /\ submissions' = Tail(submissions)

LoopUserTurn ==
  /\ Receive("UserTurn")
  /\ \E t \in Turns :
       /\ pc[t] = "none" /\ \A u \in Turns : pc[u] = "none" => t <= u
       /\ active' = t
       /\ pc' = [pc EXCEPT ![t] = "created"]
  /\ UNCHANGED <<sessionVars, listening, todo, made, cancelled, consentVars>>

\* resolve_approval: an open future takes the answer.
Resolve(c, decision) ==
  IF futures[c] = "open" THEN [futures EXCEPT ![c] = decision] ELSE futures

LoopExecApproval ==
  /\ Receive("ExecApproval")
  /\ futures' = Resolve(Head(submissions).call, Head(submissions).decision)
  /\ UNCHANGED <<sessionVars, listening, active, turnVars, approved, asked, answers, ran>>

\* task.cancel() of the newest turn, and of the future it waits for.
Cancel ==
  IF active # 0 /\ pc[active] # "done"
  THEN /\ cancelled' = cancelled \cup {active}
       /\ futures' = [c \in Calls |->
            IF pc[active] \in {"ask", "escalate"} /\ c = Head(todo[active]) /\ futures[c] = "open"
            THEN "cancelled" ELSE futures[c]]
  ELSE UNCHANGED <<cancelled, futures>>

LoopInterrupt ==
  /\ Receive("Interrupt") /\ Cancel
  /\ UNCHANGED <<sessionVars, listening, active, pc, todo, made, approved, asked, answers, ran>>

LoopShutdown ==
  /\ Receive("Shutdown") /\ Cancel
  /\ listening' = FALSE
  /\ UNCHANGED <<sessionVars, active, pc, todo, made, approved, asked, answers, ran>>

-----------------------------------------------------------------------------
(* assess_command_safety                                                   *)

Assess(cmd) ==
  CASE cmd \in approved -> "unsandboxed"
    [] cmd \notin approved /\ approval_policy = "untrusted" /\ cmd \notin Trusted -> "ask"
    [] OTHER -> IF sandboxes THEN "sandboxed" ELSE IF approval_policy = "never" THEN "reject" ELSE "ask"

-----------------------------------------------------------------------------
(* Session.run_turn and _exec_with_approval.  A cancelled task only ever   *)
(* takes TurnCancelled.                                                    *)

Resume(t, phase) == LoopFree /\ t \notin cancelled /\ pc[t] = phase

Go(t, phase) == pc' = [pc EXCEPT ![t] = phase] /\ UNCHANGED <<todo, made, cancelled>>

\* The call is answered in the history; the next one follows, or the next request.
Answered(t) ==
  /\ todo' = [todo EXCEPT ![t] = Tail(@)]
  /\ pc' = [pc EXCEPT ![t] = IF Tail(todo[t]) = <<>> THEN "streaming" ELSE "calls"]
  /\ UNCHANGED <<made, cancelled>>

TurnStart(t) ==
  /\ Resume(t, "created") /\ Go(t, "streaming")
  /\ UNCHANGED <<sessionVars, queueVars, consentVars>>

StreamCall(t) ==
  /\ Resume(t, "streaming") /\ made + 1 \in Calls
  /\ made' = made + 1
  /\ todo' = [todo EXCEPT ![t] = Append(@, made')]
  /\ UNCHANGED <<sessionVars, queueVars, pc, cancelled, consentVars>>

StreamEnd(t) ==
  /\ Resume(t, "streaming")
  /\ Go(t, IF todo[t] = <<>> THEN "done" ELSE "calls")
  /\ UNCHANGED <<sessionVars, queueVars, consentVars>>

\* _ask, up to `await future'.
Ask(t, phase) ==
  /\ Go(t, phase)
  /\ futures' = [futures EXCEPT ![Head(todo[t])] = "open"]
  /\ asked' = asked \cup {Head(todo[t])}

\* A call is assessed; one whose arguments are not JSON is answered without.
Begin(t) ==
  LET c == Head(todo[t])
      check == Assess(CmdOf[c])
  IN  /\ pc[t] = "calls"
      /\ \/ /\ Answered(t) \* not JSON
            /\ UNCHANGED <<futures, asked, ran>>
         \/ /\ check = "reject" /\ Answered(t)
            /\ UNCHANGED <<futures, asked, ran>>
         \/ /\ check = "ask" /\ Ask(t, "ask")
            /\ UNCHANGED ran
         \/ /\ check \in {"sandboxed", "unsandboxed"} /\ Go(t, "exec")
            /\ ran' = IF check = "unsandboxed" THEN ran \cup {c} ELSE ran
            /\ UNCHANGED <<futures, asked>>
      /\ UNCHANGED <<sessionVars, queueVars, approved, answers>>

\* The command has ended, or was killed after 120 s.  Only a sandboxed one can look denied, and then the
\* user is asked, unless nobody may be.
ExecEnds(t) ==
  /\ Resume(t, "exec")
  /\ \/ /\ Answered(t)
        /\ UNCHANGED <<futures, asked>>
     \/ /\ Head(todo[t]) \notin ran /\ approval_policy # "never"
        /\ Ask(t, "escalate")
  /\ UNCHANGED <<sessionVars, queueVars, approved, answers, ran>>

\* Mutant: every approval is one for the session.
Remembered_Always(c) == approved \cup {CmdOf[c]}

Remembered(c) ==
  IF futures[c] = "approved_for_session" THEN approved \cup {CmdOf[c]} ELSE approved

\* `await future' returns.  A command that was asked about first is run at once, while the loop waits.
AskAnswered(t) ==
  LET c == Head(todo[t])
      granted == futures[c] \notin Refusals
  IN  /\ Resume(t, "ask") \/ Resume(t, "escalate")
      /\ futures[c] \in Decisions
      /\ futures' = [futures EXCEPT ![c] = "absent"]
      /\ \/ /\ ~granted /\ Answered(t)
            /\ UNCHANGED <<approved, ran>>
         \/ /\ granted
            /\ approved' = Remembered(c) /\ ran' = ran \cup {c}
            /\ IF pc[t] = "ask" THEN Answered(t) ELSE Go(t, "retry")
      /\ UNCHANGED <<sessionVars, queueVars, asked, answers>>

RetryEnds(t) ==
  /\ Resume(t, "retry") /\ Answered(t)
  /\ UNCHANGED <<sessionVars, queueVars, consentVars>>

\* CancelledError; a task that never started does not see it.  The command's thread goes on.
TurnCancelled(t) ==
  /\ LoopFree /\ t \in cancelled
  /\ cancelled' = cancelled \ {t}
  /\ pc' = [pc EXCEPT ![t] = "done"] /\ todo' = [todo EXCEPT ![t] = <<>>]
  /\ futures' = IF pc[t] \in {"ask", "escalate"} THEN [futures EXCEPT ![Head(todo[t])] = "absent"] ELSE futures
  /\ UNCHANGED <<sessionVars, queueVars, made, approved, asked, answers, ran>>

\* `except Exception': the stream breaks, the arguments are no object, or the command cannot be started,
\* which may be after an answer has been remembered.
TurnError(t) ==
  /\ \/ pc[t] = "calls"
     \/ \E phase \in {"streaming", "exec", "retry"} : Resume(t, phase)
  /\ pc' = [pc EXCEPT ![t] = "done"] /\ todo' = [todo EXCEPT ![t] = <<>>]
  /\ UNCHANGED <<sessionVars, queueVars, made, cancelled, consentVars>>

\* The same for a command that is run while the loop waits.
AskedCommandFails(t) ==
  LET c == Head(todo[t])
  IN  /\ Resume(t, "ask") /\ futures[c] \in Decisions \ Refusals
      /\ futures' = [futures EXCEPT ![c] = "absent"]
      /\ approved' = Remembered(c)
      /\ pc' = [pc EXCEPT ![t] = "done"] /\ todo' = [todo EXCEPT ![t] = <<>>]
      /\ UNCHANGED <<sessionVars, queueVars, made, cancelled, asked, answers, ran>>

Turn(t) ==
  \/ TurnStart(t) \/ StreamCall(t) \/ StreamEnd(t) \/ Begin(t) \/ ExecEnds(t) \/ AskAnswered(t)
  \/ RetryEnds(t) \/ TurnCancelled(t) \/ TurnError(t) \/ AskedCommandFails(t)

Next ==
  \/ \E op \in {"UserTurn", "Interrupt", "Shutdown"} : SubmitOp(op)
  \/ \E c \in Calls, decision \in Decisions : Answer(c, decision)
  \/ LoopUserTurn \/ LoopExecApproval \/ LoopInterrupt \/ LoopShutdown
  \/ \E t \in Turns : Turn(t)

Spec == Init /\ [][Next]_vars

-----------------------------------------------------------------------------
Granted(c) == answers[c] \in {"approved", "approved_for_session"}

\* A command leaves the sandbox only by the user's word: an answer about this very call, or an earlier
\* `always' about the same command, however many turns run, ask, are interrupted and answered late
\* (_exec_with_approval, resolve_approval, assess_command_safety).  Where nobody is to be asked nobody is,
\* and then nothing leaves it.  And a question is open exactly while its turn waits for the answer.
ConsentIsTheUsers ==
  /\ \A c \in ran : Granted(c) \/ \E d \in asked : answers[d] = "approved_for_session" /\ CmdOf[d] = CmdOf[c]
  /\ approval_policy = "never" => asked = {} /\ ran = {}
  /\ \A c \in Calls : futures[c] # "absent" <=>
       \E t \in Turns : pc[t] \in {"ask", "escalate"} /\ c = Head(todo[t])
=============================================================================
