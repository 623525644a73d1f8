------------------------- MODULE HarnessProperties -------------------------
(* What is claimed of the kernel of Harness.tla.                            *)
EXTENDS Harness, Functions

\* Where the events of turn t are in the stream, and the first and the last of them.
EventsOf(t) == { i \in DOMAIN events : events[i].sub = t }
First(t, i) == \A j \in EventsOf(t) : i <= j
Last(t, i)  == \A j \in EventsOf(t) : j <= i

\* Turn t ended, and not by completing: interrupted, failed, refused by a hook,
\* or cancelled before its first step.
EndedBadly(t) ==
  /\ pc[t] = "done"
  /\ \A i \in DOMAIN events : events[i].sub = t =>
       \/ events[i].msg # "TaskComplete"
       \/ \E j \in DOMAIN events : events[j] = Ev(t, "ErrorEvent")

\* Turn t opens a request to the model in this step.
OpensRequest(t) == pc[t] # "streaming" /\ pc'[t] = "streaming"

\* Some Compact operation (not a turn's own compaction) has rebuilt history.
CompactedByHand ==
  \E i \in DOMAIN events : events[i].msg = "ContextCompacted" /\ pc[events[i].sub] = "none"

-----------------------------------------------------------------------------
(* Invariants.                                                             *)

\* At most one turn task is alive, and it is the one an interrupt would reach:
\* the submission loop never starts a second turn beside a running one, even
\* while the first is created and not started or cancelled and not yet ended.
OneTurnAtATime ==
  \A t, u \in Ids : pc[t] \in Live /\ pc[u] \in Live => t = u /\ active = t

\* pending_approvals holds a future for a call exactly while the turn is parked
\* on that call's question: no answer, interrupt or error leaves one behind.
ApprovalsMatchAsks ==
  \A c \in Calls : futures[c] # "absent" <=>
    \E t \in Ids : pc[t] \in {"ask", "askEscalate"} /\ Head(todo[t]) = c

\* Where s07 can enforce a sandbox (Seatbelt), a command runs in none only if the
\* session has full access, the user approved this very call, or approved the
\* same command for the session.  Elsewhere nothing is confined and nobody asked.
UnsandboxedOnlyByConsent ==
  \A c \in bare :
    \/ FullAccess
    \/ answers[c] \in {"approved", "approved_for_session"}
    \/ \E d \in Calls : CmdOf[d] = CmdOf[c] /\ answers[d] = "approved_for_session"

\* What the stream holds of turn t, phase by phase.
StoryOf(t) ==
  /\ pc[t] = "created" => EventsOf(t) = {}
  /\ pc[t] \in Live \ {"created"} =>
       EventsOf(t) # {} /\ \A i \in EventsOf(t) : events[i].msg \notin Terminal
  /\ pc[t] \in Live \cup {"done"} =>
       \A i \in EventsOf(t) : First(t, i) => events[i].msg = "TaskStarted"
  /\ pc[t] = "done" => \A i \in EventsOf(t) :
       /\ Last(t, i) => \/ events[i].msg \in Terminal
                        \/ EventsOf(t) = {i} /\ t \notin Range(said)
                        \/ t \in torn
       /\ events[i].msg \in Terminal /\ ~Last(t, i) =>
            \/ /\ events[i].msg = "ErrorEvent"
               /\ \E j, k \in EventsOf(t) :
                    EventsOf(t) = {j, i, k} /\ j < i /\ i < k /\ events[k].msg = "TaskComplete"
            \/ /\ t \in torn /\ events[i].msg = "TaskComplete"
               /\ \E k \in EventsOf(t) :
                    events[k].msg = "ErrorEvent" /\ \A j \in EventsOf(t) : j <= i \/ j = k

\* A turn's events are TaskStarted, its work, and one ending; the ending is
\* there exactly when the task is over, so whoever sees it may rely on it.  A
\* refused prompt has two; a task cancelled before its first step has no event,
\* and one whose prompt hook raised has no ending.  Of the many appends to the
\* rollout that may fail in a turn, three spoil this: of the prompt or of the
\* interruption's mark (no ending), of task_complete (an ErrorEvent after it).
TurnStory == \A t \in Ids : StoryOf(t)

\* A turn that completes leaves no steering message behind: if messages wait
\* and no turn runs, the last turn ended badly.
CompletionStrandsNothing == pending # <<>> /\ ~TurnRunning => EndedBadly(active)

\* Messages reach history in the order they were submitted, except that a
\* message stranded by a turn that ended badly comes after the next prompt.
SaidInOrder ==
  \A i, j \in DOMAIN said : i < j /\ said[j] # Mark /\ said[i] > said[j] =>
    /\ pc[said[i]] # "none" /\ pc[said[j]] = "none"
    /\ \E t \in Ids : EndedBadly(t) /\ t < said[i]

-----------------------------------------------------------------------------
(* Action properties.                                                      *)

\* When a request goes out, every call in history has its output and every
\* output its call, unless a turn ended badly or a Compact op rewrote history
\* before: a turn that goes well, whatever was typed meanwhile, never sends
\* the model half an exchange.
RequestsPaired ==
  [][\A t \in Ids : OpensRequest(t) =>
       \/ callItems' = outItems'
       \/ \E u \in Ids : EndedBadly(u)
       \/ CompactedByHand]_vars

\* The thread keeps the promise of module Steering.
RunningTurn == IF TurnRunning THEN active ELSE Mark
Thread == INSTANCE Steering WITH
  Messages     <- Ids,
  Marker       <- Mark,
  conversation <- said,
  waiting      <- Range(pending) \cup { t \in Ids : pc[t] = "created" },
  refused      <- { t \in Ids : pc[t] = "done" /\ t \notin Range(said) } \cup lost,
  open         <- RunningTurn

ImplementsSteering == Thread!Spec
-----------------------------------------------------------------------------
(* Liveness, under LiveSpec.                                               *)

\* Every turn that was started comes to an end, its questions answered or its
\* waits interrupted, unless the loop that delivers answers has died.
TurnsEnd == \A t \in Ids : pc[t] \in Live ~> pc[t] = "done" \/ loop = "raised"

\* A message typed while a turn runs gets to the model, in this turn (there is
\* always another request, whatever the turn was doing) unless the turn ends badly
\* or the rollout cannot be written when it is taken from the queue.
CorrectionsAreSaid ==
  \A m \in Ids : m \in Range(pending) ~>
    \/ m \in Range(said) \cup lost
    \/ m \in Range(pending) /\ ~TurnRunning /\ EndedBadly(active)

\* The loop gets round to every submission, whatever the turn is waiting for.
OpsKeepBeingHandled == submissions # <<>> ~> submissions = <<>> \/ loop = "returned"

=============================================================================
