--------------------------- MODULE HarnessProofs ---------------------------
(***************************************************************************)
(* Theorems about the kernel, for any number of submissions and calls.     *)
(*                                                                         *)
(* IndInv adds to the invariants of HarnessProperties what they rest on: a *)
(* turn that handles a call has one in hand.  From it follow the matching  *)
(* of questions and futures, and the user's consent to what runs outside   *)
(* the sandbox.  SteerInv and StoryInv do the same for the messages and    *)
(* for the events of a turn, and ItemInv for the public lines.             *)
(***************************************************************************)
EXTENDS HarnessProperties, JsonWriter, SequenceLemmas, SequenceTheorems, Functions, TLAPS

\* The phases in which the call at the head of todo is being handled.
Calling == {"dispatch", "exec", "execFull", "ask", "askEscalate", "mcp"}

CallInHand == \A t \in Ids : pc[t] \in Calling => todo[t] # <<>>

\* What OneTurnAtATime says, in the form the steps preserve.
LiveIsActive == \A t \in Ids : pc[t] \in Live => t = active

\* A turn that has taken its first step and not ended.
Begun == Live \ {"created"}

Typed == TypeOK /\ CallInHand

USE BoundsAssumption, ConfigAssumption

-----------------------------------------------------------------------------
(* Sequences.                                                              *)

LEMMA TailOfCalls ==
  ASSUME NEW s \in Seq(Calls), s # <<>>
  PROVE  Head(s) \in Calls /\ Tail(s) \in Seq(Calls)
  BY HeadTailProperties

LEMMA Said ==
  ASSUME NEW base \in Seq(0 .. MaxSubs), TypeOK
  PROVE  base \o pending \in Seq(0 .. MaxSubs)
<1>1. pending \in Seq(0 .. MaxSubs)
  BY DEF TypeOK, Ids
<1> QED BY <1>1, ConcatProperties

\* The pieces of the handlers keep the variables they change typed.
LEMMA StepBoundaryTyped ==
  ASSUME TypeOK, NEW t \in Ids, NEW base \in Seq(0 .. MaxSubs), StepBoundary(t, base)
  PROVE  /\ said' \in Seq(0 .. MaxSubs)
         /\ pending' \in Seq(Ids)
         /\ pc' \in [Ids -> Phases]
         /\ pc'[t] \in {"streaming", "compacting"}
         /\ \A u \in Ids \ {t} : pc'[u] = pc[u]
<1>1. said' \in Seq(0 .. MaxSubs)
  BY Said DEF StepBoundary
<1>2. pending' \in Seq(Ids)
  BY DEF StepBoundary
<1> QED BY <1>1, <1>2 DEF StepBoundary, Go, TypeOK, Phases, Waiting

LEMMA RecordOutputTyped ==
  ASSUME TypeOK, NEW t \in Ids, todo[t] # <<>>, RecordOutput(t)
  PROVE  /\ said' \in Seq(0 .. MaxSubs)
         /\ pending' \in Seq(Ids)
         /\ pc' \in [Ids -> Phases]
         /\ todo' \in [Ids -> Seq(Calls)]
         /\ outItems' \subseteq Calls
         /\ pc'[t] \in {"streaming", "compacting", "dispatch"}
         /\ pc'[t] = "dispatch" => todo'[t] # <<>>
         /\ \A u \in Ids \ {t} : pc'[u] = pc[u] /\ todo'[u] = todo[u]
<1>1. Head(todo[t]) \in Calls /\ Tail(todo[t]) \in Seq(Calls)
  BY TailOfCalls DEF TypeOK
<1>2. todo' \in [Ids -> Seq(Calls)] /\ outItems' \subseteq Calls
  BY <1>1 DEF RecordOutput, TypeOK
<1>3. /\ todo'[t] = Tail(todo[t])
      /\ \A u \in Ids \ {t} : todo'[u] = todo[u]
  BY DEF RecordOutput, TypeOK
<1>4. CASE Tail(todo[t]) # <<>>
  BY <1>2, <1>3, <1>4 DEF RecordOutput, Go, TypeOK, Phases
<1>5. CASE Tail(todo[t]) = <<>>
  <2>1. StepBoundary(t, said)
    BY <1>5 DEF RecordOutput
  <2>2. said \in Seq(0 .. MaxSubs)
    BY DEF TypeOK
  <2> QED BY <1>2, <1>3, <2>1, <2>2, StepBoundaryTyped
<1> QED BY <1>4, <1>5

\* Everything that is written into the event stream is an event.
LEMMA EventTyped ==
  ASSUME NEW sub \in 0 .. MaxSubs, NEW m \in Kinds, NEW c \in 0 .. MaxCalls
  PROVE  Ev(sub, m) \in Event /\ CallEv(sub, m, c) \in Event
  BY DEF Ev, CallEv, Event

LEMMA EmitTyped ==
  ASSUME TypeOK, NEW e \in Event, Emit(e), read' = read
  PROVE  events' \in Seq(Event) /\ read' \in 0 .. Len(events')
<1>1. Len(Append(events, e)) = Len(events) + 1 /\ Append(events, e) \in Seq(Event)
  BY AppendProperties DEF TypeOK
<1> QED BY <1>1, LenProperties DEF Emit, TypeOK

LEMMA Emit2Typed ==
  ASSUME TypeOK, NEW e \in Event, NEW f \in Event, Emit2(e, f), read' = read
  PROVE  events' \in Seq(Event) /\ read' \in 0 .. Len(events')
<1> DEFINE once == Append(events, e)
<1>1. Len(once) = Len(events) + 1 /\ once \in Seq(Event)
  BY AppendProperties DEF TypeOK
<1>2. Len(Append(once, f)) = Len(once) + 1 /\ Append(once, f) \in Seq(Event)
  BY <1>1, AppendProperties
<1> QED BY <1>1, <1>2, LenProperties DEF Emit2, TypeOK

-----------------------------------------------------------------------------
(* Type correctness, one lemma for each kind of step.                       *)

LEMMA ClientTyped ==
  ASSUME Typed, NEW op \in Ops, Submit(op)
  PROVE  Typed'
<1>1. [op |-> op, id |-> nextSub] \in Submission
  BY DEF Submit, Submission, Ids
<1>2. submissions' \in Seq(Submission) /\ nextSub' \in 1 .. MaxSubs + 1
  BY <1>1 DEF Submit, Typed, TypeOK, Ids
<1> QED
  BY <1>2 DEF Submit, Typed, TypeOK, CallInHand, loopVars, taskVars, convVars, execVars, uiVars, rollVars

LEMMA ReceiveTyped ==
  ASSUME Typed, NEW op, Receive(op)
  PROVE  /\ submissions' \in Seq(Submission)
         /\ nextSub' = nextSub
         /\ Head(submissions) \in Submission
         /\ op # "ExecApproval" => /\ Head(submissions).id \in Ids
                                   /\ Head(submissions).id \in 0 .. MaxSubs
         /\ op = "ExecApproval" => Head(submissions).call \in Calls
                                   /\ Head(submissions).decision \in Decisions
<1>1. Head(submissions) \in Submission /\ submissions' \in Seq(Submission)
  BY HeadTailProperties DEF Receive, Typed, TypeOK
<1>2. op # "ExecApproval" => Head(submissions).id \in Ids
  BY <1>1 DEF Receive, Submission
<1>3. op # "ExecApproval" => Head(submissions).id \in 0 .. MaxSubs
  BY <1>2 DEF Ids
<1> QED BY <1>1, <1>2, <1>3 DEF Receive, Submission

LEMMA CancelTyped ==
  ASSUME Typed, NEW t \in Ids, Cancel(t)
  PROVE  cancelled' \subseteq Ids /\ futures' \in [Calls -> FutureStates]
  BY DEF Cancel, Typed, TypeOK, FutureStates

LEMMA LoopTyped ==
  ASSUME Typed, LoopStep
  PROVE  Typed'
<1> USE DEF Typed, TypeOK, CallInHand
<1>1. CASE LoopUserTurn
  <2>1. Receive("UserTurn")
    BY <1>1 DEF LoopUserTurn
  <2> DEFINE t == Head(submissions).id
  <2>2. t \in Ids
    BY <2>1, ReceiveTyped
  <2>3. CASE pending' = Enqueued(t) /\ Emit(Ev(t, "BackgroundNotice")) /\ UNCHANGED <<active, pc>>
    <3>1. Ev(t, "BackgroundNotice") \in Event
      BY <2>2, EventTyped DEF Ids, Kinds
    <3>2. events' \in Seq(Event) /\ read' \in 0 .. Len(events') /\ pending' \in Seq(Ids)
      BY <1>1, <2>2, <2>3, <3>1, EmitTyped DEF LoopUserTurn, Enqueued, uiVars, rollVars
    <3> QED BY <1>1, <2>1, <2>3, <3>2, ReceiveTyped DEF LoopUserTurn, loopVars, execVars, uiVars, rollVars
  <2>4. CASE active' = t /\ Go(t, "created") /\ UNCHANGED <<pending, events>>
    <3>1. pc' \in [Ids -> Phases] /\ pc'[t] = "created" /\ \A u \in Ids \ {t} : pc'[u] = pc[u]
      BY <2>2, <2>4 DEF Go, Phases
    <3>2. CallInHand'
      BY <1>1, <3>1 DEF LoopUserTurn, Calling
    <3>3. active' \in 0 .. MaxSubs
      BY <2>2, <2>4 DEF Ids
    <3> HIDE DEF t
    <3> QED
      BY <1>1, <2>1, <2>4, <3>1, <3>2, <3>3, ReceiveTyped
         DEF LoopUserTurn, loopVars, execVars, uiVars, rollVars
  <2> QED BY <1>1, <2>3, <2>4 DEF LoopUserTurn
<1>2. CASE LoopExecApproval
  <2>1. Receive("ExecApproval")
    BY <1>2 DEF LoopExecApproval
  <2>2. CASE futures[Head(submissions).call] = "open"
    BY <1>2, <2>1, <2>2, ReceiveTyped
       DEF LoopExecApproval, FutureStates, loopVars, taskVars, convVars, uiVars, rollVars
  <2>3. CASE futures[Head(submissions).call] # "open"
    <3>1. Ev(0, "ErrorEvent") \in Event
      BY EventTyped DEF Kinds, Terminal
    <3>2. Emit(Ev(0, "ErrorEvent")) /\ read' = read /\ UNCHANGED futures
      BY <1>2, <2>3 DEF LoopExecApproval, uiVars, rollVars
    <3>3. events' \in Seq(Event) /\ read' \in 0 .. Len(events')
      BY <3>1, <3>2, EmitTyped
    <3> QED
      BY <1>2, <2>1, <3>2, <3>3, ReceiveTyped
         DEF LoopExecApproval, loopVars, taskVars, convVars, uiVars, rollVars
  <2> QED BY <2>2, <2>3
<1>3. CASE LoopCompact
  <2>1. Receive("Compact")
    BY <1>3 DEF LoopCompact
  <2>2. Head(submissions).id \in Ids
    BY <2>1, ReceiveTyped
  <2>3. loop' = "compact" /\ loopSub' \in 0 .. MaxSubs
    BY <1>3, <2>2 DEF LoopCompact, Ids
  <2> QED
    BY <1>3, <2>1, <2>3, ReceiveTyped DEF LoopCompact, taskVars, convVars, execVars, uiVars, rollVars
<1>4. CASE LoopInterrupt
  <2>1. Receive("Interrupt")
    BY <1>4 DEF LoopInterrupt
  <2>2. CASE TurnRunning
    <3>1. active \in Ids /\ Cancel(active)
      BY <1>4, <2>2 DEF LoopInterrupt, TurnRunning, Ids
    <3> QED
      BY <1>4, <2>1, <2>2, <3>1, ReceiveTyped, CancelTyped
         DEF LoopInterrupt, loopVars, convVars, uiVars, rollVars
  <2>3. CASE ~TurnRunning
    <3>1. Head(submissions).id \in 0 .. MaxSubs
      BY <2>1, ReceiveTyped
    <3>2. Ev(Head(submissions).id, "TurnAborted") \in Event
      BY <3>1, EventTyped DEF Kinds, Terminal
    <3>3. Emit(Ev(Head(submissions).id, "TurnAborted")) /\ read' = read
      BY <1>4, <2>3 DEF LoopInterrupt, uiVars, rollVars
    <3>4. events' \in Seq(Event) /\ read' \in 0 .. Len(events')
      BY <3>2, <3>3, EmitTyped
    <3> QED
      BY <1>4, <2>1, <2>3, <3>4, ReceiveTyped DEF LoopInterrupt, loopVars, convVars, uiVars, rollVars
  <2> QED BY <2>2, <2>3
<1>5. CASE LoopShutdown
  <2>1. Receive("Shutdown")
    BY <1>5 DEF LoopShutdown
  <2>2. Head(submissions).id \in 0 .. MaxSubs
    BY <2>1, ReceiveTyped
  <2>3. events' \in Seq(Event) /\ read' \in 0 .. Len(events')
    <3>1. Ev(Head(submissions).id, "ShutdownComplete") \in Event
      BY <2>2, EventTyped DEF Kinds
    <3>2. read' = read
      BY <1>5 DEF LoopShutdown, uiVars, rollVars
    <3>3. CASE Emit(Ev(Head(submissions).id, "ShutdownComplete"))
      BY <3>1, <3>2, <3>3, EmitTyped
    <3>4. CASE UNCHANGED events
      BY <3>2, <3>4
    <3> QED BY <1>5, <3>3, <3>4 DEF LoopShutdown
  <2>4. cancelled' \subseteq Ids /\ futures' \in [Calls -> FutureStates]
    <3>1. CASE TurnRunning
      <4>1. active \in Ids /\ Cancel(active)
        BY <1>5, <3>1 DEF LoopShutdown, TurnRunning, Ids
      <4> QED BY <4>1, CancelTyped
    <3>2. CASE ~TurnRunning
      BY <1>5, <3>2 DEF LoopShutdown
    <3> QED BY <3>1, <3>2
  <2> QED
    BY <1>5, <2>1, <2>3, <2>4, ReceiveTyped DEF LoopShutdown, convVars, uiVars, rollVars
<1>6. CASE LoopCompactDone
  <2>1. Ev(loopSub, "ContextCompacted") \in Event
    BY EventTyped DEF Kinds
  <2>2. events' \in Seq(Event) /\ read' \in 0 .. Len(events')
    BY <1>6, <2>1, EmitTyped DEF LoopCompactDone, uiVars, rollVars
  <2> QED
    BY <1>6, <2>2 DEF LoopCompactDone, RebuildHistory, queueVars, taskVars, execVars, uiVars, rollVars
<1>7. CASE LoopCompactRaises
  BY <1>7 DEF LoopCompactRaises, queueVars, taskVars, convVars, execVars, uiVars, rollVars
<1> QED BY <1>1, <1>2, <1>3, <1>4, <1>5, <1>6, <1>7 DEF LoopStep

LEMMA FrontendTyped ==
  ASSUME Typed, Render \/ \E d \in Decisions : AnswerApproval(d)
  PROVE  Typed'
<1> USE DEF Typed, TypeOK, CallInHand
<1>1. CASE Render
  <2>1. PICK i \in DOMAIN events : read' = i /\ asking' = events[i].call
    BY <1>1 DEF Render
  <2>2. i \in 0 .. Len(events) /\ events[i] \in Event
    BY <2>1
  <2>3. asking' \in 0 .. MaxCalls /\ read' \in 0 .. Len(events)
    <3>1. events[i].call \in 0 .. MaxCalls
      BY ONLY <2>2 DEF Event
    <3> QED BY <2>1, <2>2, <3>1
  <2> QED
    BY <1>1, <2>3 DEF Render, queueVars, loopVars, taskVars, convVars, execVars, rollVars
<1>2. ASSUME NEW d \in Decisions, AnswerApproval(d)
      PROVE  Typed'
  <2>1. asking \in Calls
    BY <1>2 DEF AnswerApproval, Calls
  <2>2. [op |-> "ExecApproval", call |-> asking, decision |-> d] \in Submission
    BY <2>1 DEF Submission
  <2>3. submissions' \in Seq(Submission)
    BY <1>2, <2>2 DEF AnswerApproval
  <2> QED
    BY <1>2, <2>1, <2>3 DEF AnswerApproval, loopVars, taskVars, convVars, execVars, rollVars
<1> QED BY <1>1, <1>2

\* A step that puts turn t, alone, into a phase with no call to handle.
LEMMA OutOfCall ==
  ASSUME CallInHand, NEW t \in Ids, pc'[t] \notin Calling,
         \A u \in Ids \ {t} : pc'[u] = pc[u] /\ todo'[u] = todo[u]
  PROVE  CallInHand'
  BY DEF CallInHand

\* A step that records an output leaves the next call in hand, if there is one.
LEMMA AfterOutput ==
  ASSUME Typed, NEW t \in Ids, pc[t] \in Calling, RecordOutput(t)
  PROVE  /\ said' \in Seq(0 .. MaxSubs)
         /\ pending' \in Seq(Ids)
         /\ pc' \in [Ids -> Phases]
         /\ todo' \in [Ids -> Seq(Calls)]
         /\ outItems' \subseteq Calls
         /\ CallInHand'
<1>1. TypeOK /\ todo[t] # <<>>
  BY DEF Typed, CallInHand
<1>2. /\ said' \in Seq(0 .. MaxSubs) /\ pending' \in Seq(Ids)
      /\ pc' \in [Ids -> Phases] /\ todo' \in [Ids -> Seq(Calls)]
      /\ outItems' \subseteq Calls
      /\ pc'[t] \in {"streaming", "compacting", "dispatch"}
      /\ pc'[t] = "dispatch" => todo'[t] # <<>>
      /\ \A u \in Ids \ {t} : pc'[u] = pc[u] /\ todo'[u] = todo[u]
  BY <1>1, RecordOutputTyped
<1>3. CallInHand'
  BY <1>2 DEF Typed, CallInHand, Calling
<1> QED BY <1>2, <1>3

LEMMA AskTyped ==
  ASSUME Typed, NEW t \in Ids, pc[t] \in Calling, NEW phase \in {"ask", "askEscalate"},
         Ask(t, phase), todo' = todo, read' = read
  PROVE  /\ futures' \in [Calls -> FutureStates]
         /\ events' \in Seq(Event) /\ read' \in 0 .. Len(events')
         /\ pc' \in [Ids -> Phases]
         /\ CallInHand'
<1> DEFINE c == Head(todo[t])
<1>1. TypeOK /\ todo[t] # <<>>
  BY DEF Typed, CallInHand
<1>2. c \in Calls
  BY <1>1, TailOfCalls DEF TypeOK
<1>3. futures' \in [Calls -> FutureStates]
  BY <1>1, <1>2 DEF Ask, TypeOK, FutureStates
<1>4. CallEv(t, "ExecApprovalRequest", c) \in Event
  <2>1. t \in 0 .. MaxSubs /\ c \in 0 .. MaxCalls
    BY <1>2 DEF Ids, Calls
  <2> QED BY <2>1, EventTyped DEF Kinds
<1>5. events' \in Seq(Event) /\ read' \in 0 .. Len(events')
  BY <1>1, <1>4, EmitTyped DEF Ask
<1>6. pc' \in [Ids -> Phases] /\ \A u \in Ids : pc'[u] = IF u = t THEN phase ELSE pc[u]
  BY <1>1 DEF Ask, Go, TypeOK, Phases, Waiting
<1>7. CallInHand'
  BY <1>1, <1>6 DEF Typed, CallInHand
<1> QED BY <1>3, <1>5, <1>6, <1>7

LEMMA CallEventsTyped ==
  ASSUME Typed, NEW t \in Ids, pc[t] \in Calling
  PROVE  /\ Head(todo[t]) \in Calls
         /\ Ev(t, "ErrorEvent") \in Event
         /\ \A m \in {"BeginSandboxed", "BeginUnsandboxed", "ExecCommandEnd"} :
              CallEv(t, m, Head(todo[t])) \in Event
<1>1. Head(todo[t]) \in Calls
  BY TailOfCalls DEF Typed, TypeOK, CallInHand
<1>2. t \in 0 .. MaxSubs /\ Head(todo[t]) \in 0 .. MaxCalls
  BY <1>1 DEF Ids, Calls
<1> QED BY <1>1, <1>2, EventTyped DEF Kinds, Terminal

LEMMA ConcatEvents ==
  ASSUME NEW a \in Seq(Event), NEW b \in Seq(Event)
  PROVE  a \o b \in Seq(Event) /\ Len(a \o b) = Len(a) + Len(b)
  BY ConcatProperties

LEMMA FailTyped ==
  ASSUME Typed, NEW t \in Ids, NEW before \in Seq(Event), Fail(t, before), read' = read
  PROVE  /\ events' \in Seq(Event) /\ read' \in 0 .. Len(events')
         /\ pc' \in [Ids -> Phases] /\ pc'[t] = "done"
         /\ todo' \in [Ids -> Seq(Calls)]
         /\ CallInHand'
         /\ UNCHANGED <<said, pending, outItems>>
         /\ \A u \in Ids \ {t} : pc'[u] = pc[u] /\ todo'[u] = todo[u]
<1> DEFINE ending == <<Ev(t, "ErrorEvent")>>
           longer == events \o before
<1>1. ending \in Seq(Event) /\ Len(ending) = 1
  <2>1. t \in 0 .. MaxSubs
    BY DEF Ids
  <2>2. Ev(t, "ErrorEvent") \in Event
    BY <2>1, EventTyped DEF Kinds, Terminal
  <2> QED BY <2>2
<1>2. longer \in Seq(Event) /\ Len(longer) = Len(events) + Len(before)
  BY ConcatProperties DEF Typed, TypeOK
<1>3. longer \o ending \in Seq(Event) /\ Len(longer \o ending) = Len(longer) + 1
  <2> HIDE DEF longer, ending
  <2> QED BY <1>1, <1>2, ConcatEvents
<1>4. events' = longer \o ending
  BY DEF Fail
<1>5. Len(before) \in Nat /\ Len(events) \in Nat
  BY LenProperties DEF Typed, TypeOK
<1>6. read' \in 0 .. Len(events) /\ Len(events') = Len(events) + Len(before) + 1
  <2> HIDE DEF longer, ending
  <2> QED BY <1>2, <1>3, <1>4 DEF Typed, TypeOK
<1>7. events' \in Seq(Event) /\ read' \in 0 .. Len(events')
  BY <1>3, <1>4, <1>5, <1>6
<1>8. /\ pc' \in [Ids -> Phases] /\ pc'[t] = "done"
      /\ todo' \in [Ids -> Seq(Calls)]
      /\ \A u \in Ids \ {t} : pc'[u] = pc[u] /\ todo'[u] = todo[u]
  BY EmptySeq DEF Fail, Go, Typed, TypeOK, Phases
<1>9. CallInHand'
  BY <1>8, OutOfCall DEF Typed, Calling
<1> QED BY <1>7, <1>8, <1>9 DEF Fail

LEMMA DiesTyped ==
  ASSUME Typed, NEW t \in Ids, NEW tail \in Seq(Event), Dies(t, tail), read' = read
  PROVE  /\ events' \in Seq(Event) /\ read' \in 0 .. Len(events')
         /\ pc' \in [Ids -> Phases] /\ pc'[t] = "done"
         /\ todo' \in [Ids -> Seq(Calls)]
         /\ CallInHand'
         /\ \A u \in Ids \ {t} : pc'[u] = pc[u] /\ todo'[u] = todo[u]
<1>1. events' \in Seq(Event) /\ Len(events') = Len(events) + Len(tail)
  BY ConcatEvents DEF Dies, Typed, TypeOK
<1>2. Len(tail) \in Nat /\ Len(events) \in Nat
  BY LenProperties DEF Typed, TypeOK
<1>3. read' \in 0 .. Len(events')
  BY <1>1, <1>2 DEF Typed, TypeOK
<1>4. /\ pc' \in [Ids -> Phases] /\ pc'[t] = "done"
      /\ todo' \in [Ids -> Seq(Calls)]
      /\ \A u \in Ids \ {t} : pc'[u] = pc[u] /\ todo'[u] = todo[u]
  BY EmptySeq DEF Dies, Go, Typed, TypeOK, Phases
<1>5. CallInHand'
  BY <1>4, OutOfCall DEF Typed, Calling
<1> QED BY <1>1, <1>3, <1>4, <1>5

\* The messages a broken drain has said, and those it has dropped.
LEMMA DrainTyped ==
  ASSUME TypeOK, NEW base \in Seq(0 .. MaxSubs), DrainBreaks(base)
  PROVE  said' \in Seq(0 .. MaxSubs) /\ pending' \in Seq(Ids) /\ lost' \subseteq Ids
<1>1. PICK k \in DOMAIN pending :
        /\ said' = base \o SubSeq(pending, 1, k)
        /\ lost' = lost \cup { pending[i] : i \in k + 1 .. Len(pending) }
  BY DEF DrainBreaks
<1>2. SubSeq(pending, 1, k) \in Seq(Ids)
  BY <1>1, SubSeqProperties DEF TypeOK
<1>3. SubSeq(pending, 1, k) \in Seq(0 .. MaxSubs)
  BY <1>2 DEF Ids
<1>4. said' \in Seq(0 .. MaxSubs)
  BY <1>1, <1>3, ConcatProperties
<1>5. \A i \in k + 1 .. Len(pending) : pending[i] \in Ids
  BY <1>1 DEF TypeOK
<1>6. lost' \subseteq Ids
  BY <1>1, <1>5 DEF TypeOK
<1>7. pending' \in Seq(Ids)
  BY EmptySeq DEF DrainBreaks
<1> QED BY <1>4, <1>6, <1>7

LEMMA BreakTyped ==
  ASSUME Typed, NEW t \in Ids, AppendFails(t)
  PROVE  Typed'
<1> USE DEF Typed
<1>t. t \in 0 .. MaxSubs
  BY DEF Ids
<1>r. read' = read
  BY DEF AppendFails, uiVars
<1>e. /\ Ev(t, "ErrorEvent") \in Event /\ Ev(t, "TaskStarted") \in Event
      /\ Ev(t, "TurnDiff") \in Event /\ Ev(t, "TaskComplete") \in Event
  BY <1>t, EventTyped DEF Kinds, Terminal
<1>dead. ASSUME NEW tail \in Seq(Event), Dies(t, tail),
                said' \in Seq(0 .. MaxSubs), pending' \in Seq(Ids), lost' \subseteq Ids, torn' \subseteq Ids,
                cancelled' \subseteq Ids, futures' \in [Calls -> FutureStates], approved' \subseteq Cmds,
                bare' \subseteq Calls, callItems' \subseteq Calls, outItems' \subseteq Calls,
                nextCall' \in 1 .. MaxCalls + 1, turnDiffs' \subseteq Ids
         PROVE  Typed'
  <2>1. /\ events' \in Seq(Event) /\ read' \in 0 .. Len(events')
        /\ pc' \in [Ids -> Phases] /\ todo' \in [Ids -> Seq(Calls)] /\ CallInHand'
    BY <1>dead, <1>r, DiesTyped
  <2> QED BY <1>dead, <2>1 DEF AppendFails, TypeOK, queueVars, loopVars, uiVars
<1>one. ASSUME NEW e \in Event PROVE <<e>> \in Seq(Event)
  OBVIOUS
<1>two. ASSUME NEW e \in Event, NEW f \in Event PROVE <<e, f>> \in Seq(Event)
  OBVIOUS
<1>1. CASE StartBreaks(t)
  <2>p. Append(said, t) \in Seq(0 .. MaxSubs)
    BY <1>t, AppendProperties DEF TypeOK
  <2>1. CASE Dies(t, <<Ev(t, "TaskStarted")>>) /\ said' = Append(said, t)
             /\ torn' = torn \cup {t} /\ UNCHANGED <<pending, lost>>
    BY <1>1, <1>e, <1>one, <1>dead, <2>p, <2>1 DEF StartBreaks, TypeOK, execVars
  <2>2. CASE Dies(t, <<Ev(t, "TaskStarted"), Ev(t, "ErrorEvent")>>)
             /\ DrainBreaks(Append(said, t)) /\ UNCHANGED torn
    <3>1. said' \in Seq(0 .. MaxSubs) /\ pending' \in Seq(Ids) /\ lost' \subseteq Ids
      BY <2>p, <2>2, DrainTyped
    <3> QED BY <1>1, <1>e, <1>two, <1>dead, <2>2, <3>1 DEF StartBreaks, TypeOK, execVars
  <2> QED BY <1>1, <2>1, <2>2 DEF StartBreaks
<1>2. CASE CancelBreaks(t)
  <2>1. said' \in Seq(0 .. MaxSubs)
    BY <1>2, AppendProperties DEF CancelBreaks, TypeOK, Mark
  <2>2. futures' \in [Calls -> FutureStates]
    BY <1>2 DEF CancelBreaks, WithoutFuture, TypeOK, FutureStates
  <2> QED BY <1>2, <1>dead, <2>1, <2>2, EmptySeq DEF CancelBreaks, TypeOK
<1>3. CASE StreamBreaks(t)
  <2>1. CASE /\ nextCall \in Calls
             /\ callItems' = callItems \cup {nextCall}
             /\ nextCall' = nextCall + 1
             /\ Dies(t, <<Ev(t, "ErrorEvent")>>)
             /\ UNCHANGED <<said, pending, turnDiffs, rollVars>>
    <3>1. nextCall' \in 1 .. MaxCalls + 1 /\ callItems' \subseteq Calls
      BY <2>1 DEF TypeOK, Calls
    <3> QED BY <1>3, <1>e, <1>one, <1>dead, <2>1, <3>1 DEF StreamBreaks, TypeOK, rollVars
  <2>2. CASE /\ Dies(t, (IF turnDiffs # {} THEN <<Ev(t, "TurnDiff")>> ELSE <<>>)
                           \o <<Ev(t, "TaskComplete"), Ev(t, "ErrorEvent")>>)
             /\ turnDiffs' = {}
             /\ torn' = torn \cup {t}
             /\ UNCHANGED <<said, pending, callItems, nextCall, lost>>
    <3> DEFINE diff == IF turnDiffs # {} THEN <<Ev(t, "TurnDiff")>> ELSE <<>>
               ends == <<Ev(t, "TaskComplete"), Ev(t, "ErrorEvent")>>
    <3>1. diff \in Seq(Event) /\ ends \in Seq(Event)
      BY <1>e, <1>one, <1>two, EmptySeq
    <3>2. diff \o ends \in Seq(Event) /\ Dies(t, diff \o ends)
      <4>1. Dies(t, diff \o ends)
        BY <2>2
      <4> HIDE DEF diff, ends
      <4> QED BY <3>1, <4>1, ConcatEvents
    <3> HIDE DEF diff, ends
    <3> QED BY <1>3, <1>dead, <2>2, <3>2 DEF StreamBreaks, TypeOK
  <2>3. CASE /\ Dies(t, <<Ev(t, "ErrorEvent")>>)
             /\ DrainBreaks(said)
             /\ UNCHANGED <<callItems, nextCall, turnDiffs, torn>>
    <3>1. said' \in Seq(0 .. MaxSubs) /\ pending' \in Seq(Ids) /\ lost' \subseteq Ids
      BY <2>3, DrainTyped DEF TypeOK
    <3> QED BY <1>3, <1>e, <1>one, <1>dead, <2>3, <3>1 DEF StreamBreaks, TypeOK
  <2> QED BY <1>3, <2>1, <2>2, <2>3 DEF StreamBreaks
<1>4. CASE OutputBreaks(t)
  <2> DEFINE c == Head(todo[t])
             begin == CallEv(t, "BeginUnsandboxed", c)
             end == CallEv(t, "ExecCommandEnd", c)
             error == Ev(t, "ErrorEvent")
  <2>1. pc[t] \in Calling
    BY <1>4 DEF OutputBreaks, Resume, Calling
  <2>2. c \in Calls /\ CmdOf[c] \in Cmds /\ begin \in Event /\ end \in Event /\ error \in Event
    BY <2>1, CallEventsTyped
  <2>3. said' \in Seq(0 .. MaxSubs) /\ pending' \in Seq(Ids) /\ lost' \subseteq Ids
    <3>1. CASE UNCHANGED <<said, pending, lost>>
      BY <3>1 DEF TypeOK
    <3>2. CASE DrainBreaks(said)
      BY <3>2, DrainTyped DEF TypeOK
    <3> QED BY <1>4, <3>1, <3>2 DEF OutputBreaks
  <2>4. /\ futures' \in [Calls -> FutureStates] /\ approved' \subseteq Cmds /\ bare' \subseteq Calls
        /\ turnDiffs' \subseteq Ids /\ outItems' \subseteq Calls
    BY <1>4, <2>2 DEF OutputBreaks, WithoutFuture, Remember, TypeOK, FutureStates, execVars
  <2>5. PICK tail \in Seq(Event) : Dies(t, tail)
    <3>1. <<error>> \in Seq(Event) /\ <<end, error>> \in Seq(Event) /\ <<begin, end, error>> \in Seq(Event)
      <4> HIDE DEF begin, end, error
      <4> QED BY <2>2
    <3>2. Dies(t, <<error>>) \/ Dies(t, <<end, error>>) \/ Dies(t, <<begin, end, error>>)
      BY <1>4 DEF OutputBreaks
    <3> HIDE DEF begin, end, error
    <3> QED BY <3>1, <3>2
  <2> QED BY <1>4, <1>dead, <2>3, <2>4, <2>5 DEF OutputBreaks, TypeOK
<1>5. CASE BeginBreaks(t)
  <2> DEFINE begin == CallEv(t, IF Sandboxed(Head(todo[t])) THEN "BeginSandboxed" ELSE "BeginUnsandboxed", Head(todo[t]))
  <2>1. begin \in Event
    BY <1>5, CallEventsTyped DEF BeginBreaks, Calling
  <2>2. Dies(t, <<begin, Ev(t, "ErrorEvent")>>)
    BY <1>5 DEF BeginBreaks
  <2> HIDE DEF begin
  <2>3. <<begin, Ev(t, "ErrorEvent")>> \in Seq(Event)
    BY <1>e, <2>1, <1>two
  <2> QED BY <1>5, <1>dead, <2>2, <2>3 DEF BeginBreaks, TypeOK, convVars, execVars, rollVars
<1> QED BY <1>1, <1>2, <1>3, <1>4, <1>5 DEF AppendFails

LEMMA TurnTyped ==
  ASSUME Typed, NEW t \in Ids, TurnStep(t)
  PROVE  Typed'
<1> USE DEF Typed
<1>t. t \in 0 .. MaxSubs
  BY DEF Ids
<1>1. CASE TurnStart(t)
  <2>1. /\ Ev(t, "TaskStarted") \in Event /\ Ev(t, "ErrorEvent") \in Event
        /\ Ev(t, "TaskComplete") \in Event
    BY <1>t, EventTyped DEF Kinds, Terminal
  <2>2. read' = read /\ todo' = todo
    BY <1>1 DEF TurnStart, uiVars, rollVars
  <2>3. CASE /\ events' = Append(Append(Append(events, Ev(t, "TaskStarted")), Ev(t, "ErrorEvent")),
                                  Ev(t, "TaskComplete"))
             /\ Go(t, "done")
             /\ UNCHANGED <<said, pending>>
    <3> DEFINE e1 == Append(events, Ev(t, "TaskStarted"))
               e2 == Append(e1, Ev(t, "ErrorEvent"))
               e3 == Append(e2, Ev(t, "TaskComplete"))
    <3>1. e1 \in Seq(Event) /\ Len(e1) = Len(events) + 1
      BY <2>1, AppendProperties DEF TypeOK
    <3>2. e2 \in Seq(Event) /\ Len(e2) = Len(e1) + 1
      BY <2>1, <3>1, AppendProperties
    <3>3. e3 \in Seq(Event) /\ Len(e3) = Len(e2) + 1
      BY <2>1, <3>2, AppendProperties
    <3>4. events' \in Seq(Event) /\ read' \in 0 .. Len(events')
      BY <2>2, <2>3, <3>1, <3>2, <3>3, LenProperties DEF TypeOK
    <3>5. /\ pc' \in [Ids -> Phases] /\ pc'[t] = "done"
          /\ \A u \in Ids \ {t} : pc'[u] = pc[u] /\ todo'[u] = todo[u]
      BY <2>2, <2>3 DEF Go, TypeOK, Phases
    <3>6. CallInHand'
      BY <3>5, OutOfCall DEF Calling
    <3> QED
      BY <1>1, <2>2, <2>3, <3>4, <3>5, <3>6
         DEF TurnStart, TypeOK, queueVars, loopVars, execVars, uiVars, rollVars
  <2>4. CASE Emit(Ev(t, "TaskStarted")) /\ StepBoundary(t, Append(said, t))
    <3>1. events' \in Seq(Event) /\ read' \in 0 .. Len(events')
      BY <2>1, <2>2, <2>4, EmitTyped
    <3>2. Append(said, t) \in Seq(0 .. MaxSubs)
      BY <1>t, AppendProperties DEF TypeOK
    <3>3. /\ said' \in Seq(0 .. MaxSubs) /\ pending' \in Seq(Ids)
          /\ pc' \in [Ids -> Phases] /\ pc'[t] \in {"streaming", "compacting"}
          /\ \A u \in Ids \ {t} : pc'[u] = pc[u]
      BY <2>4, <3>2, StepBoundaryTyped
    <3>4. CallInHand'
      BY <2>2, <3>3, OutOfCall DEF Calling
    <3> QED
      BY <1>1, <2>2, <3>1, <3>3, <3>4
         DEF TurnStart, TypeOK, queueVars, loopVars, execVars, uiVars, rollVars
  <2>5. CASE Emit(Ev(t, "TaskStarted")) /\ Go(t, "done") /\ UNCHANGED <<said, pending>>
    <3>1. events' \in Seq(Event) /\ read' \in 0 .. Len(events')
      BY <2>1, <2>2, <2>5, EmitTyped
    <3>2. /\ pc' \in [Ids -> Phases] /\ pc'[t] = "done"
          /\ \A u \in Ids \ {t} : pc'[u] = pc[u] /\ todo'[u] = todo[u]
      BY <2>2, <2>5 DEF Go, TypeOK, Phases
    <3>3. CallInHand'
      BY <3>2, OutOfCall DEF Calling
    <3> QED
      BY <1>1, <2>2, <2>5, <3>1, <3>2, <3>3
         DEF TurnStart, TypeOK, queueVars, loopVars, execVars, uiVars, rollVars
  <2> QED BY <1>1, <2>3, <2>4, <2>5 DEF TurnStart
<1>2. CASE TurnCompacted(t)
  <2>1. Ev(t, "ContextCompacted") \in Event
    BY <1>t, EventTyped DEF Kinds
  <2>2. events' \in Seq(Event) /\ read' \in 0 .. Len(events')
    BY <1>2, <2>1, EmitTyped DEF TurnCompacted, uiVars, rollVars
  <2>3. /\ pc' \in [Ids -> Phases] /\ pc'[t] = "streaming"
        /\ \A u \in Ids \ {t} : pc'[u] = pc[u] /\ todo'[u] = todo[u]
    BY <1>2 DEF TurnCompacted, Go, TypeOK, Phases, Waiting
  <2>4. CallInHand'
    BY <2>3, OutOfCall DEF Calling
  <2> QED
    BY <1>2, <2>2, <2>3, <2>4
       DEF TurnCompacted, RebuildHistory, TypeOK, queueVars, loopVars, execVars, uiVars, rollVars
<1>3. CASE StreamCall(t)
  <2>1. todo' \in [Ids -> Seq(Calls)] /\ \A u \in Ids \ {t} : todo'[u] = todo[u]
    BY <1>3, AppendProperties DEF StreamCall, TypeOK
  <2>2. pc' = pc /\ pc[t] \notin Calling
    BY <1>3 DEF StreamCall, Resume, Calling
  <2>3. CallInHand'
    BY <2>1, <2>2, OutOfCall
  <2>4. nextCall' \in 1 .. MaxCalls + 1 /\ callItems' \subseteq Calls
    BY <1>3 DEF StreamCall, TypeOK, Calls
  <2> QED
    BY <1>3, <2>1, <2>3, <2>4 DEF StreamCall, TypeOK, queueVars, loopVars, execVars, uiVars, rollVars
<1>4. CASE StreamEnd(t)
  <2>1. read' = read /\ todo' = todo
    BY <1>4 DEF StreamEnd, uiVars, rollVars
  <2>2. CASE todo[t] # <<>> /\ Go(t, "dispatch") /\ UNCHANGED <<said, pending, turnDiffs, events>>
    <3>1. pc' \in [Ids -> Phases] /\ CallInHand'
      BY <2>1, <2>2 DEF Go, TypeOK, CallInHand, Phases
    <3> QED
      BY <1>4, <2>1, <2>2, <3>1 DEF StreamEnd, TypeOK, queueVars, loopVars, uiVars, rollVars
  <2>3. CASE StepBoundary(t, said) /\ UNCHANGED <<turnDiffs, events>>
    <3>1. /\ said' \in Seq(0 .. MaxSubs) /\ pending' \in Seq(Ids)
          /\ pc' \in [Ids -> Phases] /\ pc'[t] \in {"streaming", "compacting"}
          /\ \A u \in Ids \ {t} : pc'[u] = pc[u]
      BY <2>3, StepBoundaryTyped DEF TypeOK
    <3>2. CallInHand'
      BY <2>1, <3>1, OutOfCall DEF Calling
    <3> QED
      BY <1>4, <2>1, <2>3, <3>1, <3>2 DEF StreamEnd, TypeOK, queueVars, loopVars, uiVars, rollVars
  <2>4. CASE /\ IF turnDiffs # {}
                THEN Emit2(Ev(t, "TurnDiff"), Ev(t, "TaskComplete"))
                ELSE Emit(Ev(t, "TaskComplete"))
             /\ turnDiffs' = {}
             /\ Go(t, "done")
             /\ UNCHANGED <<said, pending>>
    <3>1. Ev(t, "TurnDiff") \in Event /\ Ev(t, "TaskComplete") \in Event
      BY <1>t, EventTyped DEF Kinds, Terminal
    <3>2. events' \in Seq(Event) /\ read' \in 0 .. Len(events')
      BY <2>1, <2>4, <3>1, EmitTyped, Emit2Typed
    <3>3. /\ pc' \in [Ids -> Phases] /\ pc'[t] = "done"
          /\ \A u \in Ids \ {t} : pc'[u] = pc[u] /\ todo'[u] = todo[u]
      BY <2>1, <2>4 DEF Go, TypeOK, Phases
    <3>4. CallInHand'
      BY <3>3, OutOfCall DEF Calling
    <3> QED
      BY <1>4, <2>1, <2>4, <3>2, <3>3, <3>4 DEF StreamEnd, TypeOK, queueVars, loopVars, uiVars, rollVars
  <2> QED BY <1>4, <2>2, <2>3, <2>4 DEF StreamEnd
<1>5. CASE TurnCancelled(t)
  <2>1. /\ pc' \in [Ids -> Phases] /\ pc'[t] = "done"
        /\ \A u \in Ids \ {t} : pc'[u] = pc[u] /\ todo'[u] = todo[u]
        /\ todo' \in [Ids -> Seq(Calls)]
    BY <1>5, EmptySeq DEF TurnCancelled, Go, TypeOK, Phases
  <2>2. CallInHand'
    BY <2>1, OutOfCall DEF Calling
  <2>3. read' = read
    BY <1>5 DEF TurnCancelled, uiVars, rollVars
  <2>4. CASE pc[t] = "created" /\ UNCHANGED <<said, futures, events>>
    BY <1>5, <2>1, <2>2, <2>3, <2>4 DEF TurnCancelled, TypeOK, queueVars, loopVars, uiVars, rollVars
  <2>5. CASE /\ pc[t] \in Waiting
             /\ said' = Append(said, Mark)
             /\ Emit(Ev(t, "TurnAborted"))
             /\ futures' = IF pc[t] \in {"ask", "askEscalate"}
                           THEN WithoutFuture(Head(todo[t])) ELSE futures
    <3>1. Ev(t, "TurnAborted") \in Event
      BY <1>t, EventTyped DEF Kinds, Terminal
    <3>2. events' \in Seq(Event) /\ read' \in 0 .. Len(events')
      BY <2>3, <2>5, <3>1, EmitTyped
    <3>3. said' \in Seq(0 .. MaxSubs)
      BY <2>5, AppendProperties DEF TypeOK, Mark
    <3>4. futures' \in [Calls -> FutureStates]
      BY <2>5 DEF WithoutFuture, TypeOK, FutureStates
    <3> QED
      BY <1>5, <2>1, <2>2, <3>2, <3>3, <3>4
         DEF TurnCancelled, TypeOK, queueVars, loopVars, uiVars, rollVars
  <2> QED BY <1>5, <2>4, <2>5 DEF TurnCancelled
<1>6. CASE TurnError(t)
  <2>1. read' = read /\ turnDiffs' \subseteq Ids
    BY <1>6 DEF TurnError, TypeOK, uiVars, rollVars
  <2>2. PICK before \in Seq(Event) : Fail(t, before)
    <3>1. CASE Fail(t, <<>>)
      BY <3>1, EmptySeq
    <3>2. CASE pc[t] \in {"exec", "execFull"} /\ Fail(t, <<CallEv(t, "ExecCommandEnd", Head(todo[t]))>>)
      <4>1. CallEv(t, "ExecCommandEnd", Head(todo[t])) \in Event
        BY <3>2, CallEventsTyped DEF Calling
      <4>2. <<CallEv(t, "ExecCommandEnd", Head(todo[t]))>> \in Seq(Event)
        BY <4>1
      <4> QED BY <3>2, <4>2
    <3> QED BY <1>6, <3>1, <3>2 DEF TurnError
  <2>3. /\ events' \in Seq(Event) /\ read' \in 0 .. Len(events')
        /\ pc' \in [Ids -> Phases] /\ todo' \in [Ids -> Seq(Calls)]
        /\ CallInHand' /\ UNCHANGED <<said, pending, outItems>>
    BY <2>1, <2>2, FailTyped
  <2> QED
    BY <1>6, <2>1, <2>3 DEF TurnError, TypeOK, queueVars, loopVars, uiVars, rollVars
<1>7. CASE DispatchInline(t)
  <2>1. pc[t] \in Calling /\ RecordOutput(t)
    BY <1>7 DEF DispatchInline, Calling
  <2>2. turnDiffs' \subseteq Ids
    BY <1>7 DEF DispatchInline, TypeOK
  <2> QED
    BY <1>7, <2>1, <2>2, AfterOutput DEF DispatchInline, TypeOK, queueVars, loopVars, uiVars, rollVars
<1>8. CASE DispatchMcp(t)
  <2>1. pc' \in [Ids -> Phases] /\ CallInHand'
    BY <1>8 DEF DispatchMcp, Go, TypeOK, Phases, Waiting, CallInHand, Calling
  <2> QED
    BY <1>8, <2>1 DEF DispatchMcp, TypeOK, queueVars, loopVars, convVars, execVars, uiVars, rollVars
<1>9. CASE McpDone(t)
  <2>1. pc[t] \in Calling /\ RecordOutput(t)
    BY <1>9 DEF McpDone, Resume, Calling
  <2> QED
    BY <1>9, <2>1, AfterOutput DEF McpDone, TypeOK, queueVars, loopVars, execVars, uiVars, rollVars
<1>10. CASE DispatchExec(t)
  <2> DEFINE c == Head(todo[t])
             begin == IF Sandboxed(c) THEN "BeginSandboxed" ELSE "BeginUnsandboxed"
  <2>1. pc[t] \in Calling /\ todo' = todo /\ read' = read
    BY <1>10 DEF DispatchExec, Calling, uiVars, rollVars
  <2>b. bare' \subseteq Calls
    BY <1>10, <2>1, CallEventsTyped DEF DispatchExec, TypeOK
  <2>2. CASE Ask(t, "ask")
    <3>1. /\ futures' \in [Calls -> FutureStates]
          /\ events' \in Seq(Event) /\ read' \in 0 .. Len(events')
          /\ pc' \in [Ids -> Phases] /\ CallInHand'
      BY <2>1, <2>2, AskTyped
    <3> QED
      BY <1>10, <2>1, <2>b, <3>1 DEF DispatchExec, TypeOK, queueVars, loopVars, convVars, uiVars, rollVars
  <2>3. CASE /\ Emit(CallEv(t, begin, c))
             /\ Go(t, "exec") \/ Go(t, "execFull")
             /\ UNCHANGED futures
    <3>1. CallEv(t, begin, c) \in Event
      BY <2>1, CallEventsTyped
    <3>2. events' \in Seq(Event) /\ read' \in 0 .. Len(events')
      BY <2>1, <2>3, <3>1, EmitTyped
    <3>3. pc' \in [Ids -> Phases] /\ CallInHand'
      BY <2>1, <2>3 DEF Go, TypeOK, Phases, Waiting, CallInHand
    <3> QED
      BY <1>10, <2>1, <2>b, <2>3, <3>2, <3>3 DEF DispatchExec, TypeOK, queueVars, loopVars, convVars, uiVars, rollVars
  <2> QED BY <1>10, <2>2, <2>3 DEF DispatchExec
<1>11. CASE ExecDone(t)
  <2>1. pc[t] \in Calling /\ RecordOutput(t) /\ read' = read
    BY <1>11 DEF ExecDone, Resume, Calling, uiVars, rollVars
  <2>2. events' \in Seq(Event) /\ read' \in 0 .. Len(events')
    BY <1>11, <2>1, CallEventsTyped, EmitTyped DEF ExecDone
  <2> QED
    BY <1>11, <2>1, <2>2, AfterOutput DEF ExecDone, TypeOK, queueVars, loopVars, execVars, uiVars, rollVars
<1>12. CASE ExecDenied(t)
  <2>1. pc[t] \in Calling /\ read' = read
    BY <1>12 DEF ExecDenied, Resume, Calling, uiVars, rollVars
  <2>2. CASE /\ Emit(CallEv(t, "ExecCommandEnd", Head(todo[t])))
             /\ RecordOutput(t)
             /\ UNCHANGED futures
    <3>1. events' \in Seq(Event) /\ read' \in 0 .. Len(events')
      BY <2>1, <2>2, CallEventsTyped, EmitTyped
    <3> QED
      BY <1>12, <2>1, <2>2, <3>1, AfterOutput DEF ExecDenied, TypeOK, queueVars, loopVars, uiVars, rollVars
  <2>3. CASE Ask(t, "askEscalate") /\ UNCHANGED <<todo, said, pending, outItems>>
    <3>1. /\ futures' \in [Calls -> FutureStates]
          /\ events' \in Seq(Event) /\ read' \in 0 .. Len(events')
          /\ pc' \in [Ids -> Phases] /\ CallInHand'
      BY <2>1, <2>3, AskTyped
    <3> QED
      BY <1>12, <2>3, <3>1 DEF ExecDenied, TypeOK, queueVars, loopVars, uiVars, rollVars
  <2> QED BY <1>12, <2>2, <2>3 DEF ExecDenied
<1>13. CASE Decided(t)
  <2> DEFINE c     == Head(todo[t])
             begin == CallEv(t, "BeginUnsandboxed", c)
             end   == CallEv(t, "ExecCommandEnd", c)
  <2>1. pc[t] \in Calling /\ read' = read
    BY <1>13 DEF Decided, Resume, Calling, uiVars, rollVars
  <2>2. c \in Calls /\ CmdOf[c] \in Cmds /\ begin \in Event /\ end \in Event
    BY <2>1, CallEventsTyped
  <2>3. futures' \in [Calls -> FutureStates]
    BY <1>13 DEF Decided, WithoutFuture, TypeOK, FutureStates
  <2>4. approved' \subseteq Cmds /\ bare' \subseteq Calls
    BY <1>13, <2>2 DEF Decided, Remember, TypeOK
  <2>5. CASE RecordOutput(t) /\ (UNCHANGED events \/ Emit2(begin, end))
    <3>1. events' \in Seq(Event) /\ read' \in 0 .. Len(events')
      <4> HIDE DEF begin, end
      <4> QED BY <2>1, <2>2, <2>5, Emit2Typed DEF TypeOK
    <3> QED
      BY <1>13, <2>1, <2>3, <2>4, <2>5, <3>1, AfterOutput
         DEF Decided, TypeOK, queueVars, loopVars, uiVars, rollVars
  <2>6. ASSUME NEW before \in Seq(Event), Fail(t, before)
        PROVE  Typed'
    <3>1. /\ events' \in Seq(Event) /\ read' \in 0 .. Len(events')
          /\ pc' \in [Ids -> Phases] /\ todo' \in [Ids -> Seq(Calls)]
          /\ CallInHand' /\ UNCHANGED <<said, pending, outItems>>
      BY <2>1, <2>6, FailTyped
    <3> QED
      BY <1>13, <2>3, <2>4, <3>1 DEF Decided, TypeOK, queueVars, loopVars, uiVars, rollVars
  <2>7. <<>> \in Seq(Event) /\ <<begin>> \in Seq(Event) /\ <<begin, end>> \in Seq(Event)
    <3> HIDE DEF begin, end
    <3> QED BY <2>2
  <2>8. \/ RecordOutput(t) /\ (UNCHANGED events \/ Emit2(begin, end))
        \/ Fail(t, <<>>) \/ Fail(t, <<begin>>) \/ Fail(t, <<begin, end>>)
    BY <1>13 DEF Decided
  <2> HIDE DEF begin, end
  <2> QED BY <2>5, <2>6, <2>7, <2>8
<1> QED
  BY <1>1, <1>2, <1>3, <1>4, <1>5, <1>6, <1>7, <1>8, <1>9, <1>10, <1>11, <1>12, <1>13, BreakTyped
     DEF TurnStep

LEMMA InitTyped == Init => Typed
<1> SUFFICES ASSUME Init PROVE Typed
  OBVIOUS
<1>1. TypeOK
  BY EmptySeq DEF Init, TypeOK, Phases, FutureStates, Ids, Calls
<1> QED BY <1>1 DEF Init, Typed, CallInHand, Calling

LEMMA NextTyped == Typed /\ [Next]_vars => Typed'
<1> SUFFICES ASSUME Typed, [Next]_vars PROVE Typed'
  OBVIOUS
<1>1. CASE UNCHANGED vars
  BY <1>1 DEF vars, queueVars, loopVars, taskVars, convVars, execVars, uiVars, rollVars, Typed, TypeOK, CallInHand
<1>2. CASE Next
  BY <1>2, ClientTyped, LoopTyped, TurnTyped, FrontendTyped DEF Next
<1> QED BY <1>1, <1>2

\* Every variable keeps its type, and no phase that handles a call is entered
\* without one (Head of an empty list would be an IndexError).
THEOREM TypeCorrect == Spec => []TypeOK
<1>1. Typed => TypeOK
  BY DEF Typed
<1> QED BY InitTyped, NextTyped, <1>1, PTL DEF Spec

-----------------------------------------------------------------------------
(* One turn at a time, and futures for exactly the questions asked.        *)

Asking == {"ask", "askEscalate"}

IndInv == Typed /\ LiveIsActive /\ ApprovalsMatchAsks

\* A turn that an append kills is done with, and nobody else is.
LEMMA BreakFrame ==
  ASSUME Typed, NEW t \in Ids, AppendFails(t)
  PROVE  /\ active' = active
         /\ pc[t] \in Live /\ pc'[t] = "done" /\ todo'[t] = <<>>
         /\ \A u \in Ids \ {t} : pc'[u] = pc[u] /\ todo'[u] = todo[u]
         /\ UNCHANGED <<queueVars, loopVars, uiVars>>
<1>1. \E tail : Dies(t, tail)
  BY DEF AppendFails, StartBreaks, CancelBreaks, StreamBreaks, OutputBreaks, BeginBreaks
<1>2. pc[t] \in Live
  BY DEF AppendFails, StartBreaks, CancelBreaks, StreamBreaks, OutputBreaks, BeginBreaks, Resume, Live, Waiting
<1> QED BY <1>1, <1>2 DEF AppendFails, Dies, Go, Typed, TypeOK

\* A step of turn t is a step of a live turn, and touches no other turn.
LEMMA TurnFrame ==
  ASSUME Typed, NEW t \in Ids, TurnStep(t)
  PROVE  /\ active' = active
         /\ pc[t] \in Live
         /\ \A u \in Ids \ {t} : pc'[u] = pc[u] /\ todo'[u] = todo[u]
<1> DEFINE Frame == /\ active' = active
                    /\ pc[t] \in Live
                    /\ \A u \in Ids \ {t} : pc'[u] = pc[u] /\ todo'[u] = todo[u]
<1>typed. TypeOK /\ (pc[t] \in Calling => todo[t] # <<>>)
  BY DEF Typed, CallInHand
<1>out. ASSUME pc[t] \in Calling, RecordOutput(t)
        PROVE  \A u \in Ids \ {t} : pc'[u] = pc[u] /\ todo'[u] = todo[u]
  BY <1>out, <1>typed, RecordOutputTyped
<1>fail. ASSUME NEW before, Fail(t, before)
         PROVE  pc'[t] = "done" /\ \A u \in Ids \ {t} : pc'[u] = pc[u] /\ todo'[u] = todo[u]
  BY <1>fail, <1>typed DEF Fail, Go, TypeOK
<1>1. CASE TurnStart(t)
  BY <1>1, <1>typed DEF TurnStart, Resume, StepBoundary, Go, TypeOK, Live
<1>2. CASE TurnCompacted(t)
  BY <1>2, <1>typed DEF TurnCompacted, Resume, Go, TypeOK, Live, Waiting
<1>3. CASE StreamCall(t)
  BY <1>3, <1>typed DEF StreamCall, Resume, TypeOK, Live, Waiting
<1>4. CASE StreamEnd(t)
  BY <1>4, <1>typed DEF StreamEnd, Resume, StepBoundary, Go, TypeOK, Live, Waiting
<1>5. CASE TurnCancelled(t)
  BY <1>5, <1>typed DEF TurnCancelled, Go, TypeOK, Live
<1>6. CASE TurnError(t)
  BY <1>6, <1>fail DEF TurnError, Resume, Live, Waiting
<1>7. CASE DispatchInline(t)
  BY <1>7, <1>out DEF DispatchInline, Calling, Live
<1>8. CASE DispatchMcp(t)
  BY <1>8, <1>typed DEF DispatchMcp, Go, TypeOK, Live
<1>9. CASE McpDone(t)
  BY <1>9, <1>out DEF McpDone, Resume, Calling, Live, Waiting
<1>10. CASE DispatchExec(t)
  BY <1>10, <1>typed DEF DispatchExec, Ask, Go, TypeOK, Live
<1>11. CASE ExecDone(t)
  BY <1>11, <1>out DEF ExecDone, Resume, Calling, Live, Waiting
<1>12. CASE ExecDenied(t)
  BY <1>12, <1>out, <1>typed DEF ExecDenied, Ask, Go, TypeOK, Resume, Calling, Live, Waiting
<1>13. CASE Decided(t)
  <2>1. active' = active /\ pc[t] \in Live /\ pc[t] \in Calling
    BY <1>13 DEF Decided, Resume, Calling, Live, Waiting
  <2>2. CASE RecordOutput(t)
    BY <2>1, <2>2, <1>out
  <2>3. ASSUME NEW before, Fail(t, before)
        PROVE  Frame
    BY <2>1, <2>3, <1>fail
  <2> QED BY <1>13, <2>2, <2>1, <2>3 DEF Decided
<1> QED
  BY <1>1, <1>2, <1>3, <1>4, <1>5, <1>6, <1>7, <1>8, <1>9, <1>10, <1>11, <1>12, <1>13, BreakFrame
     DEF TurnStep

\* The submission loop starts a turn only when none is live.
LEMMA LiveStep ==
  ASSUME Typed, LiveIsActive, [Next]_vars
  PROVE  LiveIsActive'
<1>1. CASE active' = active /\ pc' = pc
  BY <1>1 DEF LiveIsActive
<1>2. CASE LoopUserTurn /\ ~TurnRunning
  <2> DEFINE t == Head(submissions).id
  <2>1. t \in Ids
    BY <1>2, ReceiveTyped DEF LoopUserTurn
  <2>2. active' = t /\ pc' = [pc EXCEPT ![t] = "created"]
    BY <1>2 DEF LoopUserTurn, Go
  <2>3. \A u \in Ids : pc[u] \notin Live
    BY <1>2 DEF LiveIsActive, TurnRunning, Live, Waiting, Ids
  <2> QED BY <2>1, <2>2, <2>3 DEF LiveIsActive, Typed, TypeOK
<1>3. ASSUME NEW t \in Ids, TurnStep(t)
      PROVE  LiveIsActive'
  BY <1>3, TurnFrame DEF LiveIsActive
<1>4. CASE UNCHANGED vars
  BY <1>1, <1>4 DEF vars, taskVars
<1>5. CASE \E op \in Ops : Submit(op)
  BY <1>1, <1>5 DEF Submit, taskVars
<1>6. CASE Render \/ \E d \in Decisions : AnswerApproval(d)
  BY <1>1, <1>6 DEF Render, AnswerApproval, taskVars
<1>7. CASE LoopStep
  BY <1>1, <1>2, <1>7
     DEF LoopStep, LoopUserTurn, LoopExecApproval, LoopInterrupt, LoopShutdown, LoopCompact,
         LoopCompactDone, LoopCompactRaises, taskVars
<1> QED BY <1>3, <1>4, <1>5, <1>6, <1>7 DEF Next

\* A live turn that is not asking: no future is open, for no turn is asking.
LEMMA NobodyAsks ==
  ASSUME LiveIsActive, ApprovalsMatchAsks, NEW t \in Ids, pc[t] \in Live \ Asking
  PROVE  /\ \A u \in Ids : pc[u] \notin Asking
         /\ \A c \in Calls : futures[c] = "absent"
  BY DEF LiveIsActive, ApprovalsMatchAsks, Live, Waiting, Asking

\* A step of turn t after which neither it nor any future is waiting.
LEMMA NoQuestionAfter ==
  ASSUME LiveIsActive, NEW t \in Ids, pc[t] \in Live, pc'[t] \notin Asking,
         \A u \in Ids \ {t} : pc'[u] = pc[u],
         \A c \in Calls : futures'[c] = "absent"
  PROVE  ApprovalsMatchAsks'
  BY DEF LiveIsActive, ApprovalsMatchAsks, Live, Waiting, Asking

\* A step that asks about the call in hand.
LEMMA AskMatches ==
  ASSUME Typed, LiveIsActive, ApprovalsMatchAsks, NEW t \in Ids, pc[t] \in Calling \ Asking,
         NEW phase \in Asking, Ask(t, phase), todo' = todo
  PROVE  ApprovalsMatchAsks'
<1> DEFINE c == Head(todo[t])
<1>1. c \in Calls
  BY TailOfCalls DEF Typed, TypeOK, CallInHand
<1>2. /\ \A u \in Ids : pc[u] \notin Asking
      /\ \A d \in Calls : futures[d] = "absent"
  BY NobodyAsks DEF Calling, Live, Waiting
<1>3. \A u \in Ids : pc'[u] = IF u = t THEN phase ELSE pc[u]
  BY DEF Ask, Go, Typed, TypeOK
<1>4. \A d \in Calls : futures'[d] = IF d = c THEN "open" ELSE "absent"
  BY <1>1, <1>2 DEF Ask, Typed, TypeOK
<1> HIDE DEF c
<1>5. \A d \in Calls : (\E u \in Ids : pc'[u] \in Asking /\ Head(todo'[u]) = d) <=> d = c
  BY <1>2, <1>3 DEF c
<1> QED BY <1>4, <1>5 DEF ApprovalsMatchAsks, Asking

\* A step that takes the question of turn t out of pending_approvals and ends
\* the wait for it.
LEMMA AnswerMatches ==
  ASSUME Typed, LiveIsActive, ApprovalsMatchAsks, NEW t \in Ids, pc[t] \in Asking,
         futures' = WithoutFuture(Head(todo[t])), pc'[t] \notin Asking,
         \A u \in Ids \ {t} : pc'[u] = pc[u]
  PROVE  ApprovalsMatchAsks'
<1>1. \A u \in Ids : pc[u] \in Asking => u = t
  BY DEF LiveIsActive, Live, Waiting, Asking
<1>2. \A d \in Calls : d # Head(todo[t]) => futures[d] = "absent"
  BY <1>1 DEF ApprovalsMatchAsks, Asking
<1>3. \A d \in Calls : futures'[d] = "absent"
  BY <1>2 DEF WithoutFuture, Typed, TypeOK
<1>4. pc[t] \in Live
  BY DEF Asking, Live, Waiting
<1> QED BY <1>3, <1>4, NoQuestionAfter

LEMMA ApprovalsTurn ==
  ASSUME Typed, LiveIsActive, ApprovalsMatchAsks, NEW t \in Ids, TurnStep(t)
  PROVE  ApprovalsMatchAsks'
<1>frame. pc[t] \in Live /\ \A u \in Ids \ {t} : pc'[u] = pc[u] /\ todo'[u] = todo[u]
  BY TurnFrame
<1>out. ASSUME pc[t] \in Calling, RecordOutput(t)
        PROVE  pc'[t] \notin Asking
  <2>1. TypeOK /\ todo[t] # <<>>
    BY <1>out DEF Typed, CallInHand
  <2> QED BY <1>out, <2>1, RecordOutputTyped DEF Asking
<1>fail. ASSUME NEW before, Fail(t, before)
         PROVE  pc'[t] \notin Asking
  BY <1>fail DEF Fail, Go, Typed, TypeOK, Asking
<1>quiet. ASSUME pc[t] \notin Asking, pc'[t] \notin Asking, futures' = futures
          PROVE  ApprovalsMatchAsks'
  BY <1>quiet, <1>frame, NobodyAsks, NoQuestionAfter
<1>1. CASE TurnStart(t)
  BY <1>1, <1>quiet
     DEF TurnStart, Resume, StepBoundary, Go, Typed, TypeOK, Asking, execVars
<1>2. CASE TurnCompacted(t)
  BY <1>2, <1>quiet DEF TurnCompacted, Resume, Go, Typed, TypeOK, Asking, execVars
<1>3. CASE StreamCall(t)
  BY <1>3, <1>quiet DEF StreamCall, Resume, Asking, execVars
<1>4. CASE StreamEnd(t)
  BY <1>4, <1>quiet DEF StreamEnd, Resume, StepBoundary, Go, Typed, TypeOK, Asking
<1>5. CASE TurnCancelled(t)
  <2>1. pc'[t] = "done"
    BY <1>5 DEF TurnCancelled, Go, Typed, TypeOK
  <2>2. CASE pc[t] \in Asking
    BY <1>5, <1>frame, <2>1, <2>2, AnswerMatches DEF TurnCancelled, Asking
  <2>3. CASE pc[t] \notin Asking
    BY <1>5, <1>quiet, <2>1, <2>3 DEF TurnCancelled, Asking
  <2> QED BY <2>2, <2>3
<1>6. CASE TurnError(t)
  BY <1>6, <1>quiet, <1>fail DEF TurnError, Resume, Asking
<1>7. CASE DispatchInline(t)
  BY <1>7, <1>quiet, <1>out DEF DispatchInline, Asking, Calling
<1>8. CASE DispatchMcp(t)
  BY <1>8, <1>quiet DEF DispatchMcp, Go, Typed, TypeOK, Asking, execVars
<1>9. CASE McpDone(t)
  BY <1>9, <1>quiet, <1>out DEF McpDone, Resume, Asking, Calling, execVars
<1>10. CASE DispatchExec(t)
  <2>1. pc[t] \in Calling \ Asking /\ todo' = todo
    BY <1>10 DEF DispatchExec, Calling, Asking
  <2>2. CASE Ask(t, "ask")
    BY <2>1, <2>2, AskMatches DEF Asking
  <2>3. CASE /\ Go(t, "exec") \/ Go(t, "execFull")
             /\ UNCHANGED futures
    BY <2>1, <2>3, <1>quiet DEF Go, Typed, TypeOK, Asking
  <2> QED BY <1>10, <2>2, <2>3 DEF DispatchExec
<1>11. CASE ExecDone(t)
  BY <1>11, <1>quiet, <1>out DEF ExecDone, Resume, Asking, Calling, execVars
<1>12. CASE ExecDenied(t)
  <2>1. pc[t] \in Calling \ Asking
    BY <1>12 DEF ExecDenied, Resume, Calling, Asking
  <2>2. CASE RecordOutput(t) /\ UNCHANGED futures
    BY <2>1, <2>2, <1>quiet, <1>out
  <2>3. CASE Ask(t, "askEscalate") /\ todo' = todo
    BY <2>1, <2>3, AskMatches DEF Asking
  <2> QED BY <1>12, <2>2, <2>3 DEF ExecDenied
<1>13. CASE Decided(t)
  <2>1. pc[t] \in Asking /\ pc[t] \in Calling /\ futures' = WithoutFuture(Head(todo[t]))
    BY <1>13 DEF Decided, Resume, Asking, Calling
  <2>2. pc'[t] \notin Asking
    BY <1>13, <2>1, <1>out, <1>fail DEF Decided
  <2> QED BY <2>1, <2>2, <1>frame, AnswerMatches
<1>14. CASE AppendFails(t)
  <2>1. pc'[t] \notin Asking
    BY <1>14, BreakFrame DEF Asking
  <2>2. CASE pc[t] \in Asking
    <3>1. futures' = WithoutFuture(Head(todo[t]))
      BY <1>14, <2>2
         DEF AppendFails, StartBreaks, CancelBreaks, StreamBreaks, OutputBreaks, BeginBreaks, Resume, Asking
    <3> QED BY <1>frame, <2>1, <2>2, <3>1, AnswerMatches
  <2>3. CASE pc[t] \notin Asking
    <3>1. futures' = futures
      BY <1>14, <2>3
         DEF AppendFails, StartBreaks, CancelBreaks, StreamBreaks, OutputBreaks, BeginBreaks, Resume, Asking,
             execVars
    <3> QED BY <1>quiet, <2>1, <2>3, <3>1
  <2> QED BY <2>2, <2>3
<1> QED
  BY <1>1, <1>2, <1>3, <1>4, <1>5, <1>6, <1>7, <1>8, <1>9, <1>10, <1>11, <1>12, <1>13, <1>14
     DEF TurnStep

LEMMA ApprovalsStep ==
  ASSUME Typed, LiveIsActive, ApprovalsMatchAsks, [Next]_vars
  PROVE  ApprovalsMatchAsks'
\* What the loop and the client may do to futures: settle them, never add or drop one.
<1>1. ASSUME UNCHANGED <<pc, todo>>,
             \A c \in Calls : futures'[c] = "absent" <=> futures[c] = "absent"
      PROVE  ApprovalsMatchAsks'
  BY <1>1 DEF ApprovalsMatchAsks
<1>2. CASE LoopUserTurn
  <2>1. futures' = futures /\ todo' = todo
    BY <1>2 DEF LoopUserTurn, execVars
  <2>2. CASE pc' = pc
    BY <1>1, <2>1, <2>2
  <2>3. CASE ~TurnRunning /\ Go(Head(submissions).id, "created")
    <3> DEFINE t == Head(submissions).id
    <3>1. t \in Ids
      BY <1>2, ReceiveTyped DEF LoopUserTurn
    <3>2. \A u \in Ids : pc[u] \notin Asking
      BY <2>3 DEF LiveIsActive, TurnRunning, Live, Waiting, Asking, Ids
    <3>3. \A u \in Ids : pc'[u] \notin Asking
      BY <2>3, <3>1, <3>2 DEF Go, Typed, TypeOK, Asking
    <3> QED BY <2>1, <3>2, <3>3 DEF ApprovalsMatchAsks, Asking
  <2> QED BY <1>2, <2>2, <2>3 DEF LoopUserTurn
<1>3. CASE LoopExecApproval
  <2>1. UNCHANGED <<pc, todo>>
    BY <1>3 DEF LoopExecApproval, taskVars
  <2>2. Head(submissions).call \in Calls /\ Head(submissions).decision \in Decisions
    BY <1>3, ReceiveTyped DEF LoopExecApproval
  <2>3. \A c \in Calls : futures'[c] = "absent" <=> futures[c] = "absent"
    BY <1>3, <2>2 DEF LoopExecApproval, Decisions, Typed, TypeOK
  <2> QED BY <1>1, <2>1, <2>3
<1>4. CASE LoopInterrupt \/ LoopShutdown
  <2>1. UNCHANGED <<pc, todo>>
    BY <1>4 DEF LoopInterrupt, LoopShutdown
  <2>2. \A c \in Calls : futures'[c] = "absent" <=> futures[c] = "absent"
    BY <1>4 DEF LoopInterrupt, LoopShutdown, Cancel
  <2> QED BY <1>1, <2>1, <2>2
<1>5. CASE LoopCompact \/ LoopCompactDone \/ LoopCompactRaises
  BY <1>1, <1>5 DEF LoopCompact, LoopCompactDone, LoopCompactRaises, taskVars, execVars
<1>6. CASE Render \/ (\E d \in Decisions : AnswerApproval(d)) \/ \E op \in Ops : Submit(op)
  BY <1>1, <1>6 DEF Render, AnswerApproval, Submit, taskVars, execVars
<1>7. CASE UNCHANGED vars
  BY <1>1, <1>7 DEF vars, taskVars, execVars
<1>8. ASSUME NEW t \in Ids, TurnStep(t)
      PROVE  ApprovalsMatchAsks'
  BY <1>8, ApprovalsTurn
<1> QED BY <1>2, <1>3, <1>4, <1>5, <1>6, <1>7, <1>8 DEF Next, LoopStep

THEOREM Inductive == Spec => []IndInv
<1>1. Init => IndInv
  BY InitTyped DEF Init, IndInv, LiveIsActive, Live, Waiting, ApprovalsMatchAsks
<1>2. IndInv /\ [Next]_vars => IndInv'
  BY NextTyped, LiveStep, ApprovalsStep DEF IndInv
<1> QED BY <1>1, <1>2, PTL DEF Spec

\* The submission loop never runs two turns at once, and the one it can cancel
\* is the one that is alive.
THEOREM OneTurn == Spec => []OneTurnAtATime
<1>1. IndInv => OneTurnAtATime
  BY DEF IndInv, LiveIsActive, OneTurnAtATime
<1> QED BY Inductive, <1>1, PTL

\* A future is in pending_approvals exactly while the turn waits for it: every
\* path out of the wait, an interrupt included, removes it.
THEOREM ApprovalsMatch == Spec => []ApprovalsMatchAsks
<1>1. IndInv => ApprovalsMatchAsks
  BY DEF IndInv
<1> QED BY Inductive, <1>1, PTL

-----------------------------------------------------------------------------
(* Consent.  The property reads the answers; the code reads futures, queued *)
(* ops and approved_commands.  ConsentInv says that these hold what was     *)
(* answered (UsersWord), and that an answer stays: each call is asked about *)
(* at most once, and its question is answered at most once.                 *)

IsQuestion(e) == e.msg = "ExecApprovalRequest"

\* The calls that have been asked about.
Asked == { events[i].call : i \in { j \in DOMAIN events : IsQuestion(events[j]) } }

\* The calls in hand are a working turn's, no two are one, and only the one the turn is parked on has been asked about.
CallsOnce ==
  \A t \in Ids : \A i \in DOMAIN todo[t] :
    /\ pc[t] \in Begun
    /\ todo[t][i] < nextCall
    /\ \A j \in DOMAIN todo[t] : todo[t][i] = todo[t][j] => i = j
    /\ todo[t][i] \in Asked => i = 1 /\ pc[t] \in Asking

AskedOnce ==
  /\ \A c \in Calls : c \in Asked => c < nextCall
  /\ \A c \in Calls : answers[c] # "none" \/ asking = c => c \in Asked
  /\ \A i, j \in DOMAIN events :
       IsQuestion(events[i]) /\ IsQuestion(events[j]) /\ events[i].call = events[j].call => i = j
  /\ \A i \in DOMAIN events : IsQuestion(events[i]) => events[i].call \in Calls

\* A question that is on the screen, or not yet read, has no answer.
Unanswered ==
  /\ \A c \in Calls : asking = c => answers[c] = "none"
  /\ \A i \in DOMAIN events : i > read /\ IsQuestion(events[i]) =>
       answers[events[i].call] = "none" /\ events[i].call # asking

\* Futures, queued ops and remembered commands carry what the user answered.
UsersWord ==
  /\ \A c \in Calls : futures[c] \in Decisions => answers[c] = futures[c]
  /\ \A i \in DOMAIN submissions : submissions[i].op = "ExecApproval" =>
       answers[submissions[i].call] = submissions[i].decision
  /\ \A cmd \in approved : \E c \in Calls : CmdOf[c] = cmd /\ answers[c] = "approved_for_session"


Consented(c) ==
  \/ FullAccess
  \/ answers[c] \in {"approved", "approved_for_session"}
  \/ \E d \in Calls : CmdOf[d] = CmdOf[c] /\ answers[d] = "approved_for_session"

\* Without a sandbox to enforce, commands run bare and nobody is asked.
RunsConsented == \A c \in bare : Seatbelt => Consented(c)

Questions  == AskedOnce /\ Unanswered
ConsentInv == IndInv /\ CallsOnce /\ Questions /\ UsersWord /\ RunsConsented

-----------------------------------------------------------------------------
(* What a step adds to the event stream.                                   *)

\* The stream is longer by events of that set.
Adds(set) ==
  /\ Len(events') >= Len(events)
  /\ \A i \in DOMAIN events : i \in DOMAIN events' /\ events'[i] = events[i]
  /\ \A i \in DOMAIN events' : i \in DOMAIN events \/ (i > Len(events) /\ events'[i] \in set)

Unasked == { e \in Event : ~IsQuestion(e) }

LEMMA Wider ==
  ASSUME NEW STATE a, NEW STATE b, a \subseteq b, Adds(a)
  PROVE  Adds(b)
  BY DEF Adds

LEMMA AddsNothing ==
  ASSUME TypeOK, events' = events, NEW STATE set
  PROVE  Adds(set)
  BY DEF Adds, TypeOK

LEMMA AddsMany ==
  ASSUME TypeOK, NEW STATE set, NEW s \in Seq(Event), events' = events \o s, \A j \in DOMAIN s : s[j] \in set
  PROVE  Adds(set)
<1>0. events \in Seq(Event)
  BY DEF TypeOK
<1>1. /\ Len(events) \in Nat /\ Len(s) \in Nat
      /\ DOMAIN events = 1 .. Len(events) /\ DOMAIN s = 1 .. Len(s)
  BY <1>0, LenProperties
<1>2. /\ events' \in Seq(Event) /\ Len(events') = Len(events) + Len(s)
      /\ \A i \in 1 .. Len(events) + Len(s) :
           events'[i] = IF i <= Len(events) THEN events[i] ELSE s[i - Len(events)]
  BY <1>0, ConcatProperties
<1>3. DOMAIN events' = 1 .. Len(events) + Len(s)
  BY <1>2, LenProperties
<1>4. ASSUME NEW i \in DOMAIN events', i \notin DOMAIN events
      PROVE  i > Len(events) /\ events'[i] \in set
  <2>1. i > Len(events) /\ i - Len(events) \in 1 .. Len(s)
    BY <1>1, <1>3, <1>4
  <2> QED BY <1>1, <1>2, <1>3, <2>1
<1> QED BY <1>1, <1>2, <1>3, <1>4 DEF Adds

LEMMA AddsOne ==
  ASSUME TypeOK, NEW STATE set, NEW e \in Event, Emit(e), e \in set
  PROVE  Adds(set)
<1>1. events' = events \o <<e>> /\ <<e>> \in Seq(Event)
  BY AppendIsConcat DEF Emit, TypeOK
<1>2. \A j \in DOMAIN <<e>> : <<e>>[j] \in set
  OBVIOUS
<1> QED BY <1>1, <1>2, AddsMany

LEMMA AddsTwo ==
  ASSUME TypeOK, NEW STATE set, NEW e \in Event, NEW f \in Event, Emit2(e, f), e \in set, f \in set
  PROVE  Adds(set)
<1> DEFINE once == Append(events, e)
<1>0. events \in Seq(Event) /\ once \in Seq(Event)
  BY AppendProperties DEF TypeOK
<1>1. events' = (events \o <<e>>) \o <<f>>
  <2>1. once = events \o <<e>> /\ Append(once, f) = once \o <<f>>
    BY <1>0, AppendIsConcat
  <2> QED BY <2>1 DEF Emit2
<1> DEFINE two == <<e>> \o <<f>>
<1>2. (events \o <<e>>) \o <<f>> = events \o two
  BY <1>0, ConcatAssociative
<1>3. <<e>> \in Seq(Event) /\ <<f>> \in Seq(Event) /\ Len(<<e>>) = 1 /\ Len(<<f>>) = 1
  OBVIOUS
<1>4. two \in Seq(Event) /\ \A j \in DOMAIN two : two[j] \in set
  <2>1. two \in Seq(Event) /\ DOMAIN two = 1 .. 2 /\ \A j \in 1 .. 2 : two[j] = IF j <= 1 THEN e ELSE f
    BY <1>3, ConcatProperties, LenProperties
  <2> QED BY <2>1
<1> HIDE DEF two
<1> QED BY <1>1, <1>2, <1>3, <1>4, AddsMany

LEMMA AddsFailure ==
  ASSUME Typed, NEW t \in Ids, NEW STATE set, NEW before \in Seq(Event), Fail(t, before),
         Ev(t, "ErrorEvent") \in set, \A j \in DOMAIN before : before[j] \in set
  PROVE  Adds(set)
<1> DEFINE e == Ev(t, "ErrorEvent")
<1>1. e \in Event
  <2>1. t \in 0 .. MaxSubs
    BY DEF Ids
  <2> QED BY <2>1, EventTyped DEF Kinds, Terminal
<1>2. events \in Seq(Event) /\ events' = (events \o before) \o <<e>>
  BY DEF Fail, Typed, TypeOK
<1> HIDE DEF e
<1>3. events' = events \o (before \o <<e>>) /\ before \o <<e>> = Append(before, e)
  BY <1>1, <1>2, ConcatAssociative, AppendIsConcat
<1>4. /\ Append(before, e) \in Seq(Event) /\ DOMAIN before = 1 .. Len(before) /\ Len(before) \in Nat
      /\ DOMAIN Append(before, e) = 1 .. Len(before) + 1
      /\ \A j \in 1 .. Len(before) + 1 : Append(before, e)[j] = IF j <= Len(before) THEN before[j] ELSE e
  BY <1>1, AppendProperties, LenProperties
<1>5. \A j \in DOMAIN Append(before, e) : Append(before, e)[j] \in set
  BY <1>4 DEF e
<1> QED BY <1>3, <1>4, <1>5, AddsMany DEF Typed

-----------------------------------------------------------------------------
(* What the kinds of steps preserve.                                       *)

LEMMA SameQuestions ==
  ASSUME Adds(Unasked)
  PROVE  /\ Asked' = Asked
         /\ \A i \in DOMAIN events' : IsQuestion(events'[i]) => i \in DOMAIN events /\ events'[i] = events[i]
<1>1. \A i \in DOMAIN events' : IsQuestion(events'[i]) => i \in DOMAIN events /\ events'[i] = events[i]
  BY DEF Adds, Unasked
<1>2. Asked' \subseteq Asked
  BY <1>1 DEF Asked
<1>3. Asked \subseteq Asked'
  BY DEF Asked, Adds
<1> QED BY <1>1, <1>2, <1>3

\* A step that asks nothing and answers nothing.
LEMMA NothingAsked ==
  ASSUME Typed, Typed', Questions, Adds(Unasked), UNCHANGED <<read, asking, answers>>, nextCall' >= nextCall
  PROVE  Questions'
<1>1. /\ Asked' = Asked
      /\ \A i \in DOMAIN events' : IsQuestion(events'[i]) => i \in DOMAIN events /\ events'[i] = events[i]
  BY SameQuestions
<1>2. AskedOnce'
  <2>1. \A c \in Calls : c \in Asked' => c < nextCall'
    <3>1. nextCall \in Nat /\ nextCall' \in Nat /\ Calls \subseteq Nat
      <4>1. nextCall \in 1 .. MaxCalls + 1
        BY DEF Typed, TypeOK
      <4>2. nextCall' \in 1 .. MaxCalls + 1
        BY DEF Typed, TypeOK
      <4> QED BY <4>1, <4>2 DEF Calls
    <3>2. \A c \in Calls : c \in Asked' => c < nextCall
      BY <1>1 DEF Questions, AskedOnce
    <3> QED BY <3>1, <3>2
  <2>2. \A c \in Calls : answers'[c] # "none" \/ asking' = c => c \in Asked'
    BY <1>1 DEF Questions, AskedOnce
  <2>3. \A i, j \in DOMAIN events' :
          IsQuestion(events'[i]) /\ IsQuestion(events'[j]) /\ events'[i].call = events'[j].call => i = j
    BY <1>1 DEF Questions, AskedOnce
  <2>4. \A i \in DOMAIN events' : IsQuestion(events'[i]) => events'[i].call \in Calls
    BY <1>1 DEF Questions, AskedOnce
  <2> QED BY <2>1, <2>2, <2>3, <2>4 DEF AskedOnce
<1>3. Unanswered'
  BY <1>1 DEF Questions, Unanswered
<1> QED BY <1>2, <1>3 DEF Questions

\* A step that runs nothing outside the sandbox without consent, and takes no answer back.
LEMMA ConsentStays ==
  ASSUME TypeOK, RunsConsented, \A c \in bare' \ bare : Seatbelt => Consented(c),
         bare' \subseteq Calls,
         \A c \in Calls : answers[c] # "none" => answers'[c] = answers[c]
  PROVE  RunsConsented'
<1>1. ASSUME NEW c \in bare', Seatbelt
      PROVE  Consented(c) /\ c \in Calls
  BY <1>1 DEF RunsConsented
<1>2. ASSUME NEW c \in Calls, Consented(c)
      PROVE  Consented(c)'
  BY <1>2 DEF Consented
<1> QED BY <1>1, <1>2 DEF RunsConsented

\* The calls of the other turns stay as they are; turn t drops all of its own, or some, or goes on with them.
LEMMA CallsStay ==
  ASSUME Typed, Typed', CallsOnce, NEW t \in Ids,
         Asked' \subseteq Asked,
         nextCall' >= nextCall,
         \A u \in Ids \ {t} : pc'[u] = pc[u] /\ todo'[u] = todo[u],
         \/ todo'[t] = <<>>
         \/ todo[t] # <<>> /\ todo'[t] = Tail(todo[t]) /\ pc'[t] \in Begun
         \/ todo'[t] = todo[t] /\ pc'[t] \in Begun /\ (pc[t] \in Asking => pc'[t] \in Asking)
  PROVE  CallsOnce'
<1>0. nextCall \in Nat /\ nextCall' \in Nat /\ \A u \in Ids : todo[u] \in Seq(Calls)
  BY DEF Typed, TypeOK
<1> SUFFICES ASSUME NEW u \in Ids, NEW i \in DOMAIN todo'[u]
             PROVE  /\ pc'[u] \in Begun
                    /\ todo'[u][i] < nextCall'
                    /\ \A j \in DOMAIN todo'[u] : todo'[u][i] = todo'[u][j] => i = j
                    /\ todo'[u][i] \in Asked' => i = 1 /\ pc'[u] \in Asking
  BY DEF CallsOnce
<1>1. CASE todo'[u] = todo[u] /\ pc'[u] \in Begun /\ (pc[u] \in Asking => pc'[u] \in Asking)
  <2>1. todo[u][i] \in Nat
    BY <1>0, <1>1 DEF Calls
  <2>2. todo'[u][i] \in Asked' => todo[u][i] \in Asked
    BY <1>1
  <2> QED BY <1>0, <1>1, <2>1, <2>2 DEF CallsOnce
<1>2. CASE todo[u] # <<>> /\ todo'[u] = Tail(todo[u]) /\ pc'[u] \in Begun
  <2>1. /\ DOMAIN todo[u] = 1 .. Len(todo[u]) /\ Len(todo[u]) \in Nat
        /\ DOMAIN todo'[u] = 1 .. Len(todo[u]) - 1
        /\ \A j \in DOMAIN todo'[u] : todo'[u][j] = todo[u][j + 1]
    BY <1>0, <1>2, HeadTailProperties, LenProperties
  <2>2. i + 1 \in DOMAIN todo[u] /\ i + 1 # 1 /\ todo'[u][i] = todo[u][i + 1] /\ todo[u][i + 1] \in Nat
    <3>1. i + 1 \in DOMAIN todo[u] /\ i + 1 # 1 /\ todo'[u][i] = todo[u][i + 1]
      BY <2>1
    <3>2. todo[u][i + 1] \in Calls
      BY <1>0, <2>1, <3>1
    <3> QED BY <3>1, <3>2 DEF Calls
  <2>3. todo[u][i + 1] < nextCall /\ todo[u][i + 1] \notin Asked
    BY <2>2 DEF CallsOnce
  <2>4. todo'[u][i] \notin Asked'
    BY <2>2, <2>3
  <2>5. ASSUME NEW j \in DOMAIN todo'[u], todo'[u][i] = todo'[u][j]
        PROVE  i = j
    <3>1. j + 1 \in DOMAIN todo[u] /\ todo[u][i + 1] = todo[u][j + 1]
      BY <2>1, <2>2, <2>5
    <3>2. i + 1 = j + 1
      BY <2>2, <3>1 DEF CallsOnce
    <3> QED BY <2>1, <3>2
  <2> QED BY <1>0, <1>2, <2>2, <2>3, <2>4, <2>5
<1>3. CASE todo'[u] = <<>>
  BY <1>3
<1>4. CASE u # t
  <2>1. todo'[u] = todo[u] /\ pc'[u] = pc[u]
    BY <1>4
  <2>2. pc[u] \in Begun
    BY <2>1 DEF CallsOnce
  <2> QED BY <1>1, <2>1, <2>2
<1> QED BY <1>1, <1>2, <1>3, <1>4

\* A step that changes no calls and asks nothing.
LEMMA CallsUntouched ==
  ASSUME Typed, CallsOnce, Adds(Unasked), UNCHANGED <<pc, todo, nextCall>>
  PROVE  CallsOnce'
  BY SameQuestions DEF CallsOnce

-----------------------------------------------------------------------------
(* The steps.                                                              *)

\* What the answers stand behind, as long as they stay: nothing is settled, queued or remembered but by them.
LEMMA WordStays ==
  ASSUME Typed, UsersWord, answers' = answers, submissions' = submissions,
         \A c \in Calls : futures'[c] \in Decisions => futures'[c] = futures[c],
         \A cmd \in approved' \ approved :
           \E c \in Calls : CmdOf[c] = cmd /\ answers[c] = "approved_for_session"
  PROVE  UsersWord'
  BY DEF UsersWord

LEMMA CallsAreNumbers ==
  ASSUME TypeOK, NEW u \in Ids, NEW i \in DOMAIN todo[u]
  PROVE  todo[u][i] \in Calls /\ todo[u][i] \in Nat
<1>1. todo[u] \in Seq(Calls)
  BY DEF TypeOK
<1>2. todo[u][i] \in Calls
  BY <1>1
<1> QED BY <1>2 DEF Calls

LEMMA NewCall ==
  ASSUME ConsentInv, NEW t \in Ids, StreamCall(t)
  PROVE  CallsOnce'
<1> DEFINE longer == Append(todo[t], nextCall)
<1>0. /\ todo[t] \in Seq(Calls) /\ nextCall \in Calls /\ nextCall \in Nat /\ Calls \subseteq Nat
      /\ pc[t] = "streaming" /\ pc' = pc /\ nextCall' = nextCall + 1 /\ Asked' = Asked
      /\ \A u \in Ids : todo'[u] = IF u = t THEN longer ELSE todo[u]
  BY DEF StreamCall, Resume, ConsentInv, IndInv, Typed, TypeOK, Calls, Asked
<1>1. nextCall \notin Asked
  BY <1>0 DEF ConsentInv, Questions, AskedOnce
<1>2. /\ DOMAIN todo[t] = 1 .. Len(todo[t]) /\ Len(todo[t]) \in Nat
      /\ DOMAIN longer = 1 .. Len(todo[t]) + 1
      /\ \A i \in 1 .. Len(todo[t]) + 1 : longer[i] = IF i <= Len(todo[t]) THEN todo[t][i] ELSE nextCall
  BY <1>0, AppendProperties, LenProperties
<1>3. \A i \in 1 .. Len(todo[t]) : /\ todo[t][i] \in Nat /\ todo[t][i] < nextCall /\ todo[t][i] \notin Asked
                                  /\ \A j \in 1 .. Len(todo[t]) : todo[t][i] = todo[t][j] => i = j
  <2>1. ASSUME NEW i \in DOMAIN todo[t]
        PROVE  /\ todo[t][i] < nextCall /\ todo[t][i] \notin Asked
               /\ \A j \in DOMAIN todo[t] : todo[t][i] = todo[t][j] => i = j
    BY <1>0 DEF ConsentInv, CallsOnce, Asking
  <2>2. \A i \in DOMAIN todo[t] : todo[t][i] \in Nat
    BY CallsAreNumbers DEF ConsentInv, IndInv, Typed
  <2> QED BY <1>2, <2>1, <2>2
<1> HIDE DEF longer
<1>4. \A i \in DOMAIN longer : /\ longer[i] < nextCall' /\ longer[i] \notin Asked
                              /\ \A j \in DOMAIN longer : longer[i] = longer[j] => i = j
  BY <1>0, <1>1, <1>2, <1>3
<1>5. ASSUME NEW u \in Ids \ {t}, NEW i \in DOMAIN todo[u]
      PROVE  /\ pc[u] \in Begun /\ todo[u][i] < nextCall'
             /\ \A j \in DOMAIN todo[u] : todo[u][i] = todo[u][j] => i = j
             /\ todo[u][i] \in Asked => i = 1 /\ pc[u] \in Asking
  <2>1. todo[u][i] \in Nat
    BY CallsAreNumbers DEF ConsentInv, IndInv, Typed
  <2> QED BY <1>0, <2>1 DEF ConsentInv, CallsOnce
<1> QED BY <1>0, <1>4, <1>5 DEF CallsOnce, Begun, Live, Waiting

\* A question about the call in hand, which nobody has asked about yet.
LEMMA NewQuestion ==
  ASSUME ConsentInv, Typed', NEW t \in Ids, pc[t] \in Calling \ Asking, NEW phase \in Asking, Ask(t, phase),
         UNCHANGED <<todo, nextCall, read, asking, answers>>
  PROVE  CallsOnce' /\ Questions'
<1> DEFINE c == Head(todo[t])
           e == CallEv(t, "ExecApprovalRequest", c)
<1>0. Typed /\ TypeOK /\ todo[t] # <<>> /\ todo[t] \in Seq(Calls)
  BY DEF ConsentInv, IndInv, Typed, TypeOK, CallInHand, Calling
<1>1. /\ c \in Calls /\ c = todo[t][1] /\ 1 \in DOMAIN todo[t]
      /\ c \notin Asked /\ c < nextCall /\ pc[t] \in Live
  <2>1. c \in Calls /\ c = todo[t][1] /\ 1 \in DOMAIN todo[t]
    BY <1>0, HeadTailProperties, LenProperties, EmptySeq
  <2> QED BY <2>1 DEF ConsentInv, CallsOnce, Begun
<1>2. answers[c] = "none" /\ asking # c
  BY <1>1 DEF ConsentInv, Questions, AskedOnce
<1>3. e \in Event /\ e.call = c /\ IsQuestion(e)
  <2>1. t \in 0 .. MaxSubs /\ c \in 0 .. MaxCalls
    BY <1>1 DEF Ids, Calls
  <2> QED BY <2>1, EventTyped DEF Kinds, CallEv, IsQuestion
<1> HIDE DEF e, c
<1>4. /\ DOMAIN events = 1 .. Len(events) /\ Len(events) \in Nat
      /\ DOMAIN events' = 1 .. Len(events) + 1
      /\ \A i \in 1 .. Len(events) : events'[i] = events[i]
      /\ events'[Len(events) + 1] = e
  <2>1. events' = Append(events, e) /\ events \in Seq(Event)
    BY <1>0 DEF Ask, Emit, TypeOK, e, c
  <2> QED BY <1>3, <2>1, AppendProperties, LenProperties
<1>5. Asked' = Asked \cup {c}
  BY <1>3, <1>4 DEF Asked
<1>6. \A u \in Ids : pc'[u] = IF u = t THEN phase ELSE pc[u]
  BY <1>0 DEF Ask, Go, TypeOK
<1>7. \A u \in Ids \ {t} : todo[u] = <<>>
  <2>1. \A u \in Ids \ {t} : pc[u] \notin Live
    BY <1>1 DEF ConsentInv, IndInv, LiveIsActive
  <2>2. \A u \in Ids : todo[u] \in Seq(Calls)
    BY <1>0 DEF TypeOK
  <2>3. ASSUME NEW u \in Ids \ {t}, todo[u] # <<>>
        PROVE  FALSE
    <3>1. 1 \in DOMAIN todo[u]
      BY <2>2, <2>3, LenProperties, EmptySeq
    <3> QED BY <2>1, <3>1 DEF ConsentInv, CallsOnce, Begun
  <2> QED BY <2>3
<1>8. CallsOnce'
  <2>1. ASSUME NEW i \in DOMAIN todo[t]
        PROVE  /\ todo[t][i] < nextCall
               /\ \A j \in DOMAIN todo[t] : todo[t][i] = todo[t][j] => i = j
               /\ todo[t][i] \in Asked \cup {c} => i = 1
    BY <1>1 DEF ConsentInv, CallsOnce
  <2> QED BY <1>5, <1>6, <1>7, <2>1 DEF CallsOnce, Asking, Begun, Live, Waiting
<1>9. AskedOnce'
  <2>1. \A i \in DOMAIN events : IsQuestion(events[i]) => events[i].call # c
    BY <1>1 DEF Asked
  <2> QED BY <1>1, <1>2, <1>3, <1>4, <1>5, <2>1 DEF ConsentInv, Questions, AskedOnce
<1>10. Unanswered'
  BY <1>1, <1>2, <1>3, <1>4 DEF ConsentInv, Questions, Unanswered
<1> QED BY <1>8, <1>9, <1>10 DEF Questions

\* The frontend turns to the next question.
LEMMA QuestionShown ==
  ASSUME ConsentInv, Render
  PROVE  Questions'
<1>1. PICK i \in DOMAIN events : i > read /\ IsQuestion(events[i]) /\ read' = i /\ asking' = events[i].call
  BY DEF Render, NextQuestion, IsQuestion
<1>2. events' = events /\ answers' = answers /\ nextCall' = nextCall /\ Asked' = Asked
  BY DEF Render, convVars, Asked
<1>3. events[i].call \in Asked
  BY <1>1 DEF Asked
<1>4. DOMAIN events = 1 .. Len(events) /\ Len(events) \in Nat /\ read \in Nat
  BY LenProperties DEF ConsentInv, IndInv, Typed, TypeOK
<1>5. AskedOnce'
  BY <1>1, <1>2, <1>3 DEF ConsentInv, Questions, AskedOnce
<1>6. Unanswered'
  <2>1. \A c \in Calls : asking' = c => answers'[c] = "none"
    BY <1>1, <1>2 DEF ConsentInv, Questions, Unanswered
  <2>2. ASSUME NEW j \in DOMAIN events, j > i, IsQuestion(events[j])
        PROVE  answers[events[j].call] = "none" /\ events[j].call # events[i].call
    <3>1. j > read /\ j # i
      BY <1>1, <1>4, <2>2
    <3> QED BY <1>1, <2>2, <3>1 DEF ConsentInv, Questions, Unanswered, AskedOnce
  <2> QED BY <1>1, <1>2, <2>1, <2>2 DEF Unanswered
<1> QED BY <1>5, <1>6 DEF Questions

\* The user answers: the first answer about this call, which nothing could have relied on.
LEMMA QuestionAnswered ==
  ASSUME ConsentInv, NEW d \in Decisions, AnswerApproval(d)
  PROVE  Questions' /\ UsersWord' /\ RunsConsented'
<1>0. TypeOK /\ asking \in Calls /\ answers[asking] = "none" /\ asking \in Asked
  BY DEF AnswerApproval, ConsentInv, IndInv, Typed, TypeOK, Calls, Questions, Unanswered, AskedOnce
<1>1. /\ \A c \in Calls : answers'[c] = IF c = asking THEN d ELSE answers[c]
      /\ asking' = 0 /\ 0 \notin Calls
      /\ events' = events /\ read' = read /\ nextCall' = nextCall /\ futures' = futures /\ approved' = approved
      /\ bare' = bare /\ Asked' = Asked
  BY <1>0 DEF AnswerApproval, TypeOK, convVars, execVars, Asked, Calls
<1>2. \A c \in Calls : answers[c] # "none" => answers'[c] = answers[c]
  BY <1>0, <1>1
<1>3. AskedOnce'
  BY <1>0, <1>1 DEF ConsentInv, Questions, AskedOnce
<1>4. Unanswered'
  BY <1>1 DEF ConsentInv, Questions, Unanswered, AskedOnce
<1>5. RunsConsented'
  BY <1>0, <1>1, <1>2, ConsentStays DEF ConsentInv, TypeOK
<1>6. UsersWord'
  <2> DEFINE op == [op |-> "ExecApproval", call |-> asking, decision |-> d]
  <2>1. \A c \in Calls : futures'[c] \in Decisions => answers'[c] = futures'[c]
    BY <1>1, <1>2 DEF ConsentInv, UsersWord, Decisions
  <2>2. \A cmd \in approved' : \E c \in Calls : CmdOf[c] = cmd /\ answers'[c] = "approved_for_session"
    BY <1>1, <1>2 DEF ConsentInv, UsersWord
  <2>3. submissions \in Seq(Submission) /\ op \in Submission /\ submissions' = Append(submissions, op)
    BY <1>0 DEF TypeOK, Submission, AnswerApproval
  <2> HIDE DEF op
  <2>4. /\ DOMAIN submissions = 1 .. Len(submissions) /\ Len(submissions) \in Nat
        /\ DOMAIN submissions' = 1 .. Len(submissions) + 1
        /\ \A i \in 1 .. Len(submissions) + 1 :
             submissions'[i] = IF i <= Len(submissions) THEN submissions[i] ELSE op
    BY <2>3, AppendProperties, LenProperties
  <2>5. ASSUME NEW i \in DOMAIN submissions', submissions'[i].op = "ExecApproval"
        PROVE  answers'[submissions'[i].call] = submissions'[i].decision
    <3>1. CASE i \in DOMAIN submissions
      <4>1. submissions'[i] = submissions[i] /\ submissions[i] \in Submission
        BY <2>3, <2>4, <3>1
      <4>2. submissions[i].call \in Calls /\ submissions[i].decision \in Decisions
        BY <2>5, <4>1 DEF Submission
      <4>3. answers[submissions[i].call] = submissions[i].decision
        BY <2>5, <3>1, <4>1 DEF ConsentInv, UsersWord
      <4> QED BY <1>2, <4>1, <4>2, <4>3 DEF Decisions
    <3>2. CASE i \notin DOMAIN submissions
      <4>1. submissions'[i] = op
        BY <2>4, <3>2
      <4> QED BY <1>0, <1>1, <4>1 DEF op
    <3> QED BY <3>1, <3>2
  <2> QED BY <2>1, <2>2, <2>5 DEF UsersWord
<1> QED BY <1>3, <1>4, <1>5, <1>6 DEF Questions

\* An op leaves the queue; those behind it stand as they stood.
LEMMA Dequeued ==
  ASSUME ConsentInv, NEW op, Receive(op), answers' = answers, approved' = approved,
         \A c \in Calls : futures'[c] \in Decisions => answers[c] = futures'[c]
  PROVE  UsersWord'
<1>1. submissions \in Seq(Submission) /\ submissions # <<>> /\ submissions' = Tail(submissions)
  BY DEF Receive, ConsentInv, IndInv, Typed, TypeOK
<1>2. /\ DOMAIN submissions = 1 .. Len(submissions) /\ Len(submissions) \in Nat
      /\ DOMAIN submissions' = 1 .. Len(submissions) - 1
      /\ \A i \in DOMAIN submissions' : submissions'[i] = submissions[i + 1]
  BY <1>1, HeadTailProperties, LenProperties
<1>3. \A i \in DOMAIN submissions' : i + 1 \in DOMAIN submissions
  BY <1>2
<1> QED BY <1>2, <1>3 DEF ConsentInv, UsersWord

LEMMA SubmittedConsent ==
  ASSUME ConsentInv, NEW op \in Ops, Submit(op)
  PROVE  UsersWord'
<1> DEFINE new == [op |-> op, id |-> nextSub]
<1>1. /\ submissions \in Seq(Submission) /\ new \in Submission /\ submissions' = Append(submissions, new)
      /\ new.op # "ExecApproval"
  BY DEF Submit, ConsentInv, IndInv, Typed, TypeOK, Submission, Ids
<1> HIDE DEF new
<1>2. /\ DOMAIN submissions = 1 .. Len(submissions) /\ Len(submissions) \in Nat
      /\ DOMAIN submissions' = 1 .. Len(submissions) + 1
      /\ \A i \in 1 .. Len(submissions) + 1 :
           submissions'[i] = IF i <= Len(submissions) THEN submissions[i] ELSE new
  BY <1>1, AppendProperties, LenProperties
<1>3. UNCHANGED <<futures, approved, answers>>
  BY DEF Submit, execVars, uiVars, rollVars
<1>4. ASSUME NEW i \in DOMAIN submissions', submissions'[i].op = "ExecApproval"
      PROVE  i \in DOMAIN submissions /\ submissions'[i] = submissions[i]
  BY <1>1, <1>2, <1>4
<1> QED BY <1>3, <1>4 DEF ConsentInv, UsersWord

\* The loop asks nothing.
LEMMA LoopAdds ==
  ASSUME Typed, LoopStep
  PROVE  Adds(Unasked)
<1>1. \A id \in 0 .. MaxSubs :
        \A m \in {"BackgroundNotice", "ErrorEvent", "TurnAborted", "ShutdownComplete", "ContextCompacted"} :
          Ev(id, m) \in Event /\ Ev(id, m) \in Unasked
  <2>1. ASSUME NEW id \in 0 .. MaxSubs,
               NEW m \in {"BackgroundNotice", "ErrorEvent", "TurnAborted", "ShutdownComplete", "ContextCompacted"}
        PROVE  Ev(id, m) \in Event /\ Ev(id, m) \in Unasked
    <3>1. Ev(id, m) \in Event
      BY EventTyped DEF Kinds, Terminal
    <3>2. Ev(id, m).msg = m
      BY DEF Ev
    <3> QED BY <3>1, <3>2 DEF Unasked, IsQuestion
  <2> QED BY <2>1
<1>2. TypeOK /\ loopSub \in 0 .. MaxSubs /\ 0 \in 0 .. MaxSubs
  BY DEF Typed, TypeOK
<1>3. \A op : Receive(op) /\ op # "ExecApproval" => Head(submissions).id \in 0 .. MaxSubs
  BY ReceiveTyped
<1>4. CASE UNCHANGED events
  BY <1>2, <1>4, AddsNothing
<1>5. ASSUME NEW id \in 0 .. MaxSubs,
             NEW m \in {"BackgroundNotice", "ErrorEvent", "TurnAborted", "ShutdownComplete", "ContextCompacted"},
             Emit(Ev(id, m))
      PROVE  Adds(Unasked)
  BY <1>1, <1>2, <1>5, AddsOne
<1>6. CASE LoopUserTurn
  BY <1>3, <1>4, <1>5, <1>6 DEF LoopUserTurn
<1>7. CASE LoopExecApproval
  BY <1>2, <1>4, <1>5, <1>7 DEF LoopExecApproval
<1>8. CASE LoopInterrupt \/ LoopShutdown
  BY <1>3, <1>4, <1>5, <1>8 DEF LoopInterrupt, LoopShutdown
<1>9. CASE LoopCompact \/ LoopCompactRaises
  BY <1>4, <1>9 DEF LoopCompact, LoopCompactRaises
<1>10. CASE LoopCompactDone
  BY <1>2, <1>5, <1>10 DEF LoopCompactDone
<1> QED BY <1>6, <1>7, <1>8, <1>9, <1>10 DEF LoopStep

LEMMA LoopConsent ==
  ASSUME ConsentInv, Typed', LoopStep
  PROVE  CallsOnce' /\ Questions' /\ UsersWord' /\ RunsConsented'
<1>0. Typed /\ LiveIsActive /\ CallsOnce /\ Questions /\ UsersWord /\ RunsConsented
  BY DEF ConsentInv, IndInv
<1>1. Adds(Unasked)
  BY <1>0, LoopAdds
<1>2. UNCHANGED <<todo, nextCall, read, asking, answers, approved, bare>>
  BY DEF LoopStep, LoopUserTurn, LoopExecApproval, LoopInterrupt, LoopShutdown, LoopCompact, LoopCompactDone,
         LoopCompactRaises, taskVars, convVars, execVars, uiVars, rollVars
<1>3. Questions'
  <2>1. nextCall' >= nextCall
    BY <1>0, <1>2 DEF Typed, TypeOK
  <2> QED BY <1>0, <1>1, <1>2, <2>1, NothingAsked
<1>4. RunsConsented'
  BY <1>0, <1>2, ConsentStays DEF Typed, TypeOK
<1>5. CallsOnce'
  <2>1. CASE pc' = pc
    BY <1>0, <1>1, <1>2, <2>1, CallsUntouched
  <2>2. CASE LoopUserTurn /\ ~TurnRunning
    <3>1. \A u \in Ids : pc[u] \notin Live
      BY <1>0, <2>2 DEF LiveIsActive, TurnRunning, Live, Waiting, Ids
    <3>2. \A u \in Ids : DOMAIN todo[u] = {}
      BY <1>0, <3>1 DEF CallsOnce, Begun
    <3> QED BY <1>2, <3>2 DEF CallsOnce
  <2> QED
    BY <2>1, <2>2 DEF LoopStep, LoopUserTurn, LoopExecApproval, LoopInterrupt, LoopShutdown, LoopCompact,
         LoopCompactDone, LoopCompactRaises, taskVars
<1>6. UsersWord'
  <2>1. ASSUME NEW op, Receive(op), \A c \in Calls : futures'[c] \in Decisions => futures'[c] = futures[c]
        PROVE  UsersWord'
    BY <1>0, <1>2, <2>1, Dequeued DEF UsersWord
  <2>2. CASE LoopUserTurn \/ LoopCompact
    BY <2>1, <2>2 DEF LoopUserTurn, LoopCompact, execVars
  <2>3. CASE LoopInterrupt \/ LoopShutdown
    BY <2>1, <2>3 DEF LoopInterrupt, LoopShutdown, Cancel, Decisions
  <2>4. CASE LoopExecApproval
    <3> DEFINE s == Head(submissions)
    <3>1. Receive("ExecApproval") /\ s.call \in Calls
      BY <1>0, <2>4, ReceiveTyped DEF LoopExecApproval
    <3>2. answers[s.call] = s.decision
      <4>1. submissions \in Seq(Submission) /\ submissions # <<>> /\ s.op = "ExecApproval"
        BY <1>0, <3>1 DEF Receive, Typed, TypeOK
      <4>2. 1 \in DOMAIN submissions /\ s = submissions[1]
        BY <4>1, HeadTailProperties, LenProperties, EmptySeq
      <4> QED BY <1>0, <4>1, <4>2 DEF UsersWord
    <3>3. \A c \in Calls : futures'[c] = futures[c] \/ (c = s.call /\ futures'[c] = s.decision)
      BY <1>0, <2>4, <3>1 DEF LoopExecApproval, Typed, TypeOK
    <3> HIDE DEF s
    <3> QED BY <1>0, <1>2, <3>1, <3>2, <3>3, Dequeued DEF UsersWord
  <2>5. CASE LoopCompactDone \/ LoopCompactRaises
    BY <1>0, <1>2, <2>5 DEF LoopCompactDone, LoopCompactRaises, queueVars, execVars, UsersWord
  <2> QED BY <2>2, <2>3, <2>4, <2>5 DEF LoopStep
<1> QED BY <1>3, <1>4, <1>5, <1>6

-----------------------------------------------------------------------------
(* The turn.                                                               *)

\* A step of a turn that asks nothing, runs nothing bare without consent, and settles no future.
LEMMA PlainStep ==
  ASSUME ConsentInv, Typed', NEW t \in Ids, TurnStep(t), Adds(Unasked),
         \A c \in bare' \ bare : Seatbelt => Consented(c),
         \A c \in Calls : futures'[c] \in Decisions => futures'[c] = futures[c],
         \A cmd \in approved' \ approved :
           \E c \in Calls : CmdOf[c] = cmd /\ answers[c] = "approved_for_session",
         \/ todo'[t] = <<>>
         \/ todo[t] # <<>> /\ todo'[t] = Tail(todo[t]) /\ pc'[t] \in Begun
         \/ todo'[t] = todo[t] /\ pc'[t] \in Begun /\ (pc[t] \in Asking => pc'[t] \in Asking)
  PROVE  CallsOnce' /\ Questions' /\ UsersWord' /\ RunsConsented'
<1>0. Typed /\ CallsOnce /\ Questions /\ UsersWord /\ RunsConsented
  BY DEF ConsentInv, IndInv
<1>1. UNCHANGED <<submissions, read, asking, answers>> /\ nextCall' >= nextCall
  <2>1. UNCHANGED <<submissions, read, asking, answers>> /\ (nextCall' = nextCall \/ nextCall' = nextCall + 1)
    BY DEF TurnStep, TurnStart, TurnCompacted, StreamCall, StreamEnd, TurnCancelled, TurnError, DispatchInline,
           DispatchMcp, McpDone, DispatchExec, ExecDone, ExecDenied, Decided, AppendFails, StartBreaks,
           CancelBreaks, StreamBreaks, OutputBreaks, BeginBreaks, queueVars, convVars, uiVars, rollVars
  <2> QED BY <1>0, <2>1 DEF Typed, TypeOK
<1>2. \A u \in Ids \ {t} : pc'[u] = pc[u] /\ todo'[u] = todo[u]
  BY <1>0, TurnFrame
<1>3. Asked' \subseteq Asked
  BY SameQuestions
<1>4. CallsOnce'
  BY <1>0, <1>1, <1>2, <1>3, CallsStay
<1>5. Questions'
  BY <1>0, <1>1, NothingAsked
<1>6. RunsConsented'
  BY <1>0, <1>1, ConsentStays DEF Typed, TypeOK
<1>7. UsersWord'
  BY <1>0, <1>1, WordStays
<1> QED BY <1>4, <1>5, <1>6, <1>7

\* The events of a turn other than questions.
LEMMA PlainEvents ==
  ASSUME Typed, NEW t \in Ids
  PROVE  /\ \A m \in {"TaskStarted", "ErrorEvent", "TaskComplete", "ContextCompacted", "TurnDiff", "TurnAborted"} :
              Ev(t, m) \in Event /\ Ev(t, m) \in Unasked
         /\ \A m \in {"BeginSandboxed", "BeginUnsandboxed", "ExecCommandEnd"}, c \in Calls : CallEv(t, m, c) \in Event /\ CallEv(t, m, c) \in Unasked
<1>t. t \in 0 .. MaxSubs /\ Calls \subseteq 0 .. MaxCalls
  BY DEF Ids, Calls
<1>1. ASSUME NEW m \in {"TaskStarted", "ErrorEvent", "TaskComplete", "ContextCompacted", "TurnDiff", "TurnAborted"}
      PROVE  Ev(t, m) \in Event /\ Ev(t, m) \in Unasked
  <2>1. Ev(t, m) \in Event /\ Ev(t, m).msg = m
    <3>1. \E c : c \in 0 .. MaxCalls
      OBVIOUS
    <3> QED BY <1>t, <3>1, EventTyped DEF Kinds, Terminal, Ev
  <2> QED BY <2>1 DEF Unasked, IsQuestion
<1>2. ASSUME NEW m \in {"BeginSandboxed", "BeginUnsandboxed", "ExecCommandEnd"}, NEW c \in Calls
      PROVE  CallEv(t, m, c) \in Event /\ CallEv(t, m, c) \in Unasked
  <2>1. CallEv(t, m, c) \in Event /\ CallEv(t, m, c).msg = m
    BY <1>t, EventTyped DEF Kinds, CallEv
  <2> QED BY <2>1 DEF Unasked, IsQuestion
<1> QED BY <1>1, <1>2

\* Outputs recorded and failures leave the calls in order.
LEMMA CallsAfterOutput ==
  ASSUME Typed, NEW t \in Ids, pc[t] \in Calling, RecordOutput(t)
  PROVE  todo[t] # <<>> /\ todo'[t] = Tail(todo[t]) /\ pc'[t] \in Begun
<1>1. TypeOK /\ todo[t] # <<>>
  BY DEF Typed, CallInHand
<1>2. pc'[t] \in {"streaming", "compacting", "dispatch"}
  BY <1>1, RecordOutputTyped
<1> QED BY <1>1, <1>2 DEF RecordOutput, TypeOK, Begun, Live, Waiting

LEMMA CallsAfterFailure ==
  ASSUME Typed, NEW t \in Ids, NEW before, Fail(t, before)
  PROVE  todo'[t] = <<>>
  BY DEF Fail, Typed, TypeOK

LEMMA FailurePlain ==
  ASSUME Typed, NEW t \in Ids, NEW before \in Seq(Event), Fail(t, before), \A j \in DOMAIN before : before[j] \in Unasked
  PROVE  Adds(Unasked)
  BY PlainEvents, AddsFailure

LEMMA PlainFailure ==
  ASSUME Typed, NEW t \in Ids, NEW e \in Event \cap Unasked, Fail(t, <<>>) \/ Fail(t, <<e>>)
  PROVE  Adds(Unasked) /\ todo'[t] = <<>>
<1>1. <<>> \in Seq(Event) /\ <<e>> \in Seq(Event)
  OBVIOUS
<1>2. (\A j \in DOMAIN << >> : << >>[j] \in Unasked) /\ (\A j \in DOMAIN <<e>> : <<e>>[j] \in Unasked)
  OBVIOUS
<1> QED BY <1>1, <1>2, FailurePlain, CallsAfterFailure

\* What a failed append leaves in the stream.
LEMMA BreakAdds ==
  ASSUME Typed, NEW t \in Ids, AppendFails(t)
  PROVE  Adds(Unasked)
<1> DEFINE c == Head(todo[t])
<1>0. TypeOK
  BY DEF Typed
<1>dead. ASSUME NEW tail \in Seq(Event), Dies(t, tail), \A j \in DOMAIN tail : tail[j] \in Unasked
         PROVE  Adds(Unasked)
  BY <1>0, <1>dead, AddsMany DEF Dies
<1>1. ASSUME NEW e \in Event \cap Unasked, NEW f \in Event \cap Unasked, NEW g \in Event \cap Unasked,
             Dies(t, <<>>) \/ Dies(t, <<e>>) \/ Dies(t, <<e, f>>) \/ Dies(t, <<e, f, g>>)
      PROVE  Adds(Unasked)
  <2>1. <<>> \in Seq(Event) /\ <<e>> \in Seq(Event) /\ <<e, f>> \in Seq(Event) /\ <<e, f, g>> \in Seq(Event)
    BY <1>1
  <2>2. /\ \A j \in DOMAIN <<>> : <<>>[j] \in Unasked
        /\ \A j \in DOMAIN <<e>> : <<e>>[j] \in Unasked
        /\ \A j \in DOMAIN <<e, f>> : <<e, f>>[j] \in Unasked
        /\ \A j \in DOMAIN <<e, f, g>> : <<e, f, g>>[j] \in Unasked
    BY <1>1
  <2> QED BY <1>1, <1>dead, <2>1, <2>2
<1>2. \A m \in {"TaskStarted", "ErrorEvent", "TaskComplete", "TurnDiff"} : Ev(t, m) \in Event \cap Unasked
  BY PlainEvents
<1>3. pc[t] \in Calling =>
        \A m \in {"BeginSandboxed", "BeginUnsandboxed", "ExecCommandEnd"} : CallEv(t, m, c) \in Event \cap Unasked
  BY CallEventsTyped, PlainEvents
<1>4. CASE StartBreaks(t) \/ CancelBreaks(t)
  <2>1. Dies(t, <<>>) \/ Dies(t, <<Ev(t, "TaskStarted")>>) \/ Dies(t, <<Ev(t, "TaskStarted"), Ev(t, "ErrorEvent")>>)
    BY <1>4 DEF StartBreaks, CancelBreaks
  <2> QED BY <1>1, <1>2, <2>1
<1>5. CASE StreamBreaks(t)
  <2>1. \/ Dies(t, <<Ev(t, "ErrorEvent")>>)
        \/ Dies(t, <<Ev(t, "TurnDiff")>> \o <<Ev(t, "TaskComplete"), Ev(t, "ErrorEvent")>>)
        \/ Dies(t, <<>> \o <<Ev(t, "TaskComplete"), Ev(t, "ErrorEvent")>>)
    BY <1>5 DEF StreamBreaks
  <2>2. ASSUME NEW a \in Seq(Event), NEW f \in Event \cap Unasked, NEW g \in Event \cap Unasked,
               \A j \in DOMAIN a : a[j] \in Unasked, Dies(t, a \o <<f, g>>)
        PROVE  Adds(Unasked)
    <3>1. <<f, g>> \in Seq(Event) /\ \A j \in DOMAIN <<f, g>> : <<f, g>>[j] \in Unasked
      BY <2>2
    <3> DEFINE b == <<f, g>>
    <3> HIDE DEF b
    <3>2. a \o b \in Seq(Event) /\ \A j \in DOMAIN (a \o b) : (a \o b)[j] \in Unasked
      BY <2>2, <3>1, ConcatProperties, LenProperties DEF b
    <3> QED BY <1>dead, <2>2, <3>2 DEF b
  <2>3. ASSUME NEW e \in Event \cap Unasked
        PROVE  /\ <<e>> \in Seq(Event) /\ \A j \in DOMAIN <<e>> : <<e>>[j] \in Unasked
               /\ <<>> \in Seq(Event) /\ \A j \in DOMAIN <<>> : <<>>[j] \in Unasked
    BY <2>3
  <2> QED BY <1>1, <1>2, <2>1, <2>2, <2>3
<1>6. CASE OutputBreaks(t)
  <2>1. pc[t] \in Calling
    BY <1>6 DEF OutputBreaks, Resume, Calling
  <2>2. \/ Dies(t, <<Ev(t, "ErrorEvent")>>) \/ Dies(t, <<CallEv(t, "ExecCommandEnd", c), Ev(t, "ErrorEvent")>>)
        \/ Dies(t, <<CallEv(t, "BeginUnsandboxed", c), CallEv(t, "ExecCommandEnd", c), Ev(t, "ErrorEvent")>>)
    BY <1>6 DEF OutputBreaks
  <2> QED BY <1>1, <1>2, <1>3, <2>1, <2>2
<1>7. CASE BeginBreaks(t)
  <2>1. pc[t] \in Calling
    BY <1>7 DEF BeginBreaks, Calling
  <2>2. \E m \in {"BeginSandboxed", "BeginUnsandboxed"} : Dies(t, <<CallEv(t, m, c), Ev(t, "ErrorEvent")>>)
    BY <1>7 DEF BeginBreaks
  <2> QED BY <1>1, <1>2, <1>3, <2>1, <2>2
<1> QED BY <1>4, <1>5, <1>6, <1>7 DEF AppendFails

LEMMA TurnConsent ==
  ASSUME ConsentInv, Typed', NEW t \in Ids, TurnStep(t)
  PROVE  CallsOnce' /\ Questions' /\ UsersWord' /\ RunsConsented'
<1> DEFINE Goal == CallsOnce' /\ Questions' /\ UsersWord' /\ RunsConsented'
           c == Head(todo[t])
<1>0. Typed /\ TypeOK /\ CallsOnce /\ Questions /\ UsersWord /\ RunsConsented
  BY DEF ConsentInv, IndInv, Typed
<1>c. pc[t] \in Calling => c \in Calls
  BY <1>0, CallEventsTyped
<1>goal. ASSUME Adds(Unasked), bare' = bare,
                \A d \in Calls : futures'[d] \in Decisions => futures'[d] = futures[d], approved' = approved,
                \/ todo'[t] = <<>>
                \/ todo[t] # <<>> /\ todo'[t] = Tail(todo[t]) /\ pc'[t] \in Begun
                \/ todo'[t] = todo[t] /\ pc'[t] \in Begun /\ (pc[t] \in Asking => pc'[t] \in Asking)
         PROVE  Goal
  BY <1>goal, PlainStep
<1>1. CASE TurnStart(t)
  <2>1. pc[t] = "created" /\ todo[t] = <<>> /\ todo' = todo /\ UNCHANGED <<futures, approved, bare>>
    <3>1. pc[t] = "created" /\ todo' = todo /\ UNCHANGED <<futures, approved, bare>>
      BY <1>1 DEF TurnStart, Resume, execVars
    <3>2. ASSUME todo[t] # <<>>
          PROVE  FALSE
      <4>1. todo[t] \in Seq(Calls)
        BY <1>0 DEF TypeOK
      <4>2. 1 \in DOMAIN todo[t]
        BY <3>2, <4>1, LenProperties, EmptySeq
      <4> QED BY <1>0, <3>1, <4>2 DEF CallsOnce, Begun
    <3> QED BY <3>1, <3>2
  <2>2. Adds(Unasked)
    <3>1. CASE Emit(Ev(t, "TaskStarted"))
      BY <1>0, <3>1, PlainEvents, AddsOne
    <3>2. CASE events' = Append(Append(Append(events, Ev(t, "TaskStarted")), Ev(t, "ErrorEvent")), Ev(t, "TaskComplete"))
      <4> DEFINE e1 == Ev(t, "TaskStarted")
                 e2 == Ev(t, "ErrorEvent")
                 e3 == Ev(t, "TaskComplete")
                 s  == (<<e1>> \o <<e2>>) \o <<e3>>
      <4>1. e1 \in Event /\ e2 \in Event /\ e3 \in Event /\ e1 \in Unasked /\ e2 \in Unasked /\ e3 \in Unasked
        BY <1>0, PlainEvents
      <4> HIDE DEF e1, e2, e3
      <4>2. /\ events \in Seq(Event) /\ <<e1>> \in Seq(Event) /\ <<e2>> \in Seq(Event) /\ <<e3>> \in Seq(Event)
            /\ <<e1>> \o <<e2>> \in Seq(Event)
        BY <1>0, <4>1, ConcatProperties DEF TypeOK
      <4>3. events' = ((events \o <<e1>>) \o <<e2>>) \o <<e3>>
        <5>1. /\ Append(events, e1) = events \o <<e1>> /\ events \o <<e1>> \in Seq(Event)
          BY <4>1, <4>2, AppendIsConcat, ConcatProperties
        <5>2. /\ Append(events \o <<e1>>, e2) = (events \o <<e1>>) \o <<e2>>
              /\ (events \o <<e1>>) \o <<e2>> \in Seq(Event)
          BY <4>1, <4>2, <5>1, AppendIsConcat, ConcatProperties
        <5>3. Append((events \o <<e1>>) \o <<e2>>, e3) = ((events \o <<e1>>) \o <<e2>>) \o <<e3>>
          BY <4>1, <5>2, AppendIsConcat
        <5> QED BY <3>2, <5>1, <5>2, <5>3 DEF e1, e2, e3
      <4>4. events' = events \o s
        <5>1. (events \o <<e1>>) \o <<e2>> = events \o (<<e1>> \o <<e2>>)
          BY <4>2, ConcatAssociative
        <5>2. (events \o (<<e1>> \o <<e2>>)) \o <<e3>> = events \o s
          BY <4>2, ConcatAssociative
        <5> QED BY <4>3, <5>1, <5>2
      <4>5. s \in Seq(Event) /\ \A j \in DOMAIN s : s[j] \in Unasked
        <5>1. /\ Len(<<e1>> \o <<e2>>) = 2 /\ (<<e1>> \o <<e2>>)[1] = e1 /\ (<<e1>> \o <<e2>>)[2] = e2
          BY <4>2, ConcatProperties
        <5>2. /\ s \in Seq(Event) /\ DOMAIN s = 1 .. 3
              /\ \A j \in 1 .. 3 : s[j] = IF j <= 2 THEN (<<e1>> \o <<e2>>)[j] ELSE e3
          BY <4>2, <5>1, ConcatProperties, LenProperties
        <5>3. ASSUME NEW j \in 1 .. 3
              PROVE  s[j] \in Unasked
          <6>1. j = 1 \/ j = 2 \/ j = 3
            BY <5>3
          <6> QED BY <4>1, <5>1, <5>2, <6>1
        <5> QED BY <5>2, <5>3
      <4> HIDE DEF s
      <4> QED BY <1>0, <4>4, <4>5, AddsMany
    <3> QED BY <1>1, <3>1, <3>2 DEF TurnStart
  <2> QED BY <2>1, <2>2, <1>goal
<1>2. CASE TurnCompacted(t)
  <2>1. Adds(Unasked)
    BY <1>0, <1>2, PlainEvents, AddsOne DEF TurnCompacted
  <2>2. todo' = todo /\ pc[t] = "compacting" /\ pc'[t] = "streaming" /\ UNCHANGED <<futures, approved, bare>>
    BY <1>0, <1>2 DEF TurnCompacted, Resume, Go, TypeOK, execVars
  <2> QED BY <2>1, <2>2, <1>goal DEF Begun, Live, Waiting, Asking
<1>3. CASE StreamCall(t)
  <2>1. events' = events /\ UNCHANGED <<submissions, read, asking, answers, futures, approved, bare>> /\ nextCall' >= nextCall
    BY <1>0, <1>3 DEF StreamCall, queueVars, execVars, uiVars, rollVars, TypeOK
  <2>2. Adds(Unasked)
    BY <1>0, <2>1, AddsNothing
  <2>3. CallsOnce'
    BY <1>3, NewCall
  <2>4. Questions'
    BY <1>0, <2>1, <2>2, NothingAsked
  <2>5. RunsConsented' /\ UsersWord'
    BY <1>0, <2>1, ConsentStays, WordStays DEF TypeOK
  <2> QED BY <2>3, <2>4, <2>5
<1>4. CASE StreamEnd(t)
  <2>1. todo' = todo /\ UNCHANGED <<futures, approved, bare>> /\ pc[t] = "streaming"
    BY <1>4 DEF StreamEnd, Resume
  <2>2. CASE events' = events /\ pc'[t] \in {"dispatch", "streaming", "compacting"}
    BY <1>0, <2>1, <2>2, <1>goal, AddsNothing DEF Begun, Live, Waiting, Asking
  <2>3. CASE todo[t] = <<>> /\ (Emit2(Ev(t, "TurnDiff"), Ev(t, "TaskComplete")) \/ Emit(Ev(t, "TaskComplete")))
    BY <1>0, <2>1, <2>3, <1>goal, PlainEvents, AddsOne, AddsTwo
  <2> QED BY <1>0, <1>4, <2>2, <2>3 DEF StreamEnd, StepBoundary, Go, TypeOK
<1>5. CASE TurnCancelled(t)
  <2>1. todo'[t] = <<>> /\ approved' = approved /\ bare' = bare
    BY <1>0, <1>5 DEF TurnCancelled, TypeOK
  <2>2. \A d \in Calls : futures'[d] \in Decisions => futures'[d] = futures[d]
    BY <1>0, <1>5 DEF TurnCancelled, WithoutFuture, Decisions, TypeOK
  <2>3. Adds(Unasked)
    BY <1>0, <1>5, PlainEvents, AddsOne, AddsNothing DEF TurnCancelled
  <2> QED BY <2>1, <2>2, <2>3, <1>goal
<1>6. CASE TurnError(t)
  <2>1. UNCHANGED <<futures, approved, bare>>
    BY <1>6 DEF TurnError
  <2>2. CASE Fail(t, <<>>)
    BY <1>0, <2>1, <2>2, <1>goal, PlainEvents, PlainFailure
  <2>3. CASE pc[t] \in Calling /\ Fail(t, <<CallEv(t, "ExecCommandEnd", c)>>)
    <3> DEFINE end == CallEv(t, "ExecCommandEnd", c)
    <3>1. end \in Event /\ end \in Unasked /\ Fail(t, <<end>>)
      BY <1>0, <1>c, <2>3, PlainEvents
    <3> HIDE DEF end
    <3>2. Adds(Unasked) /\ todo'[t] = <<>>
      BY <1>0, <3>1, PlainFailure
    <3> QED BY <2>1, <3>2, <1>goal
  <2> QED BY <1>6, <2>2, <2>3 DEF TurnError, Calling
<1>7. CASE DispatchInline(t)
  <2>1. pc[t] \in Calling /\ RecordOutput(t) /\ UNCHANGED <<futures, approved, bare, events>>
    BY <1>7 DEF DispatchInline, Calling
  <2> QED BY <1>0, <2>1, <1>goal, CallsAfterOutput, AddsNothing
<1>8. CASE DispatchMcp(t)
  <2>1. UNCHANGED <<todo, futures, approved, bare, events>> /\ pc[t] = "dispatch" /\ pc'[t] = "mcp"
    BY <1>0, <1>8 DEF DispatchMcp, Go, TypeOK, execVars
  <2> QED BY <1>0, <2>1, <1>goal, AddsNothing DEF Begun, Live, Waiting, Asking
<1>9. CASE McpDone(t)
  <2>1. pc[t] \in Calling /\ RecordOutput(t) /\ UNCHANGED <<futures, approved, bare, events>>
    BY <1>9 DEF McpDone, Resume, Calling, execVars
  <2> QED BY <1>0, <2>1, <1>goal, CallsAfterOutput, AddsNothing
<1>ask. ASSUME pc[t] \in Calling \ Asking, NEW phase \in Asking, Ask(t, phase),
               UNCHANGED <<todo, nextCall, read, asking, answers, submissions, approved, bare>>
        PROVE  Goal
  <2>1. CallsOnce' /\ Questions'
    BY <1>ask, NewQuestion
  <2>2. UsersWord'
    <3>1. \A d \in Calls : futures'[d] \in Decisions => futures'[d] = futures[d]
      BY <1>0, <1>ask DEF Ask, TypeOK, Decisions
    <3> QED BY <1>0, <1>ask, <3>1, WordStays
  <2>3. RunsConsented'
    BY <1>0, <1>ask, ConsentStays DEF TypeOK
  <2> QED BY <2>1, <2>2, <2>3
<1>10. CASE DispatchExec(t)
  <2>1. pc[t] = "dispatch" /\ pc[t] \in Calling \ Asking /\ c \in Calls
    BY <1>10, <1>c DEF DispatchExec, Calling, Asking
  <2>2. UNCHANGED <<todo, nextCall, read, asking, answers, submissions, approved>>
    BY <1>10 DEF DispatchExec, queueVars, convVars, uiVars, rollVars
  <2>3. CASE Ask(t, "ask") /\ bare' = bare
    BY <2>1, <2>2, <2>3, <1>ask DEF Asking
  <2>4. CASE /\ Emit(CallEv(t, IF Sandboxed(c) THEN "BeginSandboxed" ELSE "BeginUnsandboxed", c))
             /\ IF Confined(c) THEN Go(t, "exec") /\ UNCHANGED bare
                ELSE Go(t, "execFull") /\ bare' = bare \cup {c}
             /\ UNCHANGED futures
    <3>1. pc'[t] \in Begun
      BY <1>0, <2>4 DEF Go, TypeOK, Begun, Live, Waiting
    <3>2. Adds(Unasked)
      BY <1>0, <2>1, <2>4, PlainEvents, AddsOne
    <3>3. \A d \in bare' \ bare : Seatbelt => Consented(d)
      BY <1>0, <2>1, <2>4 DEF Confined, Sandboxed, Consented, UsersWord
    <3> QED BY <2>1, <2>2, <2>4, <3>1, <3>2, <3>3, PlainStep DEF Asking
  <2> QED BY <1>10, <2>3, <2>4 DEF DispatchExec
<1>end. ASSUME pc[t] \in Calling
        PROVE  CallEv(t, "ExecCommandEnd", c) \in Event \cap Unasked
  BY <1>0, <1>c, <1>end, PlainEvents
<1>11. CASE ExecDone(t)
  <2>1. pc[t] \in Calling /\ RecordOutput(t) /\ UNCHANGED <<futures, approved, bare>> /\ Emit(CallEv(t, "ExecCommandEnd", c))
    BY <1>11 DEF ExecDone, Resume, Calling, execVars
  <2>2. Adds(Unasked)
    BY <1>0, <1>end, <2>1, AddsOne
  <2> QED BY <1>0, <2>1, <2>2, <1>goal, CallsAfterOutput
<1>12. CASE ExecDenied(t)
  <2>1. pc[t] \in Calling \ Asking /\ UNCHANGED <<nextCall, read, asking, answers, submissions, approved, bare>>
    BY <1>12 DEF ExecDenied, Resume, Calling, Asking, queueVars, uiVars, rollVars
  <2>2. CASE Ask(t, "askEscalate") /\ todo' = todo
    BY <2>1, <2>2, <1>ask DEF Asking
  <2>3. CASE RecordOutput(t) /\ UNCHANGED futures /\ Emit(CallEv(t, "ExecCommandEnd", c))
    <3>1. Adds(Unasked)
      BY <1>0, <1>end, <2>1, <2>3, AddsOne
    <3> QED BY <1>0, <2>1, <2>3, <3>1, <1>goal, CallsAfterOutput
  <2> QED BY <1>12, <2>2, <2>3 DEF ExecDenied
<1>13. CASE Decided(t)
  <2> DEFINE begin == CallEv(t, "BeginUnsandboxed", c)
             end   == CallEv(t, "ExecCommandEnd", c)
  <2>1. pc[t] \in Calling /\ c \in Calls /\ futures[c] \in Decisions /\ futures' = WithoutFuture(c)
    BY <1>13, <1>c DEF Decided, Resume, Calling
  <2>2. \A d \in Calls : futures'[d] \in Decisions => futures'[d] = futures[d]
    BY <1>0, <2>1 DEF WithoutFuture, TypeOK, Decisions
  <2>3. answers[c] = futures[c]
    BY <1>0, <2>1 DEF UsersWord
  <2>4. \/ RecordOutput(t)
        \/ \E before : Fail(t, before)
    BY <1>13 DEF Decided
  <2>5. todo'[t] = <<>> \/ (todo[t] # <<>> /\ todo'[t] = Tail(todo[t]) /\ pc'[t] \in Begun)
    BY <1>0, <2>1, <2>4, CallsAfterOutput, CallsAfterFailure
  <2>6. CASE futures[c] \in Refusals
    <3>1. approved' = approved /\ bare' = bare /\ (events' = events \/ Fail(t, <<>>))
      BY <1>13, <2>6 DEF Decided
    <3>2. Adds(Unasked)
      BY <1>0, <3>1, AddsNothing, PlainEvents, PlainFailure
    <3> QED BY <2>2, <2>5, <3>1, <3>2, <1>goal
  <2>7. CASE futures[c] \notin Refusals
    <3>1. /\ approved' = Remember(c, futures[c]) /\ bare' = bare \cup {c}
          /\ Emit2(begin, end) \/ Fail(t, <<begin>>) \/ Fail(t, <<begin, end>>)
      BY <1>13, <2>7 DEF Decided
    <3>2. Consented(c)
      BY <2>1, <2>3, <2>7 DEF Consented, Decisions, Refusals
    <3>3. begin \in Event \cap Unasked /\ end \in Event \cap Unasked /\ Ev(t, "ErrorEvent") \in Unasked
      BY <1>0, <2>1, PlainEvents
    <3> HIDE DEF begin, end
    <3>4. <<begin>> \in Seq(Event) /\ <<begin, end>> \in Seq(Event)
      BY <3>3
    <3>5. (\A j \in DOMAIN <<begin>> : <<begin>>[j] \in Unasked) /\ (\A j \in DOMAIN <<begin, end>> : <<begin, end>>[j] \in Unasked)
      BY <3>3
    <3>6. Adds(Unasked)
      BY <1>0, <3>1, <3>3, <3>4, <3>5, AddsTwo, AddsFailure
    <3>7. \A cmd \in approved' \ approved : \E d \in Calls : CmdOf[d] = cmd /\ answers[d] = "approved_for_session"
      BY <2>1, <2>3, <3>1 DEF Remember
    <3>8. \A d \in bare' \ bare : Seatbelt => Consented(d)
      BY <3>1, <3>2
    <3> QED BY <2>2, <2>5, <3>6, <3>7, <3>8, PlainStep
  <2> QED BY <2>6, <2>7
<1>14. CASE AppendFails(t)
  <2>1. Adds(Unasked) /\ todo'[t] = <<>>
    BY <1>0, <1>14, BreakAdds, BreakFrame
  <2>2. \A d \in Calls : futures'[d] \in Decisions => futures'[d] = futures[d]
    BY <1>0, <1>14
       DEF AppendFails, StartBreaks, CancelBreaks, StreamBreaks, OutputBreaks, BeginBreaks, WithoutFuture,
           Decisions, TypeOK, execVars
  <2>3. \/ approved' = approved /\ bare' = bare
        \/ /\ c \in Calls /\ futures[c] \in Decisions \ Refusals
           /\ approved' = Remember(c, futures[c]) /\ bare' = bare \cup {c}
    <3>1. CASE OutputBreaks(t)
      <4>1. pc[t] \in Calling
        BY <3>1 DEF OutputBreaks, Resume, Calling
      <4> QED BY <1>c, <3>1, <4>1 DEF OutputBreaks, execVars
    <3>2. CASE StartBreaks(t) \/ CancelBreaks(t) \/ StreamBreaks(t) \/ BeginBreaks(t)
      BY <3>2 DEF StartBreaks, CancelBreaks, StreamBreaks, BeginBreaks, execVars
    <3> QED BY <1>14, <3>1, <3>2 DEF AppendFails
  <2>4. /\ \A d \in bare' \ bare : Seatbelt => Consented(d)
        /\ \A cmd \in approved' \ approved :
             \E d \in Calls : CmdOf[d] = cmd /\ answers[d] = "approved_for_session"
    <3>1. CASE /\ c \in Calls /\ futures[c] \in Decisions \ Refusals
               /\ approved' = Remember(c, futures[c]) /\ bare' = bare \cup {c}
      <4>1. answers[c] = futures[c]
        BY <1>0, <3>1 DEF UsersWord
      <4> HIDE DEF c
      <4> QED BY <3>1, <4>1 DEF Consented, Decisions, Refusals, Remember
    <3> QED BY <2>3, <3>1
  <2> QED BY <2>1, <2>2, <2>4, PlainStep
<1> QED
  BY <1>1, <1>2, <1>3, <1>4, <1>5, <1>6, <1>7, <1>8, <1>9, <1>10, <1>11, <1>12, <1>13, <1>14
     DEF TurnStep

-----------------------------------------------------------------------------
(* The theorem.                                                            *)

LEMMA ConsentStart == Init => ConsentInv
<1> SUFFICES ASSUME Init PROVE ConsentInv
  OBVIOUS
<1>1. IndInv
  BY InitTyped DEF Init, IndInv, LiveIsActive, Live, Waiting, ApprovalsMatchAsks
<1>2. /\ DOMAIN events = {} /\ DOMAIN submissions = {} /\ \A t \in Ids : DOMAIN todo[t] = {}
      /\ 0 \notin Calls
  BY DEF Init, Calls
<1>3. CallsOnce /\ RunsConsented /\ Unanswered
  BY <1>2 DEF Init, CallsOnce, RunsConsented, Unanswered
<1>4. AskedOnce
  BY <1>2 DEF Init, AskedOnce, Asked
<1>5. UsersWord
  BY <1>2 DEF Init, UsersWord, Decisions
<1> QED BY <1>1, <1>3, <1>4, <1>5 DEF ConsentInv, Questions

LEMMA ConsentStep == ConsentInv /\ [Next]_vars => ConsentInv'
<1> SUFFICES ASSUME ConsentInv, [Next]_vars PROVE ConsentInv'
  OBVIOUS
<1>1. IndInv' /\ Typed' /\ Typed /\ TypeOK
  BY NextTyped, LiveStep, ApprovalsStep DEF ConsentInv, IndInv, Typed
<1> SUFFICES CallsOnce' /\ Questions' /\ UsersWord' /\ RunsConsented'
  BY <1>1 DEF ConsentInv
<1>2. CASE LoopStep
  BY <1>1, <1>2, LoopConsent
<1>3. ASSUME NEW t \in Ids, TurnStep(t)
      PROVE  CallsOnce' /\ Questions' /\ UsersWord' /\ RunsConsented'
  BY <1>1, <1>3, TurnConsent
<1>same. ASSUME UNCHANGED <<pc, todo, nextCall, events>>
         PROVE  CallsOnce'
  BY <1>1, <1>same, AddsNothing, CallsUntouched DEF ConsentInv
<1>4. ASSUME NEW op \in Ops, Submit(op)
      PROVE  CallsOnce' /\ Questions' /\ UsersWord' /\ RunsConsented'
  <2>1. UNCHANGED <<pc, todo, nextCall, events, read, asking, answers, bare>>
    BY <1>4 DEF Submit, taskVars, convVars, execVars, uiVars
  <2>2. Questions' /\ RunsConsented'
    BY <1>1, <1>same, <2>1, ConsentStays DEF ConsentInv, Questions, AskedOnce, Unanswered, Asked, TypeOK
  <2> QED BY <1>4, <1>same, <2>1, <2>2, SubmittedConsent
<1>5. CASE Render
  <2>1. UNCHANGED <<pc, todo, nextCall, events, submissions, futures, approved, bare, answers>>
    BY <1>5 DEF Render, queueVars, taskVars, convVars, execVars
  <2>2. UsersWord' /\ RunsConsented'
    BY <1>1, <1>same, <2>1, ConsentStays DEF ConsentInv, UsersWord, TypeOK
  <2> QED BY <1>5, <1>same, <2>1, <2>2, QuestionShown
<1>6. ASSUME NEW d \in Decisions, AnswerApproval(d)
      PROVE  CallsOnce' /\ Questions' /\ UsersWord' /\ RunsConsented'
  <2>1. UNCHANGED <<pc, todo, nextCall, events>>
    BY <1>6 DEF AnswerApproval, taskVars, convVars
  <2> QED BY <1>6, <1>same, <2>1, QuestionAnswered
<1>7. CASE UNCHANGED vars
  <2>1. UNCHANGED <<pc, todo, nextCall, events, read, asking, answers, submissions, futures, approved, bare>>
    BY <1>7 DEF vars, queueVars, taskVars, convVars, execVars, uiVars, rollVars
  <2>2. Questions' /\ UsersWord' /\ RunsConsented'
    BY <1>1, <1>same, <2>1, ConsentStays DEF ConsentInv, Questions, AskedOnce, Unanswered, Asked, TypeOK, UsersWord
  <2> QED BY <1>same, <2>1, <2>2
<1> QED BY <1>2, <1>3, <1>4, <1>5, <1>6, <1>7 DEF Next

\* What the argument rests on: each call is asked about once at most and answered once at most, and futures,
\* queued operations and remembered commands hold what was answered.
THEOREM ConsentInductive == Spec => []ConsentInv
  BY ConsentStart, ConsentStep, PTL DEF Spec

\* Where s07 can enforce a sandbox, a command runs in none only if the session has full access, the user
\* approved this very call, or approved the same command for the session (_exec_command, _ask,
\* resolve_approval, build_command).  Where it cannot, every command runs bare (the finding on line 734).
THEOREM Consent == Seatbelt => (Spec => []UnsandboxedOnlyByConsent)
<1> SUFFICES ASSUME Seatbelt PROVE Spec => []UnsandboxedOnlyByConsent
  OBVIOUS
<1>1. ConsentInv => UnsandboxedOnlyByConsent
  BY DEF ConsentInv, RunsConsented, Consented, UnsandboxedOnlyByConsent
<1> QED BY ConsentInductive, <1>1, PTL

(***************************************************************************)
(* That the kernel implements module Steering, for any number of           *)
(* submissions and calls, and whatever becomes of its turns: every step is *)
(* one of Steering's, or none that Steering sees.                          *)
(*                                                                         *)
(* Then, from the same invariant, what the stream, the queue and history   *)
(* have in common: the story each turn tells, what it leaves behind, the   *)
(* order of the messages, and the calls with their outputs.                *)
(***************************************************************************)

-----------------------------------------------------------------------------
(* Sequences in which nothing is twice.                                    *)

LEMMA RangeAppend ==
  ASSUME NEW S, NEW s \in Seq(S), NEW x \in S
  PROVE  Range(Append(s, x)) = Range(s) \cup {x}
<1> DEFINE one == <<x>>
<1>1. one \in Seq(S) /\ Range(one) = {x} /\ Append(s, x) = s \o one
  BY AppendIsConcat DEF Range
<1> HIDE DEF one
<1>2. Range(s \o one) = Range(s) \cup Range(one)
  BY <1>1, RangeConcatenation
<1> QED BY <1>1, <1>2

LEMMA AppendInjection ==
  ASSUME NEW S, NEW s \in Seq(S), NEW x \in S, IsInjective(s), x \notin Range(s)
  PROVE  IsInjective(Append(s, x))
  BY AppendProperties DEF IsInjective, Range

\* The same, from the other end.
LEMMA ConsInjection ==
  ASSUME NEW S, NEW s \in Seq(S), NEW x \in S, IsInjective(s), x \notin Range(s)
  PROVE  /\ <<x>> \o s \in Seq(S) /\ <<x>> \o s # <<>>
         /\ IsInjective(<<x>> \o s)
         /\ Range(<<x>> \o s) = {x} \cup Range(s)
<1> DEFINE one == <<x>>
<1>1. one \in Seq(S) /\ Len(one) = 1 /\ one[1] = x /\ Range(one) = {x}
  BY DEF Range
<1> HIDE DEF one
<1>2. /\ one \o s \in Seq(S) /\ Len(one \o s) = 1 + Len(s) /\ Len(s) \in Nat
      /\ \A i \in 1 .. 1 + Len(s) : (one \o s)[i] = IF i <= 1 THEN one[i] ELSE s[i - 1]
  <2>1. /\ one \o s \in Seq(S) /\ Len(one \o s) = Len(one) + Len(s)
        /\ \A i \in 1 .. Len(one) + Len(s) : (one \o s)[i] = IF i <= Len(one) THEN one[i] ELSE s[i - Len(one)]
    <3>1. one \in Seq(S) /\ s \in Seq(S)
      BY <1>1
    <3> QED BY ONLY <3>1, ConcatProperties
  <2> QED BY <1>1, <2>1
<1>3. Range(one \o s) = Range(one) \cup Range(s)
  BY <1>1, RangeConcatenation
<1>4. IsInjective(one \o s)
  BY <1>1, <1>2 DEF IsInjective, Range
<1>5. one \o s # <<>>
  BY <1>2
<1> QED BY <1>1, <1>2, <1>3, <1>4, <1>5 DEF one

LEMMA EmptyRange == Range(<<>>) = {} /\ IsInjective(<<>>)
  BY DEF Range, IsInjective

-----------------------------------------------------------------------------
(* Where a message is.                                                     *)

\* The messages that the session knows nothing of yet.
Unknown ==
  { t \in Ids : pc[t] = "none" /\ t \notin Range(pending) /\ t \notin Range(said) /\ t \notin lost }

\* A message in the queue is unknown, and is there once; so is what has not been submitted.
Numbered ==
  /\ \A i \in 1 .. Len(submissions) : submissions[i].op = "UserTurn" =>
       submissions[i].id < nextSub /\ submissions[i].id \in Unknown
  /\ \A i, j \in 1 .. Len(submissions) :
       /\ submissions[i].op = "UserTurn" /\ submissions[j].op = "UserTurn"
       /\ submissions[i].id = submissions[j].id
       => i = j
  /\ \A t \in Ids : t >= nextSub => t \in Unknown

\* A message that steers waits once, has not been said, and opens no turn; nor does one that was
\* dropped, which waits no more.
Queued ==
  /\ IsInjective(pending)
  /\ \A t \in Range(pending) : pc[t] = "none" /\ t \notin Range(said)
  /\ \A t \in lost : pc[t] = "none" /\ t \notin Range(said) /\ t \notin Range(pending)

\* A turn has said its message once it has begun, and not before.
Placed ==
  /\ \A t \in Ids : pc[t] = "created" => t \notin Range(said)
  /\ \A t \in Ids : pc[t] \in Begun => t \in Range(said)
  /\ active # 0 => pc[active] # "none"

SteerInv == Numbered /\ Queued /\ Placed

USE BoundsAssumption, ConfigAssumption

\* Steering has copies of these two operators.
LEMMA SameOperators ==
  ASSUME NEW s
  PROVE  Thread!Range(s) = Range(s) /\ (Thread!IsInjective(s) <=> IsInjective(s))
  BY DEF Thread!Range, Range, Thread!IsInjective, IsInjective

LEMMA SteerStarts == Init => SteerInv
  BY EmptyRange DEF Init, SteerInv, Numbered, Queued, Placed, Unknown, Begun, Live, Waiting

-----------------------------------------------------------------------------
(* The queue of submissions.                                               *)

\* Nothing but the queue changes.
LEMMA Enqueues ==
  ASSUME TypeOK, SteerInv, NEW s,
         submissions' = Append(submissions, s), s \in Submission,
         \/ s.op = "UserTurn" /\ s.id = nextSub /\ nextSub \in Ids /\ nextSub' = nextSub + 1
         \/ s.op # "UserTurn" /\ nextSub' \in {nextSub, nextSub + 1},
         UNCHANGED <<active, pc, pending, said, lost>>
  PROVE  SteerInv'
<1>1. /\ Len(submissions') = Len(submissions) + 1 /\ Len(submissions) \in Nat
      /\ \A i \in 1 .. Len(submissions) : submissions'[i] = submissions[i]
      /\ submissions'[Len(submissions) + 1] = s
  BY AppendProperties DEF TypeOK
<1>2. nextSub \in Int /\ nextSub' \in Int /\ nextSub <= nextSub' /\ \A t \in Ids : t \in Int
  BY DEF TypeOK, Ids
<1>3. Unknown' = Unknown /\ \A t \in Unknown : t \in Ids
  BY DEF Unknown
<1>4. Queued' /\ Placed'
  BY DEF SteerInv, Queued, Placed
<1> SUFFICES Numbered'
  BY <1>4 DEF SteerInv
<1>5. CASE s.op # "UserTurn"
  <2>1. \A i \in 1 .. Len(submissions') : submissions'[i].op = "UserTurn" =>
          i \in 1 .. Len(submissions) /\ submissions'[i] = submissions[i]
    BY <1>1, <1>5
  <2>2. \A i \in 1 .. Len(submissions) : submissions[i].op = "UserTurn" =>
          submissions[i].id < nextSub' /\ submissions[i].id \in Unknown
    BY <1>2, <1>3 DEF SteerInv, Numbered
  <2>3. \A t \in Ids : t >= nextSub' => t \in Unknown
    BY <1>2 DEF SteerInv, Numbered
  <2> QED BY <1>3, <2>1, <2>2, <2>3 DEF SteerInv, Numbered
<1>6. CASE s.op = "UserTurn"
  <2>1. s.id = nextSub /\ nextSub \in Ids /\ nextSub' = nextSub + 1 /\ nextSub \in Unknown
    BY <1>2, <1>6 DEF SteerInv, Numbered
  <2>2. \A i \in 1 .. Len(submissions) : submissions[i].op = "UserTurn" =>
          submissions[i].id < nextSub /\ submissions[i].id < nextSub + 1 /\ submissions[i].id \in Unknown
    BY <1>2, <1>3 DEF SteerInv, Numbered
  <2>3. \A i \in 1 .. Len(submissions') : i \in 1 .. Len(submissions) \/ i = Len(submissions) + 1
    BY <1>1
  <2>4. ASSUME NEW i \in 1 .. Len(submissions'), submissions'[i].op = "UserTurn"
        PROVE  submissions'[i].id < nextSub' /\ submissions'[i].id \in Unknown
    <3>1. CASE i \in 1 .. Len(submissions)
      BY <1>1, <1>2, <2>1, <2>2, <2>4, <3>1
    <3>2. CASE i = Len(submissions) + 1
      BY <1>1, <1>2, <2>1, <3>2
    <3> QED BY <2>3, <3>1, <3>2
  <2>5. ASSUME NEW i \in 1 .. Len(submissions'), NEW j \in 1 .. Len(submissions'),
               submissions'[i].op = "UserTurn", submissions'[j].op = "UserTurn",
               submissions'[i].id = submissions'[j].id
        PROVE  i = j
    <3>1. CASE i \in 1 .. Len(submissions) /\ j \in 1 .. Len(submissions)
      BY <1>1, <2>5, <3>1 DEF SteerInv, Numbered
    <3>2. \A k \in 1 .. Len(submissions') : submissions'[k].op = "UserTurn" =>
            (submissions'[k].id = nextSub <=> k = Len(submissions) + 1)
      BY <1>1, <1>2, <2>1, <2>2, <2>3
    <3> QED BY <2>3, <2>5, <3>1, <3>2
  <2>6. \A t \in Ids : t >= nextSub' => t \in Unknown
    BY <1>2 DEF SteerInv, Numbered
  <2> QED BY <1>3, <2>4, <2>5, <2>6 DEF Numbered
<1> QED BY <1>5, <1>6

\* The queue without its first entry.
LEMMA Received ==
  ASSUME TypeOK, NEW op, Receive(op)
  PROVE  /\ Len(submissions') = Len(submissions) - 1 /\ Len(submissions) \in Nat \ {0}
         /\ \A i \in 1 .. Len(submissions') : submissions'[i] = submissions[i + 1]
         /\ Head(submissions) = submissions[1] /\ submissions[1].op = op
         /\ nextSub' = nextSub
  BY HeadTailProperties DEF TypeOK, Receive

\* The rest of the queue is still unknown once its first message is known.
LEMMA StillNumbered ==
  ASSUME TypeOK, SteerInv, NEW op, Receive(op),
         \/ Unknown' = Unknown
         \/ op = "UserTurn" /\ Unknown' = Unknown \ {Head(submissions).id}
  PROVE  Numbered'
<1>1. /\ Head(submissions) = submissions[1] /\ submissions[1].op = op /\ nextSub' = nextSub
      /\ 1 \in 1 .. Len(submissions)
      /\ \A i \in 1 .. Len(submissions') :
           i + 1 \in 1 .. Len(submissions) /\ i + 1 # 1 /\ submissions'[i] = submissions[i + 1]
  BY Received
<1>2. /\ \A i \in 1 .. Len(submissions) : submissions[i].op = "UserTurn" =>
           submissions[i].id < nextSub /\ submissions[i].id \in Unknown
      /\ \A i, j \in 1 .. Len(submissions) :
           /\ submissions[i].op = "UserTurn" /\ submissions[j].op = "UserTurn"
           /\ submissions[i].id = submissions[j].id
           => i = j
      /\ \A t \in Ids : t >= nextSub => t \in Unknown
  BY DEF SteerInv, Numbered
<1>3. ASSUME NEW i \in 1 .. Len(submissions'), submissions'[i].op = "UserTurn"
      PROVE  submissions'[i].id < nextSub' /\ submissions'[i].id \in Unknown'
  <2>1. submissions[i + 1].id < nextSub /\ submissions[i + 1].id \in Unknown
    BY <1>1, <1>2, <1>3
  <2>2. op = "UserTurn" => submissions[i + 1].id # Head(submissions).id
    BY <1>1, <1>2, <1>3
  <2> QED BY <1>1, <2>1, <2>2
<1>4. ASSUME NEW i \in 1 .. Len(submissions'), NEW j \in 1 .. Len(submissions'),
             submissions'[i].op = "UserTurn", submissions'[j].op = "UserTurn",
             submissions'[i].id = submissions'[j].id
      PROVE  i = j
  <2>1. /\ i + 1 \in 1 .. Len(submissions) /\ submissions'[i] = submissions[i + 1]
        /\ j + 1 \in 1 .. Len(submissions) /\ submissions'[j] = submissions[j + 1]
    BY <1>1
  <2>2. i + 1 = j + 1
    BY <1>2, <1>4, <2>1
  <2> QED BY <2>2
<1>5. ASSUME NEW t \in Ids, t >= nextSub' PROVE t \in Unknown'
  <2>1. t \in Unknown /\ ~(t < nextSub)
    BY <1>1, <1>2, <1>5 DEF TypeOK, Ids
  <2>2. op = "UserTurn" => Head(submissions).id < nextSub
    BY <1>1, <1>2
  <2> QED BY <2>1, <2>2
<1> QED BY <1>3, <1>4, <1>5 DEF Numbered

\* An operation that is none of a message's.
LEMMA Dequeues ==
  ASSUME TypeOK, SteerInv, NEW op, Receive(op), UNCHANGED <<active, pc, pending, said, lost>>
  PROVE  SteerInv'
<1>1. Unknown' = Unknown
  BY DEF Unknown
<1> QED BY <1>1, StillNumbered DEF SteerInv, Queued, Placed

\* A message that comes while a turn runs waits for it; any other opens a turn.
LEMMA LoopUserTurnSteers ==
  ASSUME IndInv, SteerInv, LoopUserTurn
  PROVE  SteerInv' /\ \E m \in Ids : Thread!Accept(m)
<1> DEFINE id == Head(submissions).id
<1>1. /\ Receive("UserTurn") /\ UNCHANGED <<said, lost>>
      /\ \/ /\ TurnRunning /\ pending' = Append(pending, id) /\ UNCHANGED <<active, pc>>
         \/ /\ ~TurnRunning /\ active' = id /\ pc' = [pc EXCEPT ![id] = "created"] /\ UNCHANGED pending
  BY DEF LoopUserTurn, Enqueued, Go, rollVars
<1>2. TypeOK /\ LiveIsActive
  BY DEF IndInv, Typed
<1>3. id \in Unknown
  <2>1. /\ Len(submissions) \in Nat \ {0}
        /\ Head(submissions) = submissions[1] /\ submissions[1].op = "UserTurn"
    BY <1>1, <1>2, Received
  <2> QED BY <2>1 DEF SteerInv, Numbered
<1>4. PICK m \in Ids : m = id
  BY <1>3 DEF Unknown
<1> HIDE DEF id
<1>5. /\ m # 0 /\ pc[m] = "none" /\ m \notin Range(pending) /\ m \notin Range(said) /\ m \notin lost
      /\ pending \in Seq(Ids) /\ pc \in [Ids -> Phases]
  BY <1>2, <1>3, <1>4 DEF Unknown, Ids, TypeOK
<1>6. CASE TurnRunning /\ pending' = Append(pending, id) /\ UNCHANGED <<active, pc>>
  <2>1. Range(pending') = Range(pending) \cup {m} /\ IsInjective(pending')
    BY <1>4, <1>5, <1>6, RangeAppend, AppendInjection DEF SteerInv, Queued
  <2>2. Unknown' = Unknown \ {m}
    BY <1>1, <1>6, <2>1 DEF Unknown
  <2>3. Numbered'
    BY <1>1, <1>2, <1>4, <2>2, StillNumbered DEF id
  <2>4. Queued' /\ Placed'
    BY <1>1, <1>5, <1>6, <2>1 DEF SteerInv, Queued, Placed
  <2>5. SteerInv'
    BY <2>3, <2>4 DEF SteerInv
  <2>6. Thread!Accept(m)
    BY <1>1, <1>5, <1>6, <2>1, SameOperators DEF Thread!Accept, Thread!Fresh, RunningTurn, TurnRunning, Mark
  <2> QED BY <2>5, <2>6
<1>7. CASE ~TurnRunning /\ active' = id /\ pc' = [pc EXCEPT ![id] = "created"] /\ UNCHANGED pending
  <2>1. Unknown' = Unknown \ {m}
    BY <1>1, <1>4, <1>5, <1>7 DEF Unknown
  <2>2. Numbered'
    BY <1>1, <1>2, <1>4, <2>1, StillNumbered DEF id
  <2>3. \A u \in Ids : pc[u] \notin Live
    BY <1>2, <1>7 DEF LiveIsActive, TurnRunning, Live, Waiting, Ids
  <2>4. /\ pc'[m] = "created" /\ \A u \in Ids \ {m} : pc'[u] = pc[u]
    BY <1>4, <1>5, <1>7
  <2>5. \A u \in Range(pending) : u \in Ids /\ u # m
    BY <1>5, RangeOfSeq
  <2>6. Queued'
    <3>1. \A u \in lost : u \in Ids /\ u # m
      BY <1>2, <1>5 DEF TypeOK
    <3> QED BY <1>1, <1>7, <2>4, <2>5, <3>1 DEF SteerInv, Queued
  <2>7. Placed'
    BY <1>1, <1>4, <1>5, <1>7, <2>3, <2>4 DEF SteerInv, Placed, Begun, Live, Waiting
  <2>8. SteerInv'
    BY <2>2, <2>6, <2>7 DEF SteerInv
  <2>9. Thread!Accept(m)
    BY <1>1, <1>4, <1>5, <1>7, <2>4, SameOperators
       DEF Thread!Accept, Thread!Fresh, RunningTurn, TurnRunning, Mark
  <2> QED BY <2>8, <2>9
<1> QED BY <1>1, <1>6, <1>7

-----------------------------------------------------------------------------
(* The steps of a turn, and what Steering sees of them.                    *)

Held    == Range(pending) \cup { t \in Ids : pc[t] = "created" }
Refused == { t \in Ids : pc[t] = "done" /\ t \notin Range(said) } \cup lost

LEMMA NumberedStays ==
  ASSUME SteerInv, UNCHANGED queueVars, Unknown' = Unknown PROVE Numbered'
  BY DEF SteerInv, Numbered, queueVars

LEMMA SteerTyped ==
  ASSUME IndInv
  PROVE  said \in Seq(Ids \cup {Mark}) /\ pc \in [Ids -> Phases] /\ pending \in Seq(Ids)
<1>1. 0 .. MaxSubs = Ids \cup {Mark}
  BY DEF Ids, Mark
<1> QED BY <1>1 DEF IndInv, Typed, TypeOK

LEMMA LostIsNone ==
  ASSUME IndInv, SteerInv
  PROVE  \A u \in lost : u \in Ids /\ pc[u] = "none"
  BY DEF IndInv, Typed, TypeOK, SteerInv, Queued

\* While turn t is alive it is the open one, and only it may be waiting to begin.
LEMMA OpenIsAlive ==
  ASSUME IndInv, SteerInv, NEW t \in Ids, pc[t] \in Live
  PROVE  /\ active = t /\ RunningTurn = t /\ t # Mark /\ TurnRunning
         /\ \A u \in Ids : pc[u] = "created" => u = t
         /\ t \notin Range(pending)
  BY DEF IndInv, LiveIsActive, SteerInv, Queued, Live, Waiting, RunningTurn, TurnRunning, Ids, Mark

\* Nothing that Steering sees changes.
LEMMA Unseen ==
  ASSUME SteerInv, UNCHANGED <<queueVars, active, pc, pending, said, lost>>
  PROVE  SteerInv' /\ UNCHANGED Thread!vars
  BY DEF SteerInv, Numbered, Unknown, Queued, Placed, queueVars, Thread!vars, RunningTurn, TurnRunning

\* A step between two awaits that says nothing and ends nothing.
LEMMA WorksOn ==
  ASSUME IndInv, SteerInv, NEW t \in Ids, pc[t] \in Begun, NEW phase \in Begun,
         pc' = [pc EXCEPT ![t] = phase], UNCHANGED <<queueVars, active, pending, said, lost>>
  PROVE  SteerInv' /\ UNCHANGED Thread!vars
<1>0. pc \in [Ids -> Phases]
  BY DEF IndInv, Typed, TypeOK
<1>1. /\ pc'[t] \in Begun /\ \A u \in Ids \ {t} : pc'[u] = pc[u]
  BY <1>0
<1>2. Unknown' = Unknown
  BY <1>1 DEF Unknown, Begun, Live, Waiting
<1>3. /\ active = t /\ t # Mark /\ TurnRunning /\ t \notin Range(pending)
  BY OpenIsAlive DEF Begun
<1>4. Queued'
  <2>1. \A u \in Range(pending) : u \in Ids \ {t}
    BY <1>3, RangeOfSeq DEF IndInv, Typed, TypeOK
  <2>2. \A u \in lost : u \in Ids \ {t}
    BY LostIsNone DEF Begun, Live, Waiting
  <2> QED BY <1>1, <2>1, <2>2 DEF SteerInv, Queued
<1>5. Placed'
  BY <1>1, <1>3 DEF SteerInv, Placed, Live, Begun, Waiting
<1>6. Held' = Held /\ Refused' = Refused
  BY <1>1 DEF Held, Refused, Begun, Live, Waiting
<1>7. RunningTurn' = RunningTurn
  BY <1>1, <1>3 DEF RunningTurn, TurnRunning, Live, Begun, Waiting
<1> QED BY <1>2, <1>4, <1>5, <1>6, <1>7, NumberedStays
        DEF SteerInv, Thread!vars, Held, Refused

\* A step boundary: the turn says what has been queued, after its own message if it had not begun.
LEMMA Speaks ==
  ASSUME IndInv, SteerInv, NEW t \in Ids, NEW new, NEW phase \in Begun,
         \/ pc[t] = "created" /\ new = <<t>> \o pending
         \/ pc[t] \in Begun /\ new = pending,
         said' = said \o new, pending' = <<>>, pc' = [pc EXCEPT ![t] = phase],
         UNCHANGED <<queueVars, active, lost>>
  PROVE  SteerInv' /\ (Thread!Say \/ UNCHANGED Thread!vars)
<1>0. /\ pending \in Seq(Ids) /\ said \in Seq(Ids \cup {Mark}) /\ pc \in [Ids -> Phases] /\ pc[t] \in Live
      /\ IsInjective(pending)
  BY SteerTyped DEF SteerInv, Queued, Begun, Live
<1>1. /\ active = t /\ RunningTurn = t /\ t # Mark /\ TurnRunning /\ t \notin Range(pending)
      /\ \A u \in Ids : pc[u] = "created" => u = t
  BY <1>0, OpenIsAlive
<1>2. new \in Seq(Ids) /\ IsInjective(new) /\ Range(new) = Held
  <2>1. CASE pc[t] = "created" /\ new = <<t>> \o pending
    <3>1. Held = {t} \cup Range(pending)
      BY <1>1, <2>1 DEF Held
    <3> QED BY <1>0, <1>1, <2>1, <3>1, ConsInjection
  <2>2. CASE pc[t] \in Begun /\ new = pending
    BY <1>0, <1>1, <2>2 DEF Held, Begun, Live, Waiting
  <2> QED BY <2>1, <2>2
<1>3. new \in Seq(Ids \cup {Mark})
  BY <1>2
<1>4. said' \in Seq(Ids \cup {Mark}) /\ Range(said') = Range(said) \cup Held
  BY <1>0, <1>2, <1>3, ConcatProperties, RangeConcatenation
<1>5. t \in Range(said')
  BY <1>4 DEF SteerInv, Placed, Held, Begun, Live, Waiting
<1>6. /\ pc' \in [Ids -> Phases] /\ pc'[t] \in Begun
      /\ \A u \in Ids : u # t => pc'[u] = pc[u]
  BY <1>0 DEF Phases, Begun, Live, Waiting
<1>7. Range(pending') = {} /\ IsInjective(pending') /\ pending' \in Seq(Ids)
  BY EmptyRange
<1>8. SteerInv'
  <2>1. \A u \in Ids : u \in Held => u = t \/ u \in Range(pending)
    BY <1>1 DEF Held
  <2>2. Unknown' = Unknown
    BY <1>0, <1>1, <1>4, <1>6, <1>7, <2>1 DEF Unknown, Live, Waiting, Begun, Held
  <2>4. Placed'
    BY <1>0, <1>1, <1>4, <1>5, <1>6 DEF SteerInv, Placed, Live, Waiting, Begun
  <2>5. Queued'
    <3>1. \A u \in lost : u \in Ids /\ pc[u] = "none" /\ u \notin Range(said) /\ u \notin Range(pending)
      BY LostIsNone DEF SteerInv, Queued
    <3>2. \A u \in lost : u # t /\ u \notin Held
      BY <1>0, <2>1, <3>1 DEF Live, Waiting
    <3> QED BY <1>4, <1>6, <1>7, <3>1, <3>2 DEF Queued
  <2> QED BY <2>2, <2>4, <2>5, NumberedStays DEF SteerInv
<1>9. Held' = {}
  BY <1>1, <1>6, <1>7 DEF Held, Begun
<1>10. Refused' = Refused
  <2>1. \A u \in Ids : u \in Held => pc[u] # "done"
    BY DEF Held, SteerInv, Queued
  <2> QED BY <1>0, <1>4, <1>6, <2>1 DEF Refused, Live, Waiting, Begun
<1>11. RunningTurn' = t
  BY <1>1, <1>6 DEF RunningTurn, TurnRunning, Begun, Live, Waiting
<1>12. CASE new = <<>>
  <2>1. said' = said
    BY <1>0, <1>12, ConcatEmptySeq
  <2>2. Held = {}
    BY <1>2, <1>12, EmptyRange
  <2> QED BY <1>1, <1>8, <1>9, <1>10, <1>11, <2>1, <2>2 DEF Thread!vars, Held, Refused, RunningTurn
<1>13. CASE new # <<>>
  <2>1. /\ Len(said') = Len(said) + Len(new) /\ Len(said) \in Nat /\ Len(new) \in Nat \ {0}
    BY <1>0, <1>3, <1>13, ConcatProperties, EmptySeq
  <2>2. SubSeq(said', Len(said) + 1, Len(said')) = new
    <3>1. SubSeq(said', Len(said) + 1, Len(said')) = SubSeq(new, Len(said) + 1 - Len(said), Len(said') - Len(said))
      BY <1>0, <1>3, <2>1, SubSeqOfConcat2
    <3>2. Len(said) + 1 - Len(said) = 1 /\ Len(said') - Len(said) = Len(new)
      BY <2>1
    <3> QED BY <1>3, <3>1, <3>2, SubSeqFull
  <2>3. /\ Thread!Range(new) = Held /\ Thread!IsInjective(new) /\ t \in Thread!Range(said')
    BY <1>2, <1>5, SameOperators
  <2>4. Len(said') > Len(said)
    BY <2>1
  <2>5. Held' = Held \ Held
    BY <1>9
  <2>6. Thread!Say
    BY <1>1, <1>10, <1>11, <2>2, <2>3, <2>4, <2>5 DEF Thread!Say, Held, Refused, RunningTurn
  <2> QED BY <1>8, <2>6
<1> QED BY <1>12, <1>13

\* A turn ends: completed, failed, or cancelled, with a note if it had begun.
LEMMA Ends ==
  ASSUME IndInv, SteerInv, NEW t \in Ids, pc[t] \in Live,
         pc' = [pc EXCEPT ![t] = "done"],
         \/ said' = said
         \/ pc[t] \in Begun /\ said' = Append(said, Mark),
         UNCHANGED <<queueVars, active, pending, lost>>
  PROVE  SteerInv' /\ (Thread!Close \/ Thread!Refuse)
<1>0. said \in Seq(Ids \cup {Mark}) /\ pc \in [Ids -> Phases] /\ pending \in Seq(Ids)
  BY SteerTyped
<1>1. /\ active = t /\ RunningTurn = t /\ t # Mark /\ TurnRunning /\ t \notin Range(pending)
      /\ \A u \in Ids : pc[u] = "created" => u = t
  BY OpenIsAlive
<1>2. said' \in Seq(Ids \cup {Mark}) /\ \A u \in Ids : u \in Range(said') <=> u \in Range(said)
  <2>1. CASE said' = said
    BY <1>0, <2>1
  <2>2. CASE said' = Append(said, Mark)
    <3>1. Range(said') = Range(said) \cup {Mark}
      BY <1>0, <2>2, RangeAppend
    <3>2. Mark \notin Ids
      BY DEF Mark, Ids
    <3> QED BY <1>0, <2>2, <3>1, <3>2, AppendProperties
  <2> QED BY <2>1, <2>2
<1>3. /\ pc' \in [Ids -> Phases] /\ pc'[t] = "done"
      /\ \A u \in Ids : u # t => pc'[u] = pc[u]
  BY <1>0 DEF Phases, Begun, Live, Waiting
<1>4. SteerInv'
  <2>1. Unknown' = Unknown
    BY <1>2, <1>3 DEF Unknown, Live, Waiting, Begun
  <2>3. Queued'
    <3>1. \A u \in Range(pending) : u \in Ids
      BY <1>0, RangeOfSeq
    <3>2. \A u \in lost : u \in Ids /\ u # t
      BY LostIsNone DEF Live, Waiting
    <3> QED BY <1>1, <1>2, <1>3, <3>1, <3>2 DEF SteerInv, Queued
  <2>4. Placed'
    BY <1>1, <1>2, <1>3 DEF SteerInv, Placed, Live, Waiting, Begun
  <2> QED BY <2>1, <2>3, <2>4, NumberedStays DEF SteerInv
<1>5. RunningTurn' = Mark
  BY <1>1, <1>3 DEF RunningTurn, TurnRunning, Begun, Live, Waiting
<1>6. Held' = Held \ {t}
  BY <1>1, <1>3 DEF Held
<1>7. CASE pc[t] = "created"
  <2>1. said' = said /\ t \notin Range(said) /\ t \in Held
    BY <1>7 DEF Begun, Live, Waiting, SteerInv, Placed, Held
  <2>2. Refused' = Refused \cup {t}
    BY <1>2, <1>3, <2>1 DEF Refused
  <2>3. Thread!Refuse
    BY <1>1, <1>5, <1>6, <2>1, <2>2 DEF Thread!Refuse, Held, Refused, RunningTurn
  <2> QED BY <1>4, <2>3
<1>8. CASE pc[t] \in Begun
  <2>1. t \in Range(said) /\ t \notin Held
    BY <1>1, <1>8 DEF Begun, Live, Waiting, SteerInv, Placed, Held
  <2>2. Refused' = Refused /\ Held' = Held
    BY <1>2, <1>3, <1>6, <1>8, <2>1 DEF Refused, Begun, Live, Waiting
  <2>3. Thread!Close
    BY <1>1, <1>5, <2>1, <2>2 DEF Thread!Close, Held, Refused, RunningTurn
  <2> QED BY <1>4, <2>3
<1> QED BY <1>7, <1>8 DEF Begun

\* A turn ends because a message could not be recorded: it has said some of what it held, and of the
\* rest what does not go on waiting is dropped.
LEMMA Breaks ==
  ASSUME IndInv, SteerInv, NEW t \in Ids, pc[t] \in Live, pc' = [pc EXCEPT ![t] = "done"],
         NEW new \in Seq(Ids), new # <<>>, IsInjective(new), Range(new) \subseteq Held,
         pc[t] = "created" => t \in Range(new),
         said' = said \o new,
         pending' \in Seq(Ids), IsInjective(pending'), Range(pending') \subseteq Range(pending) \ Range(new),
         lost' = lost \cup (Held \ (Range(new) \cup Range(pending'))),
         UNCHANGED <<queueVars, active>>
  PROVE  SteerInv' /\ Thread!Break
<1> DEFINE dropped == Held \ (Range(new) \cup Range(pending'))
<1>0. /\ pending \in Seq(Ids) /\ said \in Seq(Ids \cup {Mark}) /\ pc \in [Ids -> Phases]
      /\ new \in Seq(Ids \cup {Mark})
  BY SteerTyped
<1>1. /\ active = t /\ RunningTurn = t /\ t # Mark /\ TurnRunning /\ t \notin Range(pending)
      /\ \A u \in Ids : pc[u] = "created" => u = t
  BY OpenIsAlive
<1>2. said' \in Seq(Ids \cup {Mark}) /\ Range(said') = Range(said) \cup Range(new)
  BY <1>0, ConcatProperties, RangeConcatenation
<1>3. /\ pc' \in [Ids -> Phases] /\ pc'[t] = "done"
      /\ \A u \in Ids : u # t => pc'[u] = pc[u]
  BY <1>0 DEF Phases
<1>4. t \in Range(said')
  BY <1>2 DEF SteerInv, Placed, Begun
<1>5. /\ Held = Range(pending) \cup {u \in Ids : pc[u] = "created"} /\ Held \subseteq Ids
      /\ \A u \in Held : u = t \/ u \in Range(pending)
      /\ dropped \subseteq Range(pending)
  <2>1. Range(pending) \subseteq Ids
    BY <1>0, RangeOfSeq
  <2>2. \A u \in Held : u = t \/ u \in Range(pending)
    BY <1>1 DEF Held
  <2>3. t \notin dropped
    BY <1>1 DEF Held
  <2> QED BY <2>1, <2>2, <2>3 DEF Held
<1>6. Unknown' = Unknown
  BY <1>1, <1>2, <1>3, <1>5 DEF Unknown, Live, Waiting, SteerInv, Queued
<1>7. Queued'
  <2>1. \A u \in Range(pending') : u \in Ids /\ u # t /\ u \in Range(pending) /\ u \notin Range(new)
    BY <1>1, <1>5
  <2>2. \A u \in lost : u # t /\ u \in Ids /\ u \notin Held
    <3>1. lost \subseteq Ids
      BY DEF IndInv, Typed, TypeOK
    <3> QED BY <3>1 DEF SteerInv, Queued, Held, Live, Waiting
  <2>3. \A u \in lost' : pc'[u] = "none" /\ u \notin Range(said') /\ u \notin Range(pending')
    <3>1. ASSUME NEW u \in lost PROVE pc'[u] = "none" /\ u \notin Range(said') /\ u \notin Range(pending')
      BY <1>2, <1>3, <2>1, <2>2 DEF SteerInv, Queued, Held
    <3>2. ASSUME NEW u \in dropped PROVE pc'[u] = "none" /\ u \notin Range(said') /\ u \notin Range(pending')
      BY <1>1, <1>2, <1>3, <1>5 DEF SteerInv, Queued
    <3> QED BY <3>1, <3>2
  <2> QED BY <1>2, <1>3, <2>1, <2>3 DEF SteerInv, Queued
<1>8. Placed'
  BY <1>1, <1>2, <1>3 DEF SteerInv, Placed, Live, Waiting, Begun
<1>9. SteerInv'
  BY <1>6, <1>7, <1>8, NumberedStays DEF SteerInv
<1>10. RunningTurn' = Mark
  BY <1>1, <1>3 DEF RunningTurn, TurnRunning
<1>11. Held' = Held \ (Range(new) \cup dropped)
  <2>1. Held' = Range(pending')
    BY <1>1, <1>3 DEF Held
  <2>2. Range(pending') \subseteq Held
    BY <1>5
  <2> QED BY <2>1, <2>2
<1>12. Refused' = Refused \cup dropped
  <2>1. { u \in Ids : pc'[u] = "done" /\ u \notin Range(said') } = { u \in Ids : pc[u] = "done" /\ u \notin Range(said) }
    <3>1. \A u \in Held : pc[u] # "done"
      BY <1>5 DEF SteerInv, Queued, Live, Waiting
    <3> QED BY <1>2, <1>3, <1>4, <3>1
  <2> QED BY <2>1 DEF Refused
<1>13. /\ Len(said') = Len(said) + Len(new) /\ Len(said) \in Nat /\ Len(new) \in Nat \ {0}
  BY <1>0, ConcatProperties, EmptySeq
<1>14. SubSeq(said', Len(said) + 1, Len(said')) = new
  <2>1. SubSeq(said', Len(said) + 1, Len(said')) = SubSeq(new, Len(said) + 1 - Len(said), Len(said') - Len(said))
    BY <1>0, <1>13, SubSeqOfConcat2
  <2>2. Len(said) + 1 - Len(said) = 1 /\ Len(said') - Len(said) = Len(new)
    BY <1>13
  <2> QED BY <2>1, <2>2, SubSeqFull
<1>15. Len(said') > Len(said)
  BY <1>13
<1>16. Thread!Range(new) = Range(new) /\ Thread!IsInjective(new) /\ t \in Thread!Range(said')
  BY <1>4, SameOperators
<1>17. dropped \in SUBSET (Held \ Range(new))
  OBVIOUS
<1> HIDE DEF dropped
<1>18. Thread!Break
  BY <1>1, <1>10, <1>11, <1>12, <1>14, <1>15, <1>16, <1>17 DEF Thread!Break, Held, Refused, RunningTurn
<1> QED BY <1>9, <1>18

-----------------------------------------------------------------------------
(* The pieces of the handlers, and then the handlers.                      *)

Steers == SteerInv' /\ (Thread!Next \/ UNCHANGED Thread!vars)

LEMMA StepBoundarySteers ==
  ASSUME IndInv, SteerInv, NEW t \in Ids, NEW base, StepBoundary(t, base),
         UNCHANGED <<queueVars, active, lost>>,
         \/ pc[t] = "created" /\ base = Append(said, t)
         \/ pc[t] \in Begun /\ base = said
  PROVE  Steers
<1>1. PICK phase \in {"streaming", "compacting"} : pc' = [pc EXCEPT ![t] = phase]
  BY DEF StepBoundary, Go
<1>2. phase \in Begun
  BY DEF Begun, Live, Waiting
<1>3. said' = base \o pending /\ pending' = <<>>
  BY DEF StepBoundary
<1>4. CASE pc[t] = "created" /\ base = Append(said, t)
  <2> DEFINE one == <<t>>
  <2>1. /\ one \in Seq(Ids \cup {Mark}) /\ pending \in Seq(Ids \cup {Mark}) /\ said \in Seq(Ids \cup {Mark})
    BY SteerTyped
  <2>2. Append(said, t) = said \o one
    BY <2>1, AppendIsConcat
  <2> HIDE DEF one
  <2>3. (said \o one) \o pending = said \o (one \o pending)
    BY <2>1, ConcatAssociative
  <2>4. said' = said \o (<<t>> \o pending)
    BY <1>3, <1>4, <2>2, <2>3 DEF one
  <2> QED BY <1>1, <1>2, <1>3, <1>4, <2>4, Speaks DEF Steers, Thread!Next
<1>5. CASE pc[t] \in Begun /\ base = said
  BY <1>1, <1>2, <1>3, <1>5, Speaks DEF Steers, Thread!Next
<1> QED BY <1>4, <1>5

LEMMA RecordOutputSteers ==
  ASSUME IndInv, SteerInv, NEW t \in Ids, pc[t] \in Begun, RecordOutput(t),
         UNCHANGED <<queueVars, active, lost>>
  PROVE  Steers
<1>1. CASE StepBoundary(t, said)
  BY <1>1, StepBoundarySteers
<1>2. CASE Go(t, "dispatch") /\ UNCHANGED <<said, pending>>
  <2>1. "dispatch" \in Begun
    BY DEF Begun, Live
  <2> QED BY <1>2, <2>1, WorksOn DEF Go, Steers
<1> QED BY <1>1, <1>2 DEF RecordOutput

LEMMA FailSteers ==
  ASSUME IndInv, SteerInv, NEW t \in Ids, pc[t] \in Begun, NEW before, Fail(t, before),
         UNCHANGED <<queueVars, active, lost>>
  PROVE  Steers
  BY Ends DEF Fail, Go, Begun, Steers, Thread!Next

LEMMA QueueSteps ==
  ASSUME IndInv, SteerInv,
         \/ \E op \in Ops : Submit(op)
         \/ LoopStep \/ Render
         \/ \E d \in Decisions : AnswerApproval(d)
  PROVE  Steers
<1>0. TypeOK
  BY DEF IndInv, Typed
<1>1. ASSUME NEW op \in Ops, Submit(op) PROVE Steers
  <2> DEFINE s == [op |-> op, id |-> nextSub]
  <2>1. /\ s \in Submission /\ submissions' = Append(submissions, s) /\ s.op = op /\ s.id = nextSub
        /\ nextSub \in Ids /\ nextSub' = nextSub + 1
    BY <1>1 DEF Submit, Submission
  <2>2. UNCHANGED <<active, pc, pending, said, lost>>
    BY <1>1 DEF Submit, taskVars, convVars, rollVars
  <2> HIDE DEF s
  <2>3. SteerInv'
    BY <1>0, <2>1, <2>2, Enqueues
  <2> QED BY <2>2, <2>3 DEF Steers, Thread!vars, RunningTurn, TurnRunning
<1>2. ASSUME NEW d \in Decisions, AnswerApproval(d) PROVE Steers
  <2> DEFINE s == [op |-> "ExecApproval", call |-> asking, decision |-> d]
  <2>1. /\ s \in Submission /\ submissions' = Append(submissions, s) /\ s.op = "ExecApproval" /\ nextSub' = nextSub
    BY <1>0, <1>2 DEF AnswerApproval, Submission, TypeOK, Calls
  <2>2. UNCHANGED <<active, pc, pending, said, lost>>
    BY <1>2 DEF AnswerApproval, taskVars, convVars, rollVars
  <2> HIDE DEF s
  <2>3. SteerInv'
    BY <1>0, <2>1, <2>2, Enqueues
  <2> QED BY <2>2, <2>3 DEF Steers, Thread!vars, RunningTurn, TurnRunning
<1>3. CASE LoopUserTurn
  BY <1>3, LoopUserTurnSteers DEF Steers, Thread!Next
<1>4. ASSUME NEW op, Receive(op), UNCHANGED <<active, pc, pending, said, lost>> PROVE Steers
  BY <1>0, <1>4, Dequeues DEF Steers, Thread!vars, RunningTurn, TurnRunning
<1>5. CASE LoopExecApproval \/ LoopCompact
  BY <1>4, <1>5 DEF LoopExecApproval, LoopCompact, taskVars, convVars, rollVars
<1>6. CASE LoopInterrupt \/ LoopShutdown
  BY <1>4, <1>6 DEF LoopInterrupt, LoopShutdown, convVars, rollVars
<1>7. CASE LoopCompactDone \/ LoopCompactRaises \/ Render
  BY <1>7, Unseen DEF Steers, LoopCompactDone, LoopCompactRaises, Render, RebuildHistory, taskVars, convVars, rollVars
<1> QED BY <1>1, <1>2, <1>3, <1>5, <1>6, <1>7 DEF LoopStep

\* The messages that have waited longest.
Fronts(front) == Len(front) <= Len(pending) /\ \A i \in 1 .. Len(front) : front[i] = pending[i]

\* What a broken drain has said is the front of what waited, and the rest is dropped.
LEMMA DrainSplits ==
  ASSUME IndInv, SteerInv, NEW base, DrainBreaks(base)
  PROVE  \E front \in Seq(Ids) :
           /\ front # <<>> /\ Fronts(front) /\ IsInjective(front) /\ Range(front) \subseteq Range(pending)
           /\ said' = base \o front
           /\ lost' = lost \cup (Range(pending) \ Range(front))
<1>1. PICK k \in DOMAIN pending :
        /\ said' = base \o SubSeq(pending, 1, k)
        /\ lost' = lost \cup { pending[i] : i \in k + 1 .. Len(pending) }
  BY DEF DrainBreaks
<1>2. pending \in Seq(Ids) /\ k \in 1 .. Len(pending) /\ Len(pending) \in Nat /\ IsInjective(pending)
  BY <1>1, SteerTyped DEF SteerInv, Queued
<1> DEFINE front == SubSeq(pending, 1, k)
<1>3. /\ front \in Seq(Ids) /\ Len(front) = k /\ \A i \in 1 .. k : front[i] = pending[i]
  BY <1>2, SubSeqProperties
<1> HIDE DEF front
<1>4. DOMAIN front = 1 .. k /\ DOMAIN pending = 1 .. Len(pending)
  BY <1>2, <1>3
<1>5. front # <<>>
  BY <1>2, <1>3
<1>6. IsInjective(front) /\ Range(front) \subseteq Range(pending)
  BY <1>2, <1>3, <1>4 DEF IsInjective, Range
<1>7. { pending[i] : i \in k + 1 .. Len(pending) } = Range(pending) \ Range(front)
  <2>1. Range(front) = { pending[i] : i \in 1 .. k }
    BY <1>3, <1>4 DEF Range
  <2>2. Range(pending) = { pending[i] : i \in 1 .. Len(pending) }
    BY <1>4 DEF Range
  <2>3. \A i, j \in 1 .. Len(pending) : pending[i] = pending[j] => i = j
    BY <1>2, <1>4 DEF IsInjective
  <2>4. \A i \in k + 1 .. Len(pending) : i \in 1 .. Len(pending) /\ \A j \in 1 .. k : j \in 1 .. Len(pending) /\ i # j
    BY <1>2
  <2>5. \A i \in 1 .. Len(pending) : i \in 1 .. k \/ i \in k + 1 .. Len(pending)
    BY <1>2
  <2> QED BY <2>1, <2>2, <2>3, <2>4, <2>5
<1>8. Fronts(front)
  BY <1>2, <1>3 DEF Fronts
<1> QED BY <1>1, <1>3, <1>5, <1>6, <1>7, <1>8 DEF front

LEMMA BreakSteers ==
  ASSUME IndInv, SteerInv, NEW t \in Ids, AppendFails(t)
  PROVE  Steers
<1>1. /\ pc[t] \in Live /\ pc' = [pc EXCEPT ![t] = "done"] /\ UNCHANGED <<queueVars, active>>
  BY BreakFrame DEF IndInv, AppendFails, StartBreaks, CancelBreaks, StreamBreaks, OutputBreaks, BeginBreaks, Dies, Go
<1>2. /\ pending \in Seq(Ids) /\ said \in Seq(Ids \cup {Mark}) /\ pc \in [Ids -> Phases] /\ IsInjective(pending)
      /\ t \notin Range(pending)
  BY <1>1, SteerTyped, OpenIsAlive DEF SteerInv, Queued
<1>3. CASE UNCHANGED <<said, pending, lost>>
  BY <1>1, <1>3, Ends DEF Steers, Thread!Next
<1>4. CASE CancelBreaks(t)
  <2>1. said' = Append(said, Mark) /\ UNCHANGED <<pending, lost>> /\ pc[t] \in Begun
    BY <1>4 DEF CancelBreaks, Begun, Live, Waiting
  <2> QED BY <1>1, <2>1, Ends DEF Steers, Thread!Next
<1>5. CASE pc[t] \in Begun /\ DrainBreaks(said)
  <2>1. PICK front \in Seq(Ids) :
          /\ front # <<>> /\ IsInjective(front) /\ Range(front) \subseteq Range(pending)
          /\ said' = said \o front
          /\ lost' = lost \cup (Range(pending) \ Range(front))
    BY <1>5, DrainSplits
  <2>2. pending' \in Seq(Ids) /\ IsInjective(pending') /\ Range(pending') = {}
    BY <1>5, EmptyRange DEF DrainBreaks
  <2>3. Held = Range(pending) /\ pc[t] # "created"
    BY <1>1, <1>5, OpenIsAlive DEF Held, Begun, Live, Waiting
  <2>4. lost' = lost \cup (Held \ (Range(front) \cup Range(pending')))
    BY <2>1, <2>2, <2>3
  <2>5. SteerInv' /\ Thread!Break
    BY <1>1, <2>1, <2>2, <2>3, <2>4, Breaks
  <2> QED BY <2>5 DEF Steers, Thread!Next
<1>6. CASE StartBreaks(t)
  <2>1. pc[t] = "created"
    BY <1>6 DEF StartBreaks, Resume
  <2>2. Held = {t} \cup Range(pending)
    BY <1>1, <2>1, OpenIsAlive DEF Held
  <2>3. CASE said' = Append(said, t) /\ UNCHANGED <<pending, lost>>
    <3> DEFINE one == <<t>>
    <3>1. one \in Seq(Ids) /\ one # <<>> /\ IsInjective(one) /\ Range(one) = {t}
      BY DEF IsInjective, Range
    <3>2. said' = said \o one
      BY <1>2, <2>3, AppendIsConcat
    <3> HIDE DEF one
    <3>3. pending' \in Seq(Ids) /\ IsInjective(pending') /\ Range(pending') = Range(pending)
      BY <1>2, <2>3
    <3>4. lost' = lost \cup (Held \ (Range(one) \cup Range(pending')))
      BY <2>2, <2>3, <3>1, <3>3
    <3>5. Range(one) \subseteq Held /\ Range(pending') \subseteq Range(pending) \ Range(one) /\ t \in Range(one)
      BY <1>2, <2>2, <3>1, <3>3
    <3>6. SteerInv' /\ Thread!Break
      BY <1>1, <3>1, <3>2, <3>3, <3>4, <3>5, Breaks
    <3> QED BY <3>6 DEF Steers, Thread!Next
  <2>4. CASE DrainBreaks(Append(said, t))
    <3>1. PICK front \in Seq(Ids) :
            /\ front # <<>> /\ IsInjective(front) /\ Range(front) \subseteq Range(pending)
            /\ said' = Append(said, t) \o front
            /\ lost' = lost \cup (Range(pending) \ Range(front))
      BY <2>4, DrainSplits
    <3> DEFINE new == <<t>> \o front
    <3>2. new \in Seq(Ids) /\ new # <<>> /\ IsInjective(new) /\ Range(new) = {t} \cup Range(front)
      BY <1>2, <3>1, ConsInjection
    <3>3. said' = said \o new
      <4> DEFINE one == <<t>>
      <4>1. one \in Seq(Ids \cup {Mark}) /\ front \in Seq(Ids \cup {Mark}) /\ Append(said, t) = said \o one
        BY <1>2, <3>1, AppendIsConcat
      <4> HIDE DEF one
      <4>2. (said \o one) \o front = said \o (one \o front)
        BY <1>2, <4>1, ConcatAssociative
      <4> QED BY <3>1, <4>1, <4>2 DEF one
    <3> HIDE DEF new
    <3>4. pending' \in Seq(Ids) /\ IsInjective(pending') /\ Range(pending') = {}
      BY <2>4, EmptyRange DEF DrainBreaks
    <3>5. lost' = lost \cup (Held \ (Range(new) \cup Range(pending')))
      BY <1>2, <2>2, <3>1, <3>2, <3>4
    <3>6. Range(new) \subseteq Held /\ t \in Range(new)
      BY <2>2, <3>1, <3>2
    <3>7. SteerInv' /\ Thread!Break
      BY <1>1, <3>2, <3>3, <3>4, <3>5, <3>6, Breaks
    <3> QED BY <3>7 DEF Steers, Thread!Next
  <2> QED BY <1>6, <2>3, <2>4 DEF StartBreaks
<1>7. CASE StreamBreaks(t)
  <2>1. pc[t] \in Begun
    BY <1>7 DEF StreamBreaks, Resume, Begun, Live, Waiting
  <2>2. UNCHANGED <<said, pending, lost>> \/ DrainBreaks(said)
    BY <1>7 DEF StreamBreaks, rollVars
  <2> QED BY <1>3, <1>5, <2>1, <2>2
<1>8. CASE OutputBreaks(t)
  <2>1. pc[t] \in Begun
    BY <1>8 DEF OutputBreaks, Resume, Begun, Live, Waiting
  <2>2. UNCHANGED <<said, pending, lost>> \/ DrainBreaks(said)
    BY <1>8 DEF OutputBreaks
  <2> QED BY <1>3, <1>5, <2>1, <2>2
<1>9. CASE BeginBreaks(t)
  BY <1>3, <1>9 DEF BeginBreaks, convVars, rollVars
<1> QED BY <1>4, <1>6, <1>7, <1>8, <1>9 DEF AppendFails

LEMMA TurnSteps ==
  ASSUME IndInv, SteerInv, NEW t \in Ids, TurnStep(t)
  PROVE  Steers
<1>0. pc \in [Ids -> Phases]
  BY SteerTyped
<1>1. CASE TurnStart(t)
  <2>1. pc[t] = "created" /\ UNCHANGED <<queueVars, active, lost>>
    BY <1>1 DEF TurnStart, Resume, rollVars
  <2>2. CASE Go(t, "done") /\ UNCHANGED <<said, pending>>
    BY <2>1, <2>2, Ends DEF Go, Live, Steers, Thread!Next
  <2>3. CASE StepBoundary(t, Append(said, t))
    BY <2>1, <2>3, StepBoundarySteers
  <2> QED BY <1>1, <2>2, <2>3 DEF TurnStart
<1>2. CASE TurnCompacted(t)
  <2>1. /\ pc[t] = "compacting" /\ pc' = [pc EXCEPT ![t] = "streaming"]
        /\ UNCHANGED <<queueVars, active, pending, said, lost>>
    BY <1>2 DEF TurnCompacted, Resume, RebuildHistory, Go, rollVars
  <2> QED BY <2>1, WorksOn DEF Begun, Live, Waiting, Steers
<1>3. CASE StreamCall(t)
  BY <1>3, Unseen DEF StreamCall, Steers, rollVars
<1>4. CASE StreamEnd(t)
  <2>1. pc[t] = "streaming" /\ pc[t] \in Begun /\ UNCHANGED <<queueVars, active, lost>>
    BY <1>4 DEF StreamEnd, Resume, Begun, Live, Waiting, rollVars
  <2>2. CASE Go(t, "dispatch") /\ UNCHANGED <<said, pending>>
    <3>1. "dispatch" \in Begun
      BY DEF Begun, Live
    <3> QED BY <2>1, <2>2, <3>1, WorksOn DEF Go, Steers
  <2>3. CASE StepBoundary(t, said)
    BY <2>1, <2>3, StepBoundarySteers
  <2>4. CASE Go(t, "done") /\ UNCHANGED <<said, pending>>
    BY <2>1, <2>4, Ends DEF Go, Begun, Steers, Thread!Next
  <2> QED BY <1>4, <2>2, <2>3, <2>4 DEF StreamEnd
<1>5. CASE TurnCancelled(t)
  <2>1. /\ pc[t] \in Live /\ pc' = [pc EXCEPT ![t] = "done"] /\ UNCHANGED <<queueVars, active, pending, lost>>
        /\ said' = said \/ (pc[t] \in Begun /\ said' = Append(said, Mark))
    BY <1>5 DEF TurnCancelled, Go, Live, Begun, Waiting, rollVars
  <2> QED BY <2>1, Ends DEF Steers, Thread!Next
<1>6. CASE TurnError(t)
  <2>1. pc[t] \in Begun /\ UNCHANGED <<queueVars, active, lost>>
    BY <1>6 DEF TurnError, Resume, Begun, Live, Waiting, rollVars
  <2>2. CASE Fail(t, <<>>)
    BY <2>1, <2>2, FailSteers
  <2>3. CASE Fail(t, <<CallEv(t, "ExecCommandEnd", Head(todo[t]))>>)
    BY <2>1, <2>3, FailSteers
  <2> QED BY <1>6, <2>2, <2>3 DEF TurnError
<1>7. CASE DispatchInline(t) \/ McpDone(t) \/ ExecDone(t)
  <2>1. pc[t] \in Begun /\ UNCHANGED <<queueVars, active, lost>> /\ RecordOutput(t)
    BY <1>7 DEF DispatchInline, McpDone, ExecDone, Resume, Begun, Live, Waiting, rollVars
  <2> QED BY <2>1, RecordOutputSteers
<1>8. ASSUME NEW phase \in {"mcp", "ask", "exec", "execFull", "askEscalate"}, pc[t] \in {"dispatch", "exec"},
             Go(t, phase), UNCHANGED <<queueVars, active, pending, said, lost>>
      PROVE  Steers
  BY <1>8, WorksOn DEF Go, Begun, Live, Waiting, Steers
<1>9. CASE DispatchMcp(t)
  BY <1>8, <1>9 DEF DispatchMcp, convVars, rollVars
<1>10. CASE DispatchExec(t)
  <2>1. pc[t] = "dispatch" /\ UNCHANGED <<queueVars, active, pending, said, lost>>
    BY <1>10 DEF DispatchExec, convVars, rollVars
  <2>2. Go(t, "ask") \/ Go(t, "exec") \/ Go(t, "execFull")
    BY <1>10 DEF DispatchExec, Ask
  <2> QED BY <1>8, <2>1, <2>2
<1>11. CASE ExecDenied(t)
  <2>1. pc[t] = "exec" /\ pc[t] \in Begun /\ UNCHANGED <<queueVars, active, lost>>
    BY <1>11 DEF ExecDenied, Resume, Begun, Live, Waiting, rollVars
  <2>2. CASE RecordOutput(t)
    BY <2>1, <2>2, RecordOutputSteers
  <2>3. CASE Ask(t, "askEscalate") /\ UNCHANGED <<said, pending>>
    BY <1>8, <2>1, <2>3 DEF Ask
  <2> QED BY <1>11, <2>2, <2>3 DEF ExecDenied
<1>12. CASE Decided(t)
  <2>1. pc[t] \in Begun /\ UNCHANGED <<queueVars, active, lost>>
    BY <1>12 DEF Decided, Resume, Begun, Live, Waiting, rollVars
  <2>2. CASE RecordOutput(t)
    BY <2>1, <2>2, RecordOutputSteers
  <2>3. ASSUME NEW before, Fail(t, before) PROVE Steers
    BY <2>1, <2>3, FailSteers
  <2>4. RecordOutput(t) \/ \E before : Fail(t, before)
    BY <1>12 DEF Decided
  <2> QED BY <2>2, <2>3, <2>4
<1>13. CASE AppendFails(t)
  BY <1>13, BreakSteers
<1> QED BY <1>1, <1>2, <1>3, <1>4, <1>5, <1>6, <1>7, <1>9, <1>10, <1>11, <1>12, <1>13, TurnStep(t) DEF TurnStep

LEMMA NextSteers == IndInv /\ SteerInv /\ [Next]_vars => Steers
<1> SUFFICES ASSUME IndInv, SteerInv, [Next]_vars PROVE Steers
  OBVIOUS
<1>1. CASE Next
  BY <1>1, QueueSteps, TurnSteps DEF Next
<1>2. CASE UNCHANGED vars
  <2>1. UNCHANGED <<queueVars, active, pc, pending, said, lost>>
    BY <1>2 DEF vars, taskVars, convVars, rollVars
  <2> QED BY <2>1, Unseen DEF Steers
<1> QED BY <1>1, <1>2

\* What the refinement rests on: a message is in one place, and a turn has said its own once it has begun.
THEOREM SteeringInductive == Spec => []SteerInv
<1>1. IndInv /\ SteerInv /\ [Next]_vars => SteerInv'
  BY NextSteers DEF Steers
<1> QED BY <1>1, SteerStarts, Inductive, PTL DEF Spec

\* For any number of submissions and calls, the kernel does what Steering promises: a message that is accepted
\* waits, and is said once or refused, and one that comes while a turn runs opens no other, whatever is
\* interrupted, compacted, refused or failing meanwhile (_submission_loop, run_turn).
THEOREM SteeringImplemented == Spec => ImplementsSteering
<1>1. Init => Thread!Init
  BY EmptyRange DEF Init, Thread!Init, RunningTurn, TurnRunning, Mark, Ids
<1>2. IndInv /\ SteerInv /\ [Next]_vars => [Thread!Next]_Thread!vars
  BY NextSteers DEF Steers
<1> QED BY <1>1, <1>2, SteeringInductive, Inductive, PTL DEF Spec, ImplementsSteering, Thread!Spec

-----------------------------------------------------------------------------
(* What a turn tells: its events, and what it says.  Five kinds of steps.  *)

OfTurn(t) == { e \in Event : e.sub = t }
Chat(t)   == { e \in OfTurn(t) : e.msg \notin Terminal }

\* The turn works on, and may fold the waiting messages into history.
GoesOn(t) ==
  /\ pc[t] \in Begun /\ pc'[t] \in Begun
  /\ Adds(Chat(t))
  /\ \/ UNCHANGED <<pending, said>>
     \/ pending' = <<>> /\ said' = said \o pending
  /\ pc'[t] = "streaming" => pc[t] \in {"streaming", "compacting"} \/ pending' = <<>>
  /\ UNCHANGED lost

Starts(t) ==
  /\ pc[t] = "created" /\ pc'[t] \in Begun
  /\ Emit(Ev(t, "TaskStarted"))
  /\ pending' = <<>> /\ said' = Append(said, t) \o pending
  /\ UNCHANGED lost

\* The turn ends before its first request: unsaid, or as the append of its own message or of another fails.
StopsShort(t) ==
  /\ pc[t] = "created" /\ pc'[t] = "done"
  /\ \/ /\ UNCHANGED <<pending, said, lost>>
        /\ \/ events' = events
           \/ Emit(Ev(t, "TaskStarted"))
           \/ events' = Append(Append(Append(events, Ev(t, "TaskStarted")), Ev(t, "ErrorEvent")), Ev(t, "TaskComplete"))
     \/ /\ DrainBreaks(Append(said, t))
        /\ events' = Append(Append(events, Ev(t, "TaskStarted")), Ev(t, "ErrorEvent"))
     \/ /\ said' = Append(said, t) /\ UNCHANGED <<pending, lost>>
        /\ Emit(Ev(t, "TaskStarted"))
        /\ t \in torn'

\* The stream is longer by work of turn t and, last, one ending; it completes only with nothing left.
AddsEnding(t) ==
  /\ Adds(OfTurn(t))
  /\ Len(events') > Len(events) /\ events'[Len(events')].msg \in Terminal
  /\ \A i \in DOMAIN events' : i > Len(events) =>
       /\ events'[i].msg \in Terminal => i = Len(events')
       /\ events'[i].msg = "TaskComplete" => pending = <<>> /\ todo[t] = <<>>

Concludes(t) ==
  /\ pc[t] \in Begun /\ pc'[t] = "done"
  /\ \/ UNCHANGED <<pending, lost>> /\ (said' = said \/ said' = Append(said, Mark))
     \/ DrainBreaks(said)
  /\ AddsEnding(t)

\* The stream is longer by work of turn t and, last, its completion and an error.
AddsTwoEndings(t) ==
  /\ Adds(OfTurn(t))
  /\ Len(events') > Len(events) + 1 /\ Len(events') \in DOMAIN events' /\ Len(events') - 1 \in DOMAIN events'
  /\ events'[Len(events')] = Ev(t, "ErrorEvent") /\ events'[Len(events') - 1] = Ev(t, "TaskComplete")
  /\ \A i \in DOMAIN events' : i > Len(events) /\ events'[i].msg \in Terminal =>
       i = Len(events') \/ i = Len(events') - 1

\* A failed append spoils the ending: of the mark, which is the last word then, or of task_complete.
Tears(t) ==
  /\ pc[t] \in Begun /\ pc'[t] = "done"
  /\ UNCHANGED <<pending, lost>>
  /\ t \in torn'
  /\ \/ said' = Append(said, Mark) /\ events' = events
     \/ said' = said /\ AddsTwoEndings(t)

Tells(t) == torn \subseteq torn' /\ (GoesOn(t) \/ Starts(t) \/ StopsShort(t) \/ Concludes(t) \/ Tears(t))

LEMMA Longer ==
  ASSUME NEW S, NEW a \in Seq(S), NEW b \in Seq(S)
  PROVE  /\ a \o b \in Seq(S)
         /\ Len(a) \in Nat /\ Len(b) \in Nat /\ Len(a \o b) = Len(a) + Len(b)
         /\ DOMAIN (a \o b) = 1 .. Len(a \o b)
         /\ \A i \in 1 .. Len(a \o b) : (a \o b)[i] = IF i <= Len(a) THEN a[i] ELSE b[i - Len(a)]
  BY ConcatProperties, LenProperties

LEMMA AddsEnds ==
  ASSUME TypeOK, NEW t \in Ids, NEW s \in Seq(Event), NEW e \in Event, events' = (events \o s) \o <<e>>,
         \A j \in DOMAIN s : s[j] \in Chat(t), e \in OfTurn(t), e.msg \in Terminal,
         e.msg = "TaskComplete" => pending = <<>> /\ todo[t] = <<>>
  PROVE  AddsEnding(t)
<1>1. /\ events \in Seq(Event) /\ <<e>> \in Seq(Event) /\ Len(s) \in Nat /\ Len(events) \in Nat
      /\ DOMAIN s = 1 .. Len(s)
  BY LenProperties DEF TypeOK
<1>2. events' = events \o (s \o <<e>>) /\ s \o <<e>> = Append(s, e)
  BY <1>1, ConcatAssociative, AppendIsConcat
<1> DEFINE more == Append(s, e)
<1>3. /\ more \in Seq(Event) /\ Len(more) = Len(s) + 1 /\ DOMAIN more = 1 .. Len(s) + 1
      /\ \A j \in 1 .. Len(s) + 1 : more[j] = IF j <= Len(s) THEN s[j] ELSE e
  BY <1>1, AppendProperties, LenProperties
<1>4. \A j \in DOMAIN more : more[j] \in OfTurn(t)
  BY <1>1, <1>3 DEF Chat
<1> HIDE DEF more
<1>5. events' = events \o more
  BY <1>2 DEF more
<1>6. Adds(OfTurn(t))
  BY <1>3, <1>4, <1>5, AddsMany
<1>7. /\ Len(events') = Len(events) + Len(more) /\ DOMAIN events' = 1 .. Len(events')
      /\ \A i \in 1 .. Len(events') : events'[i] = IF i <= Len(events) THEN events[i] ELSE more[i - Len(events)]
  <2>1. events \in Seq(Event) /\ more \in Seq(Event)
    BY <1>1, <1>3
  <2> QED BY ONLY <1>5, <2>1, Longer
<1>8. Len(events') = Len(events) + Len(s) + 1
  BY <1>1, <1>3, <1>7
<1>9. events'[Len(events')] = e
  BY <1>1, <1>3, <1>7, <1>8
<1>10. ASSUME NEW i \in DOMAIN events', i > Len(events), i # Len(events')
       PROVE  events'[i] \in Chat(t)
  <2>1. i - Len(events) \in 1 .. Len(s)
    <3>1. i \in 1 .. Len(events')
      BY <1>7
    <3> QED BY ONLY <1>1, <1>8, <1>10, <3>1
  <2>2. events'[i] = more[i - Len(events)] /\ more[i - Len(events)] = s[i - Len(events)]
    BY <1>1, <1>3, <1>7, <1>8, <1>10, <2>1
  <2> QED BY <1>1, <2>1, <2>2
<1>11. ASSUME NEW i \in DOMAIN events', i > Len(events)
       PROVE  /\ events'[i].msg \in Terminal => i = Len(events')
              /\ events'[i].msg = "TaskComplete" => pending = <<>> /\ todo[t] = <<>>
  BY <1>9, <1>10, <1>11 DEF Chat, Terminal
<1>12. Len(events') > Len(events)
  BY <1>1, <1>8
<1> QED BY <1>6, <1>9, <1>11, <1>12 DEF AddsEnding

\* The events a turn writes are its own; these are not endings.
LEMMA TurnsEvents ==
  ASSUME NEW t \in Ids
  PROVE  /\ \A m \in Kinds : Ev(t, m) \in OfTurn(t) /\ Ev(t, m).msg = m
         /\ \A m \in Kinds, c \in Calls : CallEv(t, m, c) \in OfTurn(t) /\ CallEv(t, m, c).msg = m
         /\ \A m \in {"ContextCompacted", "TurnDiff"} : Ev(t, m) \in Event /\ Ev(t, m) \in Chat(t)
         /\ \A m \in {"ExecApprovalRequest", "BeginSandboxed", "BeginUnsandboxed", "ExecCommandEnd"}, c \in Calls :
              CallEv(t, m, c) \in Event /\ CallEv(t, m, c) \in Chat(t)
<1>1. t \in 0 .. MaxSubs /\ Calls \subseteq 0 .. MaxCalls /\ 0 \in 0 .. MaxCalls
  BY DEF Ids, Calls
<1>2. ASSUME NEW m \in Kinds PROVE Ev(t, m) \in OfTurn(t) /\ Ev(t, m).msg = m
  <2>1. Ev(t, m) \in Event
    BY <1>1, EventTyped
  <2> QED BY <2>1 DEF Ev, OfTurn
<1>3. ASSUME NEW m \in Kinds, NEW c \in Calls PROVE CallEv(t, m, c) \in OfTurn(t) /\ CallEv(t, m, c).msg = m
  <2>1. CallEv(t, m, c) \in Event
    BY <1>1, EventTyped
  <2> QED BY <2>1 DEF CallEv, OfTurn
<1>4. ASSUME NEW m \in {"ContextCompacted", "TurnDiff"} PROVE Ev(t, m) \in Event /\ Ev(t, m) \in Chat(t)
  <2>1. m \in Kinds /\ m \notin Terminal
    BY DEF Kinds, Terminal
  <2> QED BY <1>2, <2>1 DEF OfTurn, Chat
<1>5. ASSUME NEW m \in {"ExecApprovalRequest", "BeginSandboxed", "BeginUnsandboxed", "ExecCommandEnd"}, NEW c \in Calls
      PROVE  CallEv(t, m, c) \in Event /\ CallEv(t, m, c) \in Chat(t)
  <2>1. m \in Kinds /\ m \notin Terminal
    BY DEF Kinds, Terminal
  <2> QED BY <1>3, <2>1 DEF OfTurn, Chat
<1> QED BY <1>2, <1>3, <1>4, <1>5

LEMMA FailConcludes ==
  ASSUME Typed, NEW t \in Ids, pc[t] \in Begun, NEW before \in Seq(Event), Fail(t, before),
         \A j \in DOMAIN before : before[j] \in Chat(t), UNCHANGED lost
  PROVE  Concludes(t)
<1> DEFINE e == Ev(t, "ErrorEvent")
<1>1. e \in Event /\ e \in OfTurn(t) /\ e.msg = "ErrorEvent" /\ "ErrorEvent" \in Terminal /\ "ErrorEvent" # "TaskComplete"
  BY TurnsEvents DEF Kinds, Terminal, OfTurn
<1>2. /\ events' = (events \o before) \o <<e>> /\ UNCHANGED <<said, pending>> /\ pc'[t] = "done"
  BY DEF Fail, Go, Typed, TypeOK
<1> HIDE DEF e
<1>3. AddsEnding(t)
  BY <1>1, <1>2, AddsEnds DEF Typed
<1> QED BY <1>2, <1>3 DEF Concludes

LEMMA OutputGoesOn ==
  ASSUME Typed, NEW t \in Ids, pc[t] \in Calling, RecordOutput(t), Adds(Chat(t)), UNCHANGED lost
  PROVE  GoesOn(t)
<1>1. TypeOK /\ todo[t] # <<>> /\ pc[t] \in Begun
  BY DEF Typed, CallInHand, Calling, Begun, Live, Waiting
<1>2. pc'[t] \in Begun
  BY CallsAfterOutput
<1>3. CASE Tail(todo[t]) # <<>>
  BY <1>1, <1>2, <1>3 DEF RecordOutput, Go, GoesOn, TypeOK
<1>4. CASE Tail(todo[t]) = <<>>
  BY <1>1, <1>2, <1>4 DEF RecordOutput, StepBoundary, GoesOn
<1> QED BY <1>3, <1>4

\* Only a failed append spoils an ending, or drops a message.
LEMMA TurnRoll ==
  ASSUME NEW t \in Ids, TurnStep(t)
  PROVE  torn \subseteq torn' /\ (AppendFails(t) \/ UNCHANGED rollVars)
<1>1. CASE AppendFails(t)
  BY <1>1 DEF AppendFails, StartBreaks, CancelBreaks, StreamBreaks, OutputBreaks, BeginBreaks, rollVars
<1>2. CASE ~AppendFails(t)
  BY <1>2 DEF TurnStep, TurnStart, TurnCompacted, StreamCall, StreamEnd, TurnCancelled, TurnError, DispatchInline,
         DispatchMcp, McpDone, DispatchExec, ExecDone, ExecDenied, Decided, rollVars
<1> QED BY <1>1, <1>2

\* The turn completes, and then an error follows.
LEMMA CompletesTwice ==
  ASSUME TypeOK, NEW t \in Ids, NEW s \in Seq(Event), \A j \in DOMAIN s : s[j] \in Chat(t),
         events' = events \o (s \o <<Ev(t, "TaskComplete"), Ev(t, "ErrorEvent")>>)
  PROVE  AddsTwoEndings(t)
<1> DEFINE f == Ev(t, "TaskComplete")
           g == Ev(t, "ErrorEvent")
           two == <<f, g>>
           more == s \o two
<1>1. f \in Event /\ f \in OfTurn(t) /\ g \in Event /\ g \in OfTurn(t)
  BY TurnsEvents DEF Kinds, Terminal, OfTurn
<1> HIDE DEF f, g
<1>s. s \in Seq(Event)
  OBVIOUS
<1>2. two \in Seq(Event) /\ Len(two) = 2 /\ two[1] = f /\ two[2] = g /\ events \in Seq(Event)
  BY <1>1 DEF TypeOK
<1> HIDE DEF two
<1>3. /\ more \in Seq(Event) /\ Len(s) \in Nat /\ Len(more) = Len(s) + 2 /\ DOMAIN more = 1 .. Len(more)
      /\ \A i \in 1 .. Len(more) : more[i] = IF i <= Len(s) THEN s[i] ELSE two[i - Len(s)]
  <2>1. /\ more \in Seq(Event) /\ Len(s) \in Nat /\ Len(two) \in Nat /\ Len(more) = Len(s) + Len(two)
        /\ DOMAIN more = 1 .. Len(more)
        /\ \A i \in 1 .. Len(more) : more[i] = IF i <= Len(s) THEN s[i] ELSE two[i - Len(s)]
    BY ONLY <1>2, <1>s, Longer DEF more
  <2> QED BY <1>2, <2>1
<1> HIDE DEF more
<1>4. DOMAIN s = 1 .. Len(s)
  BY LenProperties
<1>5. more[Len(s) + 1] = f /\ more[Len(s) + 2] = g
  <2>1. /\ Len(s) + 1 \in 1 .. Len(more) /\ ~(Len(s) + 1 <= Len(s)) /\ (Len(s) + 1) - Len(s) = 1
        /\ Len(s) + 2 \in 1 .. Len(more) /\ ~(Len(s) + 2 <= Len(s)) /\ (Len(s) + 2) - Len(s) = 2
    BY <1>3
  <2> QED BY <1>2, <1>3, <2>1
<1>6. \A i \in DOMAIN more : (i \in DOMAIN s /\ more[i] = s[i]) \/ i = Len(s) + 1 \/ i = Len(s) + 2
  BY <1>3, <1>4
<1>7. \A i \in DOMAIN more : more[i] \in OfTurn(t)
  BY <1>1, <1>5, <1>6 DEF Chat
<1>8. events' = events \o more
  BY DEF more, two, f, g
<1>9. Adds(OfTurn(t))
  BY <1>3, <1>7, <1>8, AddsMany
<1>10. /\ Len(events) \in Nat /\ Len(events') = Len(events) + Len(more) /\ DOMAIN events' = 1 .. Len(events')
       /\ \A i \in 1 .. Len(events') : events'[i] = IF i <= Len(events) THEN events[i] ELSE more[i - Len(events)]
  <2>1. events \in Seq(Event) /\ more \in Seq(Event)
    BY <1>2, <1>3
  <2> QED BY ONLY <1>8, <2>1, Longer
<1>11. Len(events') = Len(events) + Len(s) + 2
  BY <1>3, <1>10
<1>12. events'[Len(events')] = g /\ events'[Len(events') - 1] = f
  <2>1. /\ Len(events') - Len(events) = Len(s) + 2 /\ (Len(events') - 1) - Len(events) = Len(s) + 1
        /\ Len(events') \in 1 .. Len(events') /\ Len(events') - 1 \in 1 .. Len(events')
        /\ ~(Len(events') <= Len(events)) /\ ~(Len(events') - 1 <= Len(events))
    BY ONLY <1>3, <1>10, <1>11
  <2> QED BY <1>5, <1>10, <2>1
<1>13. ASSUME NEW i \in DOMAIN events', i > Len(events), events'[i].msg \in Terminal
       PROVE  i = Len(events') \/ i = Len(events') - 1
  <2>1. i \in 1 .. Len(events')
    BY <1>10
  <2>2. i - Len(events) \in 1 .. Len(more) /\ ~(i <= Len(events))
    BY ONLY <1>3, <1>10, <1>13, <2>1
  <2>3. events'[i] = more[i - Len(events)] /\ i - Len(events) \in DOMAIN more
    BY <1>3, <1>10, <2>1, <2>2
  <2>4. i - Len(events) = Len(s) + 1 \/ i - Len(events) = Len(s) + 2
    BY <1>6, <1>13, <2>3 DEF Chat
  <2>5. Len(events) \in Nat /\ Len(s) \in Nat /\ i \in Int
    BY <1>3, <1>10, <2>1
  <2> QED BY ONLY <1>11, <2>4, <2>5
<1>14. Len(events') > Len(events) + 1 /\ Len(events') \in DOMAIN events' /\ Len(events') - 1 \in DOMAIN events'
  <2>1. DOMAIN events' = 1 .. Len(events')
    BY <1>10
  <2>2. Len(events') > Len(events) + 1 /\ Len(events') \in 1 .. Len(events') /\ Len(events') - 1 \in 1 .. Len(events')
    BY ONLY <1>3, <1>10, <1>11
  <2> QED BY <2>1, <2>2
<1> QED BY <1>9, <1>12, <1>13, <1>14 DEF AddsTwoEndings, f, g

\* Sequences written out.
LEMMA SpelledOut ==
  ASSUME NEW S, NEW a \in S, NEW b \in S, NEW c \in S
  PROVE  <<a>> \o <<c>> = <<a, c>> /\ <<a, b>> \o <<c>> = <<a, b, c>>
<1>1. <<a>> \in Seq(S) /\ <<a, b>> \in Seq(S) /\ <<c>> \in Seq(S) /\ <<a, c>> \in Seq(S) /\ <<a, b, c>> \in Seq(S)
  OBVIOUS
<1>2. Len(<<a>>) = 1 /\ Len(<<a, b>>) = 2 /\ Len(<<c>>) = 1 /\ Len(<<a, c>>) = 2 /\ Len(<<a, b, c>>) = 3
  OBVIOUS
<1>3. <<a>> \o <<c>> = <<a, c>>
  <2> DEFINE x == <<a>>
             y == <<c>>
             z == <<a, c>>
  <2>1. x[1] = a /\ y[1] = c /\ z[1] = a /\ z[2] = c
    OBVIOUS
  <2>2. x \in Seq(S) /\ y \in Seq(S) /\ z \in Seq(S) /\ Len(x) = 1 /\ Len(y) = 1 /\ Len(z) = 2
    BY <1>1, <1>2
  <2> HIDE DEF x, y, z
  <2>3. /\ x \o y \in Seq(S) /\ Len(x \o y) = 2
        /\ \A i \in 1 .. 2 : (x \o y)[i] = IF i <= 1 THEN x[i] ELSE y[i - 1]
    <3>1. /\ x \o y \in Seq(S) /\ Len(x \o y) = Len(x) + Len(y)
          /\ \A i \in 1 .. Len(x) + Len(y) : (x \o y)[i] = IF i <= Len(x) THEN x[i] ELSE y[i - Len(x)]
      <4>1. x \in Seq(S) /\ y \in Seq(S)
        BY <2>2
      <4> QED BY ONLY <4>1, ConcatProperties
    <3>2. Len(x) + Len(y) = 2
      BY <2>2
    <3> QED BY <2>2, <3>1, <3>2
  <2>4. (x \o y)[1] = z[1] /\ (x \o y)[2] = z[2]
    BY <2>1, <2>3
  <2>5. \A i \in 1 .. Len(x \o y) : (x \o y)[i] = z[i]
    BY <2>3, <2>4
  <2>6. x \o y = z
    BY <2>2, <2>3, <2>5, SeqEqual
  <2> QED BY <2>6 DEF x, y, z
<1>4. <<a, b>> \o <<c>> = <<a, b, c>>
  <2> DEFINE x == <<a, b>>
             y == <<c>>
             z == <<a, b, c>>
  <2>1. x[1] = a /\ x[2] = b /\ y[1] = c /\ z[1] = a /\ z[2] = b /\ z[3] = c
    OBVIOUS
  <2>2. x \in Seq(S) /\ y \in Seq(S) /\ z \in Seq(S) /\ Len(x) = 2 /\ Len(y) = 1 /\ Len(z) = 3
    BY <1>1, <1>2
  <2> HIDE DEF x, y, z
  <2>3. /\ x \o y \in Seq(S) /\ Len(x \o y) = 3
        /\ \A i \in 1 .. 3 : (x \o y)[i] = IF i <= 2 THEN x[i] ELSE y[i - 2]
    <3>1. /\ x \o y \in Seq(S) /\ Len(x \o y) = Len(x) + Len(y)
          /\ \A i \in 1 .. Len(x) + Len(y) : (x \o y)[i] = IF i <= Len(x) THEN x[i] ELSE y[i - Len(x)]
      <4>1. x \in Seq(S) /\ y \in Seq(S)
        BY <2>2
      <4> QED BY ONLY <4>1, ConcatProperties
    <3>2. Len(x) + Len(y) = 3
      BY <2>2
    <3> QED BY <2>2, <3>1, <3>2
  <2>4. (x \o y)[1] = z[1] /\ (x \o y)[2] = z[2] /\ (x \o y)[3] = z[3]
    BY <2>1, <2>3
  <2>5. \A i \in 1 .. Len(x \o y) : (x \o y)[i] = z[i]
    BY <2>3, <2>4
  <2>6. x \o y = z
    BY <2>2, <2>3, <2>5, SeqEqual
  <2> QED BY <2>6 DEF x, y, z
<1> QED BY <1>3, <1>4

LEMMA StreamTears ==
  ASSUME TypeOK, NEW t \in Ids,
         Dies(t, (IF turnDiffs # {} THEN <<Ev(t, "TurnDiff")>> ELSE <<>>)
                   \o <<Ev(t, "TaskComplete"), Ev(t, "ErrorEvent")>>)
  PROVE  AddsTwoEndings(t)
<1> DEFINE s == IF turnDiffs # {} THEN <<Ev(t, "TurnDiff")>> ELSE <<>>
<1>1. s \in Seq(Event) /\ \A j \in DOMAIN s : s[j] \in Chat(t)
  <2> DEFINE d == Ev(t, "TurnDiff")
  <2>1. d \in Event /\ d \in Chat(t)
    BY TurnsEvents
  <2> HIDE DEF d
  <2>2. <<d>> \in Seq(Event) /\ <<>> \in Seq(Event) /\ (\A j \in DOMAIN <<d>> : <<d>>[j] \in Chat(t))
        /\ \A j \in DOMAIN <<>> : <<>>[j] \in Chat(t)
    BY <2>1
  <2>3. s = <<d>> \/ s = <<>>
    BY DEF d
  <2> HIDE DEF s
  <2> QED BY <2>2, <2>3
<1>2. events' = events \o (s \o <<Ev(t, "TaskComplete"), Ev(t, "ErrorEvent")>>)
  BY DEF Dies
<1> HIDE DEF s
<1> QED BY <1>1, <1>2, CompletesTwice

LEMMA BreakTells ==
  ASSUME Typed, NEW t \in Ids, AppendFails(t)
  PROVE  Tells(t)
<1> DEFINE c == Head(todo[t])
           error == Ev(t, "ErrorEvent")
           start == Ev(t, "TaskStarted")
<1>0. TypeOK /\ events \in Seq(Event) /\ pc'[t] = "done" /\ torn \subseteq torn'
  <2>1. torn \subseteq torn'
    BY DEF AppendFails, StartBreaks, CancelBreaks, StreamBreaks, OutputBreaks, BeginBreaks, rollVars
  <2> QED BY <2>1, BreakFrame DEF Typed, TypeOK
<1>e. /\ error \in Event /\ error \in OfTurn(t) /\ error.msg = "ErrorEvent" /\ "ErrorEvent" \in Terminal
      /\ start \in Event /\ start \in OfTurn(t)
  BY TurnsEvents DEF Kinds, Terminal, OfTurn
<1>c. pc[t] \in Calling => /\ c \in Calls /\ pc[t] \in Begun
                           /\ \A m \in {"BeginSandboxed", "BeginUnsandboxed", "ExecCommandEnd"} :
                                CallEv(t, m, c) \in Event /\ CallEv(t, m, c) \in Chat(t)
  BY CallEventsTyped, TurnsEvents DEF Calling, Begun, Live, Waiting
<1>ends. ASSUME NEW s \in Seq(Event), \A j \in DOMAIN s : s[j] \in Chat(t), pc[t] \in Begun, Dies(t, s \o <<error>>),
                UNCHANGED <<said, pending, lost>> \/ DrainBreaks(said)
         PROVE  Tells(t)
  <2> HIDE DEF error
  <2>1. <<error>> \in Seq(Event)
    BY <1>e
  <2>2. events' = (events \o s) \o <<error>>
    BY <1>0, <1>ends, <2>1, ConcatAssociative DEF Dies
  <2>3. AddsEnding(t)
    BY <1>0, <1>e, <1>ends, <2>2, AddsEnds
  <2> QED BY <1>0, <1>ends, <2>3 DEF Concludes, Tells
<1>short. ASSUME NEW e \in Event, NEW f \in Event, pc[t] \in Begun,
                 \/ Dies(t, <<error>>)
                 \/ Dies(t, <<e, error>>) /\ e \in Chat(t)
                 \/ Dies(t, <<e, f, error>>) /\ e \in Chat(t) /\ f \in Chat(t),
                 UNCHANGED <<said, pending, lost>> \/ DrainBreaks(said)
          PROVE  Tells(t)
  <2> HIDE DEF error
  <2>1. /\ <<>> \in Seq(Event) /\ <<e>> \in Seq(Event) /\ <<e, f>> \in Seq(Event) /\ <<error>> \in Seq(Event)
    BY <1>e
  <2>2. /\ <<>> \o <<error>> = <<error>>
        /\ <<e>> \o <<error>> = <<e, error>>
        /\ <<e, f>> \o <<error>> = <<e, f, error>>
    <3>1. <<>> \o <<error>> = <<error>>
      BY <2>1, ConcatEmptySeq
    <3>2. error \in Event
      BY <1>e
    <3> QED BY <3>1, <3>2, SpelledOut
  <2>3. CASE Dies(t, <<error>>)
    <3>1. Dies(t, <<>> \o <<error>>) /\ \A j \in DOMAIN <<>> : <<>>[j] \in Chat(t)
      BY <2>2, <2>3
    <3> QED BY <1>ends, <1>short, <2>1, <3>1 DEF error
  <2>4. CASE Dies(t, <<e, error>>) /\ e \in Chat(t)
    <3>1. Dies(t, <<e>> \o <<error>>)
      BY <2>2, <2>4
    <3>2. \A j \in DOMAIN <<e>> : <<e>>[j] \in Chat(t)
      BY <2>4
    <3> QED BY <1>ends, <1>short, <2>1, <3>1, <3>2 DEF error
  <2>5. CASE Dies(t, <<e, f, error>>) /\ e \in Chat(t) /\ f \in Chat(t)
    <3>1. Dies(t, <<e, f>> \o <<error>>)
      BY <2>2, <2>5
    <3>2. \A j \in DOMAIN <<e, f>> : <<e, f>>[j] \in Chat(t)
      BY <2>5
    <3> QED BY <1>ends, <1>short, <2>1, <3>1, <3>2 DEF error
  <2> QED BY <1>short, <2>3, <2>4, <2>5
<1>1. CASE StartBreaks(t)
  <2> HIDE DEF error, start
  <2>1. pc[t] = "created"
    BY <1>1 DEF StartBreaks, Resume
  <2>2. CASE Dies(t, <<start>>) /\ said' = Append(said, t) /\ torn' = torn \cup {t} /\ UNCHANGED <<pending, lost>>
    <3>1. Emit(start)
      BY <1>0, <1>e, <2>2, AppendIsConcat DEF Dies, Emit
    <3> QED BY <1>0, <2>1, <2>2, <3>1 DEF StopsShort, Tells, start
  <2>3. CASE Dies(t, <<start, error>>) /\ DrainBreaks(Append(said, t))
    <3>1. events' = Append(Append(events, start), error)
      <4>1. /\ <<start>> \in Seq(Event) /\ <<error>> \in Seq(Event) /\ <<start, error>> = <<start>> \o <<error>>
        BY <1>e
      <4>2. Append(events, start) = events \o <<start>> /\ events \o <<start>> \in Seq(Event)
        BY <1>0, <1>e, <4>1, AppendIsConcat, ConcatProperties
      <4>3. Append(events \o <<start>>, error) = (events \o <<start>>) \o <<error>>
        BY <1>e, <4>2, AppendIsConcat
      <4>4. (events \o <<start>>) \o <<error>> = events \o (<<start>> \o <<error>>)
        BY <1>0, <4>1, ConcatAssociative
      <4> QED BY <2>3, <4>1, <4>2, <4>3, <4>4 DEF Dies
    <3> QED BY <1>0, <2>1, <2>3, <3>1 DEF StopsShort, Tells, start, error
  <2> QED BY <1>1, <2>2, <2>3 DEF StartBreaks, start, error
<1>2. CASE CancelBreaks(t)
  <2>1. events' = events
    <3>1. events' = events \o <<>>
      BY <1>2 DEF CancelBreaks, Dies
    <3> QED BY <1>0, <3>1, ConcatEmptySeq
  <2>2. /\ pc[t] \in Begun /\ said' = Append(said, Mark) /\ UNCHANGED <<pending, lost>> /\ t \in torn'
    BY <1>2 DEF CancelBreaks, Begun, Live, Waiting
  <2> QED BY <1>0, <2>1, <2>2 DEF Tears, Tells
<1>3. CASE StreamBreaks(t)
  <2>1. pc[t] \in Begun
    BY <1>3 DEF StreamBreaks, Resume, Begun, Live, Waiting
  <2>2. CASE Dies(t, <<error>>) /\ (UNCHANGED <<said, pending, lost>> \/ DrainBreaks(said))
    BY <1>e, <1>short, <2>1, <2>2
  <2>3. CASE /\ Dies(t, (IF turnDiffs # {} THEN <<Ev(t, "TurnDiff")>> ELSE <<>>)
                          \o <<Ev(t, "TaskComplete"), Ev(t, "ErrorEvent")>>)
             /\ torn' = torn \cup {t} /\ UNCHANGED <<said, pending, lost>>
    <3>1. AddsTwoEndings(t)
      BY <1>0, <2>3, StreamTears
    <3> QED BY <1>0, <2>1, <2>3, <3>1 DEF Tears, Tells
  <2> QED BY <1>3, <2>2, <2>3 DEF StreamBreaks, rollVars
<1>4. CASE OutputBreaks(t)
  <2>1. pc[t] \in Calling
    BY <1>4 DEF OutputBreaks, Resume, Calling
  <2>2. \/ Dies(t, <<error>>) \/ Dies(t, <<CallEv(t, "ExecCommandEnd", c), error>>)
        \/ Dies(t, <<CallEv(t, "BeginUnsandboxed", c), CallEv(t, "ExecCommandEnd", c), error>>)
    BY <1>4 DEF OutputBreaks
  <2>3. UNCHANGED <<said, pending, lost>> \/ DrainBreaks(said)
    BY <1>4 DEF OutputBreaks
  <2> QED BY <1>c, <1>short, <2>1, <2>2, <2>3
<1>5. CASE BeginBreaks(t)
  <2>1. pc[t] \in Calling /\ UNCHANGED <<said, pending, lost>>
    BY <1>5 DEF BeginBreaks, Calling, convVars, rollVars
  <2>2. \E m \in {"BeginSandboxed", "BeginUnsandboxed"} : Dies(t, <<CallEv(t, m, c), error>>)
    BY <1>5 DEF BeginBreaks
  <2> QED BY <1>c, <1>short, <2>1, <2>2
<1> QED BY <1>1, <1>2, <1>3, <1>4, <1>5 DEF AppendFails

LEMMA TurnTells ==
  ASSUME Typed, NEW t \in Ids, TurnStep(t)
  PROVE  Tells(t)
<1> SUFFICES ASSUME UNCHANGED <<torn, lost>>, ~AppendFails(t) PROVE Tells(t)
  BY BreakTells, TurnRoll DEF rollVars
<1>0. TypeOK /\ pc \in [Ids -> Phases] /\ <<>> \in Seq(Event)
  BY DEF Typed, TypeOK
<1> DEFINE c == Head(todo[t])
<1>c. pc[t] \in Calling => c \in Calls /\ pc[t] \in Begun
  BY CallEventsTyped DEF Calling, Begun, Live, Waiting
\* A step that stays in the turn, and says and folds nothing.
<1>quiet. ASSUME NEW phase \in Begun, Go(t, phase), pc[t] \in Begun, UNCHANGED <<pending, said>>, Adds(Chat(t)),
                 phase = "streaming" => pc[t] \in {"streaming", "compacting"}
          PROVE  Tells(t)
  BY <1>0, <1>quiet DEF Go, GoesOn, Tells
<1>one. ASSUME NEW m \in {"ExecApprovalRequest", "BeginSandboxed", "BeginUnsandboxed", "ExecCommandEnd"}, c \in Calls,
               Emit(CallEv(t, m, c))
        PROVE  Adds(Chat(t))
  <2> DEFINE e == CallEv(t, m, c)
  <2>1. e \in Event /\ e \in Chat(t) /\ Emit(e)
    BY <1>one, TurnsEvents
  <2> HIDE DEF e
  <2> QED BY <1>0, <2>1, AddsOne
<1>1. CASE TurnStart(t)
  <2>1. pc[t] = "created"
    BY <1>1 DEF TurnStart, Resume
  <2>2. CASE Go(t, "done") /\ UNCHANGED <<said, pending>>
    BY <1>0, <1>1, <2>1, <2>2 DEF TurnStart, Go, StepBoundary, StopsShort, Tells
  <2>3. CASE Emit(Ev(t, "TaskStarted")) /\ StepBoundary(t, Append(said, t))
    BY <1>0, <2>1, <2>3 DEF StepBoundary, Go, Starts, Tells, Begun, Live, Waiting
  <2> QED BY <1>1, <2>2, <2>3 DEF TurnStart
<1>2. CASE TurnCompacted(t)
  <2>1. /\ pc[t] = "compacting" /\ pc[t] \in Begun /\ "streaming" \in Begun /\ Go(t, "streaming")
        /\ UNCHANGED <<pending, said>> /\ Emit(Ev(t, "ContextCompacted"))
    BY <1>2 DEF TurnCompacted, Resume, RebuildHistory, Begun, Live, Waiting
  <2>2. Adds(Chat(t))
    BY <1>0, <2>1, TurnsEvents, AddsOne
  <2> QED BY <1>quiet, <2>1, <2>2
<1>3. CASE StreamCall(t)
  <2>1. pc[t] = "streaming" /\ pc' = pc /\ pc[t] \in Begun /\ UNCHANGED <<pending, said, events>>
    BY <1>3 DEF StreamCall, Resume, Begun, Live, Waiting
  <2>2. Adds(Chat(t))
    BY <1>0, <2>1, AddsNothing
  <2> QED BY <2>1, <2>2 DEF GoesOn, Tells
<1>4. CASE StreamEnd(t)
  <2>1. pc[t] = "streaming" /\ pc[t] \in Begun
    BY <1>4 DEF StreamEnd, Resume, Begun, Live, Waiting
  <2>2. CASE Go(t, "dispatch") /\ UNCHANGED <<said, pending, events>>
    BY <1>0, <1>quiet, <2>1, <2>2, AddsNothing DEF Begun, Live, Waiting
  <2>3. CASE StepBoundary(t, said) /\ UNCHANGED events
    <3>1. Adds(Chat(t))
      BY <1>0, <2>3, AddsNothing
    <3> QED BY <1>0, <2>1, <2>3, <3>1 DEF StepBoundary, Go, GoesOn, Tells, Begun, Live, Waiting
  <2>4. CASE /\ todo[t] = <<>> /\ NothingQueued /\ Go(t, "done") /\ UNCHANGED <<said, pending>>
             /\ Emit2(Ev(t, "TurnDiff"), Ev(t, "TaskComplete")) \/ Emit(Ev(t, "TaskComplete"))
    <3> DEFINE d == Ev(t, "TurnDiff")
               e == Ev(t, "TaskComplete")
    <3>1. /\ d \in Event /\ d \in Chat(t) /\ e \in Event /\ e \in OfTurn(t) /\ e.msg = "TaskComplete"
          /\ "TaskComplete" \in Terminal
      BY TurnsEvents DEF Kinds, Terminal, OfTurn
    <3>2. events' = Append(Append(events, d), e) \/ events' = Append(events, e)
      BY <2>4 DEF Emit, Emit2
    <3> HIDE DEF d, e
    <3>3. events \in Seq(Event) /\ Append(events, d) \in Seq(Event)
      BY <1>0, <3>1, AppendProperties DEF TypeOK
    <3>4. /\ Append(events, d) = events \o <<d>> /\ Append(events, e) = events \o <<e>>
          /\ Append(Append(events, d), e) = Append(events, d) \o <<e>>
      BY <3>1, <3>3, AppendIsConcat
    <3>5. events \o <<>> = events
      BY <3>3, ConcatEmptySeq
    <3>6. \E s \in Seq(Event) : events' = (events \o s) \o <<e>> /\ \A j \in DOMAIN s : s[j] \in Chat(t)
      <4>1. CASE events' = Append(events, e)
        <5>1. events' = (events \o <<>>) \o <<e>> /\ \A j \in DOMAIN <<>> : <<>>[j] \in Chat(t)
          BY <3>4, <3>5, <4>1
        <5> QED BY <1>0, <5>1
      <4>2. CASE events' = Append(Append(events, d), e)
        <5>1. events' = (events \o <<d>>) \o <<e>> /\ <<d>> \in Seq(Event) /\ \A j \in DOMAIN <<d>> : <<d>>[j] \in Chat(t)
          BY <3>1, <3>4, <4>2
        <5> QED BY <5>1
      <4> QED BY <3>2, <4>1, <4>2
    <3>7. AddsEnding(t)
      BY <1>0, <2>4, <3>1, <3>6, AddsEnds DEF NothingQueued
    <3> QED BY <1>0, <2>1, <2>4, <3>7 DEF Go, Concludes, Tells
  <2> QED BY <1>4, <2>2, <2>3, <2>4 DEF StreamEnd
<1>5. CASE TurnCancelled(t)
  <2>1. Go(t, "done") /\ pending' = pending /\ pc'[t] = "done"
    BY <1>0, <1>5 DEF TurnCancelled, Go
  <2>2. CASE pc[t] = "created" /\ UNCHANGED <<said, events>>
    BY <2>1, <2>2 DEF StopsShort, Tells
  <2>3. CASE pc[t] \in Waiting /\ said' = Append(said, Mark) /\ Emit(Ev(t, "TurnAborted"))
    <3> DEFINE e == Ev(t, "TurnAborted")
    <3>1. e \in Event /\ e \in OfTurn(t) /\ e.msg = "TurnAborted" /\ "TurnAborted" \in Terminal /\ Emit(e)
      BY <2>3, TurnsEvents DEF Kinds, Terminal, OfTurn
    <3> HIDE DEF e
    <3>2. events' = (events \o <<>>) \o <<e>> /\ \A j \in DOMAIN <<>> : <<>>[j] \in Chat(t)
      BY <1>0, <3>1, AppendIsConcat, ConcatEmptySeq DEF Emit, TypeOK
    <3>3. AddsEnding(t)
      BY <1>0, <3>1, <3>2, AddsEnds
    <3> QED BY <2>1, <2>3, <3>3 DEF Concludes, Tells, Begun, Live, Waiting
  <2> QED BY <1>5, <2>2, <2>3 DEF TurnCancelled
\* The ways to fail.
<1>fail. ASSUME pc[t] \in Begun, Fail(t, <<>>)
         PROVE  Tells(t)
  <2>1. \A j \in DOMAIN <<>> : <<>>[j] \in Chat(t)
    OBVIOUS
  <2> QED BY <1>0, <1>fail, <2>1, FailConcludes DEF Tells
<1>fail1. ASSUME NEW m \in {"ExecCommandEnd", "BeginUnsandboxed"}, pc[t] \in Calling, Fail(t, <<CallEv(t, m, c)>>)
          PROVE  Tells(t)
  <2> DEFINE e == CallEv(t, m, c)
  <2>1. e \in Event /\ e \in Chat(t) /\ Fail(t, <<e>>)
    BY <1>c, <1>fail1, TurnsEvents
  <2> HIDE DEF e
  <2>2. <<e>> \in Seq(Event) /\ \A j \in DOMAIN <<e>> : <<e>>[j] \in Chat(t)
    BY <2>1
  <2> QED BY <1>c, <1>fail1, <2>1, <2>2, FailConcludes DEF Tells
<1>6. CASE TurnError(t)
  <2>1. pc[t] \in Begun
    BY <1>6 DEF TurnError, Resume, Begun, Live, Waiting
  <2> QED BY <1>6, <1>fail, <1>fail1, <2>1 DEF TurnError, Calling
\* The ways to answer a call.
<1>out. ASSUME pc[t] \in Calling, RecordOutput(t), UNCHANGED events \/ Emit(CallEv(t, "ExecCommandEnd", c))
        PROVE  Tells(t)
  <2>1. Adds(Chat(t))
    BY <1>0, <1>c, <1>one, <1>out, AddsNothing
  <2> QED BY <1>out, <2>1, OutputGoesOn DEF Tells
<1>7. CASE DispatchInline(t) \/ McpDone(t) \/ ExecDone(t)
  <2>1. pc[t] \in Calling /\ RecordOutput(t) /\ (UNCHANGED events \/ Emit(CallEv(t, "ExecCommandEnd", c)))
    BY <1>7 DEF DispatchInline, McpDone, ExecDone, Resume, Calling
  <2> QED BY <1>out, <2>1
<1>8. CASE DispatchMcp(t)
  <2>1. pc[t] \in Begun /\ "mcp" \in Begun /\ Go(t, "mcp") /\ UNCHANGED <<pending, said, events>>
    BY <1>8 DEF DispatchMcp, convVars, Begun, Live, Waiting
  <2> QED BY <1>0, <1>quiet, <2>1, AddsNothing
<1>ask. ASSUME pc[t] \in Calling, NEW phase \in {"ask", "askEscalate"}, Ask(t, phase), UNCHANGED <<pending, said>>
        PROVE  Tells(t)
  <2>1. Adds(Chat(t)) /\ Go(t, phase) /\ phase \in Begun /\ pc[t] \in Begun /\ phase # "streaming"
    BY <1>ask, <1>one, <1>c DEF Ask, Begun, Live, Waiting
  <2> QED BY <1>ask, <1>quiet, <2>1
<1>9. CASE DispatchExec(t)
  <2>1. pc[t] \in Calling /\ pc[t] \in Begun /\ UNCHANGED <<pending, said>>
    BY <1>9 DEF DispatchExec, convVars, Calling, Begun, Live
  <2>2. CASE Ask(t, "ask")
    BY <1>ask, <2>1, <2>2
  <2>3. ASSUME NEW m \in {"BeginSandboxed", "BeginUnsandboxed"}, NEW phase \in {"exec", "execFull"},
               Emit(CallEv(t, m, c)), Go(t, phase)
        PROVE  Tells(t)
    <3>1. Adds(Chat(t)) /\ phase \in Begun /\ phase # "streaming"
      BY <1>c, <1>one, <2>1, <2>3 DEF Begun, Live, Waiting
    <3> QED BY <1>quiet, <2>1, <2>3, <3>1
  <2> QED BY <1>9, <2>2, <2>3 DEF DispatchExec
<1>10. CASE ExecDenied(t)
  <2>1. pc[t] \in Calling
    BY <1>10 DEF ExecDenied, Resume, Calling
  <2> QED BY <1>10, <1>ask, <1>out, <2>1 DEF ExecDenied
<1>11. CASE Decided(t)
  <2> DEFINE begin == CallEv(t, "BeginUnsandboxed", c)
             end   == CallEv(t, "ExecCommandEnd", c)
  <2>1. pc[t] \in Calling /\ pc[t] \in Begun /\ c \in Calls
    BY <1>11, <1>c DEF Decided, Resume, Calling
  <2>2. begin \in Event /\ begin \in Chat(t) /\ end \in Event /\ end \in Chat(t)
    BY <2>1, TurnsEvents
  <2>3. CASE Emit2(begin, end) /\ RecordOutput(t)
    <3>1. Adds(Chat(t))
      <4> HIDE DEF begin, end
      <4> QED BY <1>0, <2>2, <2>3, AddsTwo
    <3> QED BY <2>1, <2>3, <3>1, OutputGoesOn DEF Tells
  <2>4. CASE Fail(t, <<begin, end>>)
    <3> HIDE DEF begin, end
    <3>1. <<begin, end>> \in Seq(Event) /\ \A j \in DOMAIN <<begin, end>> : <<begin, end>>[j] \in Chat(t)
      BY <2>2
    <3> QED BY <2>1, <2>4, <3>1, FailConcludes DEF Tells
  <2> QED BY <1>11, <1>out, <1>fail, <1>fail1, <2>1, <2>3, <2>4 DEF Decided
<1> QED BY <1>1, <1>2, <1>3, <1>4, <1>5, <1>6, <1>7, <1>8, <1>9, <1>10, <1>11 DEF TurnStep

-----------------------------------------------------------------------------
(* The order of submissions.                                               *)

IsOp(i) == submissions[i].op # "ExecApproval"

\* The messages still to come: queued, or not even submitted.
Coming ==
  { t \in Ids : \/ t >= nextSub
                \/ \E i \in 1 .. Len(submissions) : submissions[i].op = "UserTurn" /\ submissions[i].id = t }

\* Ids grow along the queue, and every message that the session knows is older than what is queued.
Numbering ==
  /\ \A i \in 1 .. Len(submissions) : IsOp(i) => submissions[i].id < nextSub
  /\ \A i, j \in 1 .. Len(submissions) : IsOp(i) /\ IsOp(j) /\ i < j => submissions[i].id < submissions[j].id
  /\ \A t \in Ids \ Unknown : t < nextSub /\ \A i \in 1 .. Len(submissions) : IsOp(i) => t < submissions[i].id

\* The Compact operation in hand is no message's id, nor is any id that an event carries that of a message to come.
Apart ==
  /\ loop = "compact" => loopSub \in Ids \ Coming /\ pc[loopSub] = "none"
  /\ \A i \in DOMAIN events : events[i].sub \notin Coming
  /\ \A i \in DOMAIN events : events[i].msg = "ContextCompacted" => events[i].sub \in Ids

LEMMA ComingUnknown ==
  ASSUME Typed, SteerInv
  PROVE  Coming \subseteq Unknown /\ \A t \in Coming : pc[t] = "none"
  BY DEF SteerInv, Numbered, Coming, Unknown

\* The client or the frontend submits.
LEMMA NumberingGrows ==
  ASSUME Typed, Numbering, NEW s, s \in Submission, submissions' = Append(submissions, s),
         \/ s.op = "ExecApproval" /\ nextSub' = nextSub
         \/ s.op # "ExecApproval" /\ s.id = nextSub /\ nextSub \in Ids /\ nextSub' = nextSub + 1,
         UNCHANGED <<pc, pending, said, lost>>
  PROVE  Numbering' /\ Coming' \subseteq Coming
<1>1. /\ Len(submissions') = Len(submissions) + 1 /\ Len(submissions) \in Nat
      /\ \A i \in 1 .. Len(submissions) : submissions'[i] = submissions[i]
      /\ submissions'[Len(submissions) + 1] = s
  BY AppendProperties DEF Typed, TypeOK
<1>2. \A i \in 1 .. Len(submissions') : i \in 1 .. Len(submissions) \/ i = Len(submissions) + 1
  BY <1>1
<1>3. nextSub \in Int /\ nextSub' \in Int /\ nextSub <= nextSub' /\ \A t \in Ids : t \in Int
  BY DEF Typed, TypeOK, Ids
<1>4. Unknown' = Unknown
  BY DEF Unknown
<1>5. ASSUME NEW t \in Coming' PROVE t \in Coming
  <2>1. CASE t \in Ids /\ t >= nextSub'
    BY <1>3, <2>1 DEF Coming
  <2>2. ASSUME t \in Ids, NEW i \in 1 .. Len(submissions'), submissions'[i].op = "UserTurn", submissions'[i].id = t
        PROVE  t \in Coming
    <3>1. CASE i \in 1 .. Len(submissions)
      BY <1>1, <2>2, <3>1 DEF Coming
    <3>2. CASE i = Len(submissions) + 1
      BY <1>1, <1>3, <2>2, <3>2 DEF Coming
    <3> QED BY <1>2, <2>2, <3>1, <3>2
  <2> QED BY <2>1, <2>2 DEF Coming
<1>6. \A i \in 1 .. Len(submissions) : IsOp(i) => submissions[i].id \in Ids
  <2>1. \A i \in 1 .. Len(submissions) : submissions[i] \in Submission
    BY DEF Typed, TypeOK
  <2> QED BY <2>1 DEF IsOp, Submission
<1>7. ASSUME NEW i \in 1 .. Len(submissions'), IsOp(i)' PROVE submissions'[i].id < nextSub'
  <2>1. CASE i \in 1 .. Len(submissions)
    <3>1. IsOp(i) /\ submissions[i].id < nextSub /\ submissions[i].id \in Ids
      BY <1>1, <1>6, <1>7, <2>1 DEF IsOp, Numbering
    <3> QED BY <1>1, <1>3, <2>1, <3>1
  <2>2. CASE i = Len(submissions) + 1
    BY <1>1, <1>3, <1>7, <2>2 DEF IsOp
  <2> QED BY <1>2, <2>1, <2>2
<1>8. ASSUME NEW i \in 1 .. Len(submissions'), NEW j \in 1 .. Len(submissions'), IsOp(i)', IsOp(j)', i < j
      PROVE  submissions'[i].id < submissions'[j].id
  <2>1. i \in 1 .. Len(submissions)
    BY <1>1, <1>2, <1>8
  <2>2. IsOp(i) /\ submissions'[i] = submissions[i]
    BY <1>1, <1>8, <2>1 DEF IsOp
  <2>3. CASE j \in 1 .. Len(submissions)
    <3>1. IsOp(j) /\ submissions'[j] = submissions[j]
      BY <1>1, <1>8, <2>3 DEF IsOp
    <3> QED BY <1>8, <2>1, <2>2, <2>3, <3>1 DEF Numbering
  <2>4. CASE j = Len(submissions) + 1
    <3>1. submissions'[j].id = nextSub
      BY <1>1, <1>8, <2>4 DEF IsOp
    <3> QED BY <2>1, <2>2, <3>1 DEF Numbering
  <2> QED BY <1>2, <2>3, <2>4
<1>9. ASSUME NEW t \in Ids \ Unknown
      PROVE  t < nextSub' /\ \A i \in 1 .. Len(submissions') : IsOp(i)' => t < submissions'[i].id
  <2>1. t < nextSub /\ \A i \in 1 .. Len(submissions) : IsOp(i) => t < submissions[i].id
    BY DEF Numbering
  <2>2. ASSUME NEW i \in 1 .. Len(submissions'), IsOp(i)' PROVE t < submissions'[i].id
    <3>1. CASE i \in 1 .. Len(submissions)
      BY <1>1, <2>1, <2>2, <3>1 DEF IsOp
    <3>2. CASE i = Len(submissions) + 1
      BY <1>1, <2>1, <2>2, <3>2 DEF IsOp
    <3> QED BY <1>2, <3>1, <3>2
  <2>3. t < nextSub'
    BY <1>3, <2>1
  <2> QED BY <2>2, <2>3
<1> QED BY <1>4, <1>5, <1>7, <1>8, <1>9 DEF Numbering

\* The first submission is taken: no message to come, nor any queued operation, has its id or a smaller one.
LEMMA NumberingShrinks ==
  ASSUME Typed, SteerInv, Numbering, NEW op, Receive(op), NEW h, h = Head(submissions).id,
         \/ Unknown' = Unknown
         \/ op # "ExecApproval" /\ Unknown \ Unknown' \subseteq {h}
  PROVE  /\ Numbering'
         /\ Coming' \subseteq Coming
         /\ op # "ExecApproval" => h \in Ids /\ h \notin Coming' /\ h \in Unknown /\ \A t \in Ids \ Unknown : t < h
<1>1. /\ Len(submissions') = Len(submissions) - 1 /\ Len(submissions) \in Nat \ {0}
      /\ \A i \in 1 .. Len(submissions') : submissions'[i] = submissions[i + 1]
      /\ Head(submissions) = submissions[1] /\ submissions[1].op = op
      /\ nextSub' = nextSub
  BY Received DEF Typed
<1>2. /\ 1 \in 1 .. Len(submissions)
      /\ \A i \in 1 .. Len(submissions') :
           i + 1 \in 1 .. Len(submissions) /\ 1 < i + 1 /\ i \in Int /\ submissions'[i] = submissions[i + 1]
  BY <1>1
<1>3. nextSub \in Int /\ \A t \in Ids : t \in Int
  BY DEF Typed, TypeOK, Ids
<1>4. \A i \in 1 .. Len(submissions') : IsOp(i)' => IsOp(i + 1)
  BY <1>2 DEF IsOp
<1>5. op # "ExecApproval" => /\ h \in Ids /\ IsOp(1) /\ h < nextSub
                             /\ \A i \in 1 .. Len(submissions') : IsOp(i)' => h < submissions'[i].id
  <2>1. op # "ExecApproval" => h \in Ids
    BY ReceiveTyped
  <2>2. op # "ExecApproval" => IsOp(1)
    BY <1>1 DEF IsOp
  <2>3. op # "ExecApproval" => h < nextSub
    BY <1>1, <1>2, <2>2 DEF Numbering
  <2>4. ASSUME op # "ExecApproval", NEW i \in 1 .. Len(submissions'), IsOp(i)' PROVE h < submissions'[i].id
    BY <1>1, <1>2, <1>4, <2>2, <2>4 DEF Numbering
  <2> QED BY <2>1, <2>2, <2>3, <2>4
<1>6. Coming' \subseteq Coming
  BY <1>1, <1>2 DEF Coming
<1>7. op # "ExecApproval" => h \in Unknown /\ \A t \in Ids \ Unknown : t < h
  <2>1. op # "ExecApproval" => \A t \in Ids \ Unknown : t < h
    BY <1>1, <1>2, <1>5 DEF Numbering
  <2> QED BY <1>3, <1>5, <2>1
<1>8. op # "ExecApproval" => h \notin Coming'
  <2>1. \A i \in 1 .. Len(submissions') : submissions'[i].op = "UserTurn" => IsOp(i)'
    BY DEF IsOp
  <2> QED BY <1>1, <1>3, <1>5, <2>1 DEF Coming
<1>9. ASSUME NEW i \in 1 .. Len(submissions'), IsOp(i)' PROVE submissions'[i].id < nextSub'
  BY <1>1, <1>2, <1>4, <1>9 DEF Numbering
<1>10. ASSUME NEW i \in 1 .. Len(submissions'), NEW j \in 1 .. Len(submissions'), IsOp(i)', IsOp(j)', i < j
       PROVE  submissions'[i].id < submissions'[j].id
  <2>1. i + 1 < j + 1
    BY <1>2, <1>10
  <2> QED BY <1>2, <1>4, <1>10, <2>1 DEF Numbering
<1>11. ASSUME NEW t \in Ids, t \notin Unknown'
       PROVE  t < nextSub' /\ \A i \in 1 .. Len(submissions') : IsOp(i)' => t < submissions'[i].id
  <2>1. CASE t \notin Unknown
    BY <1>1, <1>2, <1>4, <2>1 DEF Numbering
  <2>2. CASE t = h /\ op # "ExecApproval"
    BY <1>1, <1>5, <1>11, <2>2
  <2> QED BY <1>11, <2>1, <2>2
<1> QED BY <1>5, <1>6, <1>7, <1>8, <1>9, <1>10, <1>11 DEF Numbering

-----------------------------------------------------------------------------
(* What everyone else does: the loop, the client and the frontend.         *)

\* Events that belong to no turn.
Aside == { e \in Event : e.msg # "TaskComplete" /\ (e.sub \in Ids => pc[e.sub] = "none") }

\* The message that has just been taken from the queue.
Newest(h) == h \in Coming /\ \A t \in Ids \ Unknown : t < h

Hears ==
  /\ said' = said /\ todo' = todo
  /\ Adds(Aside)
  /\ \/ UNCHANGED <<active, pc, pending>>
     \/ /\ TurnRunning /\ UNCHANGED <<active, pc>>
        /\ \E h \in Ids : Newest(h) /\ pending' = Append(pending, h)
     \/ /\ ~TurnRunning /\ UNCHANGED <<pending, events>>
        /\ \E h \in Ids : Newest(h) /\ active' = h /\ pc' = [pc EXCEPT ![h] = "created"]

OthersStep ==
  \/ \E op \in Ops : Submit(op)
  \/ LoopStep
  \/ Render
  \/ \E d \in Decisions : AnswerApproval(d)
  \/ UNCHANGED vars

LEMMA ApartStays ==
  ASSUME Apart, Coming' \subseteq Coming, NEW STATE set, Adds(set),
         \A e \in set : e.sub \notin Coming' /\ (e.msg = "ContextCompacted" => e.sub \in Ids),
         loop' = "compact" => loopSub' \in Ids \ Coming' /\ pc'[loopSub'] = "none"
  PROVE  Apart'
<1>1. ASSUME NEW i \in DOMAIN events'
      PROVE  events'[i].sub \notin Coming' /\ (events'[i].msg = "ContextCompacted" => events'[i].sub \in Ids)
  <2>1. CASE i \in DOMAIN events
    BY <2>1 DEF Adds, Apart
  <2>2. CASE events'[i] \in set
    BY <2>2
  <2> QED BY <2>1, <2>2 DEF Adds
<1> QED BY <1>1 DEF Apart

\* Only the turns append to the rollout.
LEMMA OthersRoll ==
  ASSUME OthersStep
  PROVE  UNCHANGED <<torn, lost>>
  BY DEF OthersStep, Submit, LoopStep, LoopUserTurn, LoopExecApproval, LoopInterrupt, LoopShutdown, LoopCompact,
         LoopCompactDone, LoopCompactRaises, Render, AnswerApproval, vars, rollVars

LEMMA OthersHear ==
  ASSUME IndInv, SteerInv, Numbering, Apart, OthersStep
  PROVE  Hears /\ Numbering' /\ Apart' /\ Coming' \subseteq Coming
<1> DEFINE h == Head(submissions).id
           Goal == Hears /\ Numbering' /\ Apart' /\ Coming' \subseteq Coming
<1>0. Typed /\ TypeOK
  BY DEF IndInv, Typed
<1>1. Coming \subseteq Unknown /\ Coming \subseteq Ids /\ 0 \notin Ids /\ \A t \in Coming : pc[t] = "none"
  BY <1>0, ComingUnknown DEF Coming, Ids
<1>r. lost' = lost
  BY OthersRoll
<1>2. UNCHANGED <<pc, pending, said>> => Unknown' = Unknown
  BY <1>r DEF Unknown
\* What is left to show once the queue is seen to.
<1>silent. ASSUME UNCHANGED <<active, pc, todo, pending, said, events>>, Numbering', Coming' \subseteq Coming,
                  loop' = "compact" => loopSub' \in Ids \ Coming' /\ pc'[loopSub'] = "none"
           PROVE  Goal
  <2>1. Adds(Aside) /\ Adds({})
    BY <1>0, <1>silent, AddsNothing
  <2>2. Apart'
    BY <1>silent, <2>1, ApartStays
  <2> QED BY <1>silent, <2>1, <2>2 DEF Hears
<1>emit. ASSUME NEW s \in 0 .. MaxSubs,
                NEW m \in {"BackgroundNotice", "ErrorEvent", "TurnAborted", "ShutdownComplete", "ContextCompacted"},
                Emit(Ev(s, m)), s \notin Coming', s \in Ids => pc[s] = "none", s \in Ids \/ m # "ContextCompacted",
                Coming' \subseteq Coming, loop' # "compact"
         PROVE  Adds(Aside) /\ Apart'
  <2> DEFINE e == Ev(s, m)
  <2>1. e \in Event /\ e.sub = s /\ e.msg = m
    <3>1. e \in Event
      BY EventTyped DEF Kinds, Terminal
    <3> QED BY <3>1 DEF Ev
  <2>2. Emit(e) /\ e \in Aside
    BY <1>emit, <2>1 DEF Aside
  <2> HIDE DEF e
  <2>3. Adds(Aside) /\ Adds({e})
    BY <1>0, <2>1, <2>2, AddsOne
  <2>4. Apart'
    BY <1>emit, <2>1, <2>3, ApartStays
  <2> QED BY <2>3, <2>4
<1>3. ASSUME NEW op \in Ops, Submit(op) PROVE Goal
  <2> DEFINE s == [op |-> op, id |-> nextSub]
  <2>1. /\ s \in Submission /\ s.op # "ExecApproval" /\ s.id = nextSub /\ submissions' = Append(submissions, s)
        /\ nextSub \in Ids /\ nextSub' = nextSub + 1
    BY <1>3, ConfigAssumption DEF Submit, Submission
  <2>2. UNCHANGED <<active, pc, todo, pending, said, events, loop, loopSub>>
    BY <1>3 DEF Submit, loopVars, taskVars, convVars
  <2> HIDE DEF s
  <2>3. Numbering' /\ Coming' \subseteq Coming
    BY <1>0, <1>r, <2>1, <2>2, NumberingGrows
  <2> QED BY <1>silent, <2>2, <2>3 DEF Apart
<1>4. ASSUME NEW d \in Decisions, AnswerApproval(d) PROVE Goal
  <2> DEFINE s == [op |-> "ExecApproval", call |-> asking, decision |-> d]
  <2>1. s \in Submission /\ s.op = "ExecApproval" /\ submissions' = Append(submissions, s) /\ nextSub' = nextSub
    BY <1>0, <1>4 DEF AnswerApproval, Submission, TypeOK, Calls
  <2>2. UNCHANGED <<active, pc, todo, pending, said, events, loop, loopSub>>
    BY <1>4 DEF AnswerApproval, loopVars, taskVars, convVars
  <2> HIDE DEF s
  <2>3. Numbering' /\ Coming' \subseteq Coming
    BY <1>0, <1>r, <2>1, <2>2, NumberingGrows
  <2> QED BY <1>silent, <2>2, <2>3 DEF Apart
<1>5. ASSUME UNCHANGED <<submissions, nextSub, pc, pending, said>>
      PROVE  Numbering' /\ Coming' = Coming
  BY <1>5, <1>2 DEF Numbering, IsOp, Coming
<1>6. CASE Render \/ UNCHANGED vars
  <2>1. UNCHANGED <<submissions, nextSub, active, pc, todo, pending, said, events, loop, loopSub>>
    BY <1>6 DEF Render, vars, queueVars, loopVars, taskVars, convVars
  <2> QED BY <1>5, <1>silent, <2>1 DEF Apart
<1>7. ASSUME NEW op, Receive(op), UNCHANGED <<pc, pending, said>>
      PROVE  /\ Numbering' /\ Coming' \subseteq Coming
             /\ op # "ExecApproval" => h \in Ids /\ h \in 0 .. MaxSubs /\ h \notin Coming' /\ pc[h] = "none"
  <2>1. Unknown' = Unknown
    BY <1>2, <1>7
  <2>2. /\ Numbering' /\ Coming' \subseteq Coming
        /\ op # "ExecApproval" => h \in Ids /\ h \notin Coming' /\ h \in Unknown
    BY <1>0, <1>7, <2>1, NumberingShrinks
  <2>3. op # "ExecApproval" => h \in 0 .. MaxSubs
    BY <1>0, <1>7, ReceiveTyped
  <2> QED BY <2>2, <2>3 DEF Unknown
<1>8. CASE LoopExecApproval
  <2>1. Receive("ExecApproval") /\ UNCHANGED <<active, pc, todo, pending, said, loop>> /\ loop = "get"
    BY <1>8 DEF LoopExecApproval, Receive, taskVars, convVars, loopVars
  <2>2. Numbering' /\ Coming' \subseteq Coming
    BY <1>7, <2>1
  <2>3. CASE UNCHANGED events
    BY <1>silent, <2>1, <2>2, <2>3
  <2>4. CASE Emit(Ev(0, "ErrorEvent"))
    <3>1. 0 \in 0 .. MaxSubs /\ 0 \notin Ids /\ 0 \notin Coming'
      BY <1>1, <2>2
    <3>2. Adds(Aside) /\ Apart'
      BY <1>emit, <2>1, <2>2, <2>4, <3>1
    <3> QED BY <2>1, <2>2, <3>2 DEF Hears
  <2> QED BY <1>8, <2>3, <2>4 DEF LoopExecApproval
<1>9. CASE LoopCompact
  <2>1. Receive("Compact") /\ UNCHANGED <<active, pc, todo, pending, said, events>> /\ loopSub' = h
    BY <1>9 DEF LoopCompact, taskVars, convVars
  <2>2. Numbering' /\ Coming' \subseteq Coming /\ h \in Ids /\ h \notin Coming' /\ pc[h] = "none"
    BY <1>7, <2>1
  <2> HIDE DEF h
  <2> QED BY <1>silent, <2>1, <2>2
<1>10. CASE LoopInterrupt \/ LoopShutdown
  <2>1. PICK op \in {"Interrupt", "Shutdown"} : Receive(op)
    BY <1>10 DEF LoopInterrupt, LoopShutdown
  <2>2. UNCHANGED <<active, pc, todo, pending, said>> /\ loop' # "compact"
    BY <1>10 DEF LoopInterrupt, LoopShutdown, Receive, loopVars, convVars
  <2>3. Numbering' /\ Coming' \subseteq Coming /\ h \in 0 .. MaxSubs /\ h \in Ids /\ h \notin Coming' /\ pc[h] = "none"
    BY <1>7, <2>1, <2>2
  <2>4. UNCHANGED events \/ \E m \in {"TurnAborted", "ShutdownComplete"} : Emit(Ev(h, m))
    BY <1>10 DEF LoopInterrupt, LoopShutdown
  <2> HIDE DEF h
  <2>5. CASE UNCHANGED events
    BY <1>silent, <2>2, <2>3, <2>5
  <2>6. ASSUME NEW m \in {"TurnAborted", "ShutdownComplete"}, Emit(Ev(h, m)) PROVE Goal
    <3>1. Adds(Aside) /\ Apart'
      BY <1>emit, <2>2, <2>3, <2>6
    <3> QED BY <2>2, <2>3, <3>1 DEF Hears
  <2> QED BY <2>4, <2>5, <2>6
<1>11. CASE LoopCompactDone
  <2>1. /\ UNCHANGED <<submissions, nextSub, active, pc, todo, pending, said>>
        /\ loop = "compact" /\ loop' = "get" /\ Emit(Ev(loopSub, "ContextCompacted"))
    BY <1>11 DEF LoopCompactDone, RebuildHistory, queueVars, taskVars
  <2>2. Numbering' /\ Coming' = Coming
    BY <1>5, <2>1
  <2>3. loopSub \in 0 .. MaxSubs /\ loopSub \in Ids /\ loopSub \notin Coming' /\ pc[loopSub] = "none"
    BY <1>0, <2>1, <2>2 DEF Apart, TypeOK
  <2>4. Adds(Aside) /\ Apart'
    BY <1>emit, <2>1, <2>2, <2>3
  <2> QED BY <2>1, <2>2, <2>4 DEF Hears
<1>12. CASE LoopCompactRaises
  <2>1. UNCHANGED <<submissions, nextSub, active, pc, todo, pending, said, events>> /\ loop' # "compact"
    BY <1>12 DEF LoopCompactRaises, queueVars, taskVars, convVars
  <2> QED BY <1>5, <1>silent, <2>1
<1>13. CASE LoopUserTurn
  <2>1. /\ Receive("UserTurn") /\ UNCHANGED <<todo, said>> /\ loop' = "get"
        /\ \/ /\ TurnRunning /\ pending' = Append(pending, h) /\ UNCHANGED <<active, pc>>
              /\ Emit(Ev(h, "BackgroundNotice"))
           \/ /\ ~TurnRunning /\ active' = h /\ pc' = [pc EXCEPT ![h] = "created"] /\ UNCHANGED <<pending, events>>
    BY <1>13 DEF LoopUserTurn, Enqueued, Go, Receive, loopVars
  <2>2. Unknown \ Unknown' \subseteq {h}
    <3>1. pending \in Seq(Ids) /\ pc \in [Ids -> Phases] /\ h \in Ids
      BY <1>0, <2>1, ReceiveTyped DEF TypeOK
    <3>2. CASE pending' = Append(pending, h) /\ UNCHANGED pc
      <4>1. Range(pending') = Range(pending) \cup {h}
        BY <3>1, <3>2, RangeAppend
      <4> QED BY <1>r, <2>1, <3>2, <4>1 DEF Unknown
    <3>3. CASE pc' = [pc EXCEPT ![h] = "created"] /\ UNCHANGED pending
      BY <1>r, <2>1, <3>1, <3>3 DEF Unknown
    <3> QED BY <2>1, <3>2, <3>3
  <2>3. /\ Numbering' /\ Coming' \subseteq Coming
        /\ h \in Ids /\ h \notin Coming' /\ h \in Unknown /\ \A t \in Ids \ Unknown : t < h
    BY <1>0, <2>1, <2>2, NumberingShrinks
  <2>4. h \in Coming /\ pc[h] = "none" /\ h \in 0 .. MaxSubs
    <3>1. Head(submissions) = submissions[1] /\ submissions[1].op = "UserTurn" /\ Len(submissions) \in Nat \ {0}
      BY <1>0, <2>1, Received
    <3>2. h \in 0 .. MaxSubs
      BY <2>3 DEF Ids
    <3> QED BY <2>3, <3>1, <3>2 DEF Coming, Unknown
  <2>5. Newest(h)
    BY <2>3, <2>4 DEF Newest
  <2> HIDE DEF h
  <2>6. CASE /\ TurnRunning /\ pending' = Append(pending, h) /\ UNCHANGED <<active, pc>>
             /\ Emit(Ev(h, "BackgroundNotice"))
    <3>1. Adds(Aside) /\ Apart'
      BY <1>emit, <2>1, <2>3, <2>4, <2>6
    <3> QED BY <2>1, <2>3, <2>5, <2>6, <3>1 DEF Hears
  <2>7. CASE ~TurnRunning /\ active' = h /\ pc' = [pc EXCEPT ![h] = "created"] /\ UNCHANGED <<pending, events>>
    <3>1. Adds(Aside) /\ Adds({})
      BY <1>0, <2>7, AddsNothing
    <3>2. Apart'
      BY <2>1, <2>3, <3>1, ApartStays
    <3> QED BY <2>1, <2>3, <2>5, <2>7, <3>1, <3>2 DEF Hears
  <2> QED BY <2>1, <2>6, <2>7
<1> QED BY <1>3, <1>4, <1>6, <1>8, <1>9, <1>10, <1>11, <1>12, <1>13 DEF OthersStep, LoopStep

-----------------------------------------------------------------------------
(* What a turn's step leaves of all this.                                  *)

LEMMA AddsThree ==
  ASSUME TypeOK, NEW STATE set, NEW e1 \in Event, NEW e2 \in Event, NEW e3 \in Event,
         events' = Append(Append(Append(events, e1), e2), e3), e1 \in set, e2 \in set, e3 \in set
  PROVE  /\ Adds(set)
         /\ DOMAIN events' = 1 .. Len(events) + 3
         /\ events'[Len(events) + 1] = e1 /\ events'[Len(events) + 2] = e2 /\ events'[Len(events) + 3] = e3
<1> DEFINE a == Append(events, e1)
           b == Append(a, e2)
<1>1. /\ a \in Seq(Event) /\ Len(a) = Len(events) + 1 /\ Len(events) \in Nat /\ DOMAIN events = 1 .. Len(events)
      /\ \A i \in 1 .. Len(events) : a[i] = events[i]
      /\ a[Len(events) + 1] = e1
  BY AppendProperties, LenProperties DEF TypeOK
<1> HIDE DEF a
<1>2. /\ b \in Seq(Event) /\ Len(b) = Len(a) + 1
      /\ \A i \in 1 .. Len(a) : b[i] = a[i]
      /\ b[Len(a) + 1] = e2
  BY <1>1, AppendProperties
<1> HIDE DEF b
<1>3. /\ events' = Append(b, e3) /\ Len(events') = Len(b) + 1 /\ DOMAIN events' = 1 .. Len(b) + 1
      /\ \A i \in 1 .. Len(b) : events'[i] = b[i]
      /\ events'[Len(b) + 1] = e3
  BY <1>2, AppendProperties, LenProperties DEF a, b
<1>4. /\ DOMAIN events' = 1 .. Len(events) + 3 /\ Len(events') = Len(events) + 3
      /\ events'[Len(events) + 1] = e1 /\ events'[Len(events) + 2] = e2 /\ events'[Len(events) + 3] = e3
  BY <1>1, <1>2, <1>3
<1>5. \A i \in 1 .. Len(events) : events'[i] = events[i]
  BY <1>1, <1>2, <1>3
<1>6. \A i \in 1 .. Len(events) + 3 :
        i \in 1 .. Len(events) \/ (i > Len(events) /\ i \in {Len(events) + 1, Len(events) + 2, Len(events) + 3})
  BY <1>1
<1>7. Len(events') >= Len(events) /\ \A i \in 1 .. Len(events) : i \in 1 .. Len(events) + 3
  BY <1>1, <1>4
<1>8. Adds(set)
  BY <1>1, <1>4, <1>5, <1>6, <1>7 DEF Adds
<1> QED BY <1>4, <1>8

LEMMA TellsOwn ==
  ASSUME Typed, NEW t \in Ids, Tells(t)
  PROVE  Adds(OfTurn(t))
<1> DEFINE e1 == Ev(t, "TaskStarted")
           e2 == Ev(t, "ErrorEvent")
           e3 == Ev(t, "TaskComplete")
<1>1. /\ e1 \in Event /\ e1 \in OfTurn(t) /\ e2 \in Event /\ e2 \in OfTurn(t) /\ e3 \in Event /\ e3 \in OfTurn(t)
  BY TurnsEvents DEF Kinds, Terminal, OfTurn
<1>2. CASE GoesOn(t)
  <2>1. Chat(t) \subseteq OfTurn(t)
    BY DEF Chat
  <2> QED BY <1>2, <2>1, Wider DEF GoesOn
<1>3. CASE events' = events
  BY <1>3, AddsNothing DEF Typed
<1>4. CASE Emit(e1)
  <2> HIDE DEF e1
  <2> QED BY <1>1, <1>4, AddsOne DEF Typed
<1>5. CASE events' = Append(Append(Append(events, e1), e2), e3)
  <2> HIDE DEF e1, e2, e3
  <2> QED BY <1>1, <1>5, AddsThree DEF Typed
<1>6. CASE Concludes(t)
  BY <1>6 DEF Concludes, AddsEnding
<1>7. CASE events' = Append(Append(events, e1), e2)
  <2> HIDE DEF e1, e2
  <2> QED BY <1>1, <1>7, AddsTwo DEF Typed, Emit2
<1>8. CASE AddsTwoEndings(t)
  BY <1>8 DEF AddsTwoEndings
<1> QED BY <1>2, <1>3, <1>4, <1>5, <1>6, <1>7, <1>8 DEF Tells, Starts, StopsShort, Tears

\* What a turn says comes after what was said: its own message, those that waited longest, or the
\* mark.  The messages behind these wait on, or are dropped.
LEMMA TellsSaid ==
  ASSUME IndInv, SteerInv, NEW t \in Ids, Tells(t)
  PROVE  /\ said \in Seq(Ids \cup {Mark}) /\ pending \in Seq(Ids)
         /\ \E new \in Seq(Ids \cup {Mark}), front \in Seq(Ids) :
              /\ said' = said \o new /\ Fronts(front) /\ Range(front) \subseteq Range(pending)
              /\ \/ new = <<>> /\ UNCHANGED <<pending, lost>>
                 \/ new = <<Mark>> /\ UNCHANGED <<pending, lost>> /\ pc[t] \in Begun
                 \/ new = <<t>> /\ UNCHANGED <<pending, lost>> /\ pc[t] = "created" /\ t \in torn'
                 \/ /\ pending' = <<>> /\ lost' = lost \cup (Range(pending) \ Range(front))
                    /\ \/ new = front /\ pc[t] \in Begun
                       \/ new = <<t>> \o front /\ pc[t] = "created"
<1>0. /\ said \in Seq(Ids \cup {Mark}) /\ pending \in Seq(Ids) /\ pending \in Seq(Ids \cup {Mark})
      /\ Fronts(pending) /\ Fronts(<<>>) /\ <<>> \in Seq(Ids) /\ Range(<<>>) \subseteq Range(pending)
  <2>1. said \in Seq(Ids \cup {Mark}) /\ pending \in Seq(Ids) /\ Len(pending) \in Nat
    BY SteerTyped
  <2> QED BY <2>1, EmptyRange DEF Fronts
<1>1. said \o <<>> = said /\ <<>> \in Seq(Ids \cup {Mark})
  BY <1>0, ConcatEmptySeq
<1>2. UNCHANGED lost => lost' = lost \cup (Range(pending) \ Range(pending))
  OBVIOUS
<1>3. <<t>> \in Seq(Ids \cup {Mark}) /\ Append(said, t) = said \o <<t>>
  BY <1>0, AppendIsConcat
<1>4. <<Mark>> \in Seq(Ids \cup {Mark}) /\ Append(said, Mark) = said \o <<Mark>>
  BY <1>0, AppendIsConcat
<1>quiet. ASSUME said' = said, UNCHANGED <<pending, lost>>
          PROVE  \E new \in Seq(Ids \cup {Mark}) : said' = said \o new /\ new = <<>>
  BY <1>1, <1>quiet
\* The messages `front' are said after the prompt of a turn that begins.
<1>first. ASSUME NEW front \in Seq(Ids), said' = Append(said, t) \o front
          PROVE  <<t>> \o front \in Seq(Ids \cup {Mark}) /\ said' = said \o (<<t>> \o front)
  <2> DEFINE one == <<t>>
  <2>1. front \in Seq(Ids \cup {Mark}) /\ one \in Seq(Ids \cup {Mark}) /\ Append(said, t) = said \o one
    BY <1>3
  <2> HIDE DEF one
  <2>2. one \o front \in Seq(Ids \cup {Mark}) /\ (said \o one) \o front = said \o (one \o front)
    BY <1>0, <2>1, ConcatProperties, ConcatAssociative
  <2>3. said' = said \o (one \o front)
    BY <1>first, <2>1, <2>2
  <2> QED BY <2>2, <2>3 DEF one
<1>5. CASE said' = said /\ UNCHANGED <<pending, lost>>
  BY <1>0, <1>1, <1>5
<1>6. CASE said' = Append(said, Mark) /\ UNCHANGED <<pending, lost>> /\ pc[t] \in Begun
  BY <1>0, <1>4, <1>6
<1>7. CASE said' = Append(said, t) /\ UNCHANGED <<pending, lost>> /\ pc[t] = "created" /\ t \in torn'
  BY <1>0, <1>3, <1>7
<1>8. CASE said' = said \o pending /\ pending' = <<>> /\ UNCHANGED lost /\ pc[t] \in Begun
  BY <1>0, <1>2, <1>8
<1>9. CASE Starts(t)
  <2>1. /\ said' = Append(said, t) \o pending /\ pending' = <<>> /\ pc[t] = "created"
        /\ lost' = lost \cup (Range(pending) \ Range(pending))
    BY <1>2, <1>9 DEF Starts
  <2>2. <<t>> \o pending \in Seq(Ids \cup {Mark}) /\ said' = said \o (<<t>> \o pending)
    BY <1>0, <1>first, <2>1
  <2> QED BY <1>0, <2>1, <2>2
<1>10. CASE DrainBreaks(said) /\ pc[t] \in Begun
  <2>1. PICK front \in Seq(Ids) : /\ Fronts(front) /\ Range(front) \subseteq Range(pending) /\ said' = said \o front
                                  /\ lost' = lost \cup (Range(pending) \ Range(front))
    BY <1>10, DrainSplits
  <2>2. front \in Seq(Ids \cup {Mark}) /\ pending' = <<>>
    BY <1>10 DEF DrainBreaks
  <2> QED BY <1>0, <1>10, <2>1, <2>2
<1>11. CASE DrainBreaks(Append(said, t)) /\ pc[t] = "created"
  <2>1. PICK front \in Seq(Ids) : /\ Fronts(front) /\ Range(front) \subseteq Range(pending)
                                  /\ said' = Append(said, t) \o front
                                  /\ lost' = lost \cup (Range(pending) \ Range(front))
    BY <1>11, DrainSplits
  <2>2. <<t>> \o front \in Seq(Ids \cup {Mark}) /\ said' = said \o (<<t>> \o front) /\ pending' = <<>>
    BY <1>11, <1>first, <2>1 DEF DrainBreaks
  <2> QED BY <1>0, <1>11, <2>1, <2>2
<1>12. CASE GoesOn(t)
  BY <1>5, <1>8, <1>12 DEF GoesOn
<1>13. CASE StopsShort(t)
  BY <1>5, <1>7, <1>11, <1>13 DEF StopsShort
<1>14. CASE Concludes(t) \/ Tears(t)
  BY <1>5, <1>6, <1>10, <1>14 DEF Concludes, Tears
<1> QED BY <1>9, <1>12, <1>13, <1>14 DEF Tells

\* A turn's step gets no message known that was not, and loses the track of none.
LEMMA TellsKnown ==
  ASSUME IndInv, SteerInv, NEW t \in Ids, Tells(t), \A u \in Ids \ {t} : pc'[u] = pc[u]
  PROVE  /\ Unknown' = Unknown
         /\ \A u \in Ids : u \in Range(said) => u \in Range(said')
         /\ \A u \in Ids : u \in Range(said') => u \in Range(said) \cup Range(pending) \cup {t}
         /\ Range(pending') \subseteq Range(pending)
<1>1. PICK new \in Seq(Ids \cup {Mark}), front \in Seq(Ids) :
        /\ said' = said \o new /\ Fronts(front) /\ Range(front) \subseteq Range(pending)
        /\ \/ new = <<>> /\ UNCHANGED <<pending, lost>>
           \/ new = <<Mark>> /\ UNCHANGED <<pending, lost>> /\ pc[t] \in Begun
           \/ new = <<t>> /\ UNCHANGED <<pending, lost>> /\ pc[t] = "created" /\ t \in torn'
           \/ /\ pending' = <<>> /\ lost' = lost \cup (Range(pending) \ Range(front))
              /\ \/ new = front /\ pc[t] \in Begun
                 \/ new = <<t>> \o front /\ pc[t] = "created"
  BY TellsSaid
<1>2. said \in Seq(Ids \cup {Mark}) /\ pending \in Seq(Ids)
  BY SteerTyped
<1>3. Range(said') = Range(said) \cup Range(new)
  BY <1>1, <1>2, RangeConcatenation
<1>4. \/ Range(new) \subseteq {Mark, t} /\ UNCHANGED <<pending, lost>>
      \/ /\ Range(front) \subseteq Range(new) /\ Range(new) \subseteq {t} \cup Range(front) /\ pending' = <<>>
         /\ lost' = lost \cup (Range(pending) \ Range(front))
  <2>1. Range(<<Mark>>) = {Mark} /\ Range(<<t>>) = {t}
    BY DEF Range
  <2>2. Range(<<t>> \o front) = {t} \cup Range(front)
    <3> DEFINE one == <<t>>
    <3>1. one \in Seq(Ids) /\ Range(one) = {t}
      BY <2>1
    <3> HIDE DEF one
    <3>2. Range(one \o front) = {t} \cup Range(front)
      BY <3>1, RangeConcatenation
    <3> QED BY <3>2 DEF one
  <2> QED BY <1>1, <2>1, <2>2, EmptyRange
<1>5. Mark \notin Ids
  BY DEF Mark, Ids
<1>6. pc[t] # "none" /\ pc'[t] # "none"
  BY DEF Tells, GoesOn, Starts, StopsShort, Concludes, Tears, Begun, Live, Waiting
<1>7. Range(pending') \subseteq Range(pending)
  BY <1>4, EmptyRange
<1>8. \A u \in Ids \ {t} : u \in Range(pending') \cup Range(said') \cup lost' <=> u \in Range(pending) \cup Range(said) \cup lost
  BY <1>1, <1>3, <1>4, <1>5, EmptyRange
<1>9. Unknown' = Unknown
  BY <1>6, <1>8 DEF Unknown
<1>10. \A u \in Ids : u \in Range(said') => u \in Range(said) \cup Range(pending) \cup {t}
  BY <1>1, <1>3, <1>4, <1>5
<1> QED BY <1>3, <1>7, <1>9, <1>10

LEMMA TurnsStayApart ==
  ASSUME IndInv, SteerInv, Numbering, Apart, NEW t \in Ids, TurnStep(t)
  PROVE  Numbering' /\ Apart' /\ Coming' = Coming
<1>0. Typed /\ Tells(t) /\ \A u \in Ids \ {t} : pc'[u] = pc[u]
  BY TurnTells, TurnFrame DEF IndInv
<1>1. UNCHANGED <<submissions, nextSub, loop, loopSub>>
  BY DEF TurnStep, TurnStart, TurnCompacted, StreamCall, StreamEnd, TurnCancelled, TurnError, DispatchInline,
         DispatchMcp, McpDone, DispatchExec, ExecDone, ExecDenied, Decided, AppendFails, queueVars, loopVars
<1>2. Coming' = Coming
  BY <1>1 DEF Coming
<1>3. Numbering'
  BY <1>0, <1>1, TellsKnown DEF Numbering, IsOp
<1>4. Coming \subseteq Unknown /\ pc[t] \in Live /\ t \notin Coming
  BY <1>0, ComingUnknown, TurnFrame DEF Unknown, Live, Waiting
<1>5. Apart'
  <2>1. loop' = "compact" => loopSub' \in Ids \ Coming' /\ pc'[loopSub'] = "none"
    BY <1>0, <1>1, <1>2, <1>4 DEF Apart, Live, Waiting
  <2>2. \A e \in OfTurn(t) : e.sub \notin Coming' /\ e.sub \in Ids
    BY <1>2, <1>4 DEF OfTurn
  <2> QED BY <1>0, <1>2, <2>1, <2>2, TellsOwn, ApartStays
<1> QED BY <1>2, <1>3, <1>5

-----------------------------------------------------------------------------
(* Each turn's story.                                                      *)

Completes ==
  \A i \in DOMAIN events : events[i].msg = "TaskComplete" => events[i].sub \in Ids /\ pc[events[i].sub] = "done"

\* A bad end stays one.
LEMMA BadStays ==
  ASSUME NEW STATE set, Adds(set), NEW u \in Ids, EndedBadly(u), pc'[u] = "done",
         \A e \in set : e.sub = u => e.msg # "TaskComplete"
  PROVE  EndedBadly(u)'
<1>1. ASSUME NEW i \in DOMAIN events', events'[i].sub = u
      PROVE  events'[i].msg # "TaskComplete" \/ \E j \in DOMAIN events' : events'[j] = Ev(u, "ErrorEvent")
  <2>1. CASE i \in DOMAIN events
    <3>1. events[i].msg # "TaskComplete" \/ \E j \in DOMAIN events : events[j] = Ev(u, "ErrorEvent")
      BY <1>1, <2>1 DEF Adds, EndedBadly
    <3> QED BY <2>1, <3>1 DEF Adds
  <2>2. CASE events'[i] \in set
    BY <1>1, <2>2
  <2> QED BY <2>1, <2>2 DEF Adds
<1> QED BY <1>1 DEF EndedBadly

\* A turn that stops before it begins, or concludes with something left, ends badly.
LEMMA ShortIsBad ==
  ASSUME Typed, NEW t \in Ids, EventsOf(t) = {}, StopsShort(t)
  PROVE  EndedBadly(t)'
<1> DEFINE e1 == Ev(t, "TaskStarted")
           e2 == Ev(t, "ErrorEvent")
           e3 == Ev(t, "TaskComplete")
<1>1. /\ e1 \in Event /\ e1.sub = t /\ e1.msg = "TaskStarted" /\ e2 \in Event /\ e3 \in Event
  BY TurnsEvents DEF Kinds, Terminal, OfTurn
<1>2. pc'[t] = "done" /\ \A i \in DOMAIN events : events[i].sub # t
  BY DEF StopsShort, EventsOf
<1>3. CASE events' = events
  BY <1>2, <1>3 DEF EndedBadly
<1>4. CASE Emit(e1)
  <2> HIDE DEF e1
  <2>1. Adds({e1})
    BY <1>1, <1>4, AddsOne DEF Typed
  <2>2. \A i \in DOMAIN events' : events'[i].sub = t => events'[i].msg # "TaskComplete"
    BY <1>1, <1>2, <2>1 DEF Adds
  <2> QED BY <1>2, <2>2 DEF EndedBadly
<1>5. CASE events' = Append(Append(Append(events, e1), e2), e3)
  <2> HIDE DEF e1, e2, e3
  <2> DEFINE all == {e1, e2, e3}
  <2>1. DOMAIN events' = 1 .. Len(events) + 3 /\ events'[Len(events) + 2] = e2
    <3>1. e1 \in all /\ e2 \in all /\ e3 \in all
      OBVIOUS
    <3> HIDE DEF all
    <3> QED BY <1>1, <1>5, <3>1, AddsThree DEF Typed
  <2>2. Len(events) + 2 \in DOMAIN events'
    BY <2>1, LenProperties DEF Typed, TypeOK
  <2> QED BY <1>2, <2>1, <2>2 DEF EndedBadly, e2
<1>6. CASE events' = Append(Append(events, e1), e2)
  <2>0. e2.msg = "ErrorEvent"
    BY TurnsEvents DEF Kinds, Terminal
  <2> HIDE DEF e1, e2
  <2>1. Adds({e1, e2})
    BY <1>1, <1>6, AddsTwo DEF Typed, Emit2
  <2>2. \A i \in DOMAIN events' : events'[i].sub = t => events'[i].msg # "TaskComplete"
    BY <1>1, <1>2, <2>0, <2>1 DEF Adds
  <2> QED BY <1>2, <2>2 DEF EndedBadly
<1> QED BY <1>3, <1>4, <1>5, <1>6 DEF StopsShort

\* So does one whose ending a failed append spoils,
LEMMA TornIsBad ==
  ASSUME Completes, NEW t \in Ids, Tears(t)
  PROVE  EndedBadly(t)'
<1>1. pc'[t] = "done" /\ pc[t] # "done"
  BY DEF Tears, Begun, Live, Waiting
<1>2. CASE events' = events
  <2>1. \A i \in DOMAIN events : events[i].sub = t => events[i].msg # "TaskComplete"
    BY <1>1 DEF Completes
  <2> QED BY <1>1, <1>2, <2>1 DEF EndedBadly
<1>3. CASE AddsTwoEndings(t)
  BY <1>1, <1>3 DEF AddsTwoEndings, EndedBadly
<1> QED BY <1>2, <1>3 DEF Tears

\* and any that a failed append ends.
LEMMA BrokenIsBad ==
  ASSUME Typed, Completes, NEW t \in Ids, AppendFails(t)
  PROVE  EndedBadly(t)'
<1> DEFINE c == Head(todo[t])
           error == Ev(t, "ErrorEvent")
           start == Ev(t, "TaskStarted")
<1>0. TypeOK /\ events \in Seq(Event) /\ pc'[t] = "done" /\ pc[t] \in Live
  BY BreakFrame DEF Typed, TypeOK
<1>1. /\ error \in Event /\ error.msg # "TaskComplete" /\ start \in Event /\ start.msg # "TaskComplete"
  BY TurnsEvents DEF Kinds, Terminal, OfTurn
<1>2. pc[t] \in Calling => \A m \in {"BeginSandboxed", "BeginUnsandboxed", "ExecCommandEnd"} :
                             CallEv(t, m, c) \in Event /\ CallEv(t, m, c).msg # "TaskComplete"
  BY CallEventsTyped, TurnsEvents DEF Chat, Terminal
<1>3. ASSUME NEW tail \in Seq(Event), Dies(t, tail), \A j \in 1 .. Len(tail) : tail[j].msg # "TaskComplete"
      PROVE  EndedBadly(t)'
  <2>1. /\ Len(events) \in Nat /\ Len(tail) \in Nat /\ DOMAIN events' = 1 .. Len(events') /\ DOMAIN events = 1 .. Len(events)
        /\ Len(events') = Len(events) + Len(tail)
        /\ \A i \in 1 .. Len(events') : events'[i] = IF i <= Len(events) THEN events[i] ELSE tail[i - Len(events)]
    <3>1. events' = events \o tail
      BY <1>3 DEF Dies
    <3>2. events \in Seq(Event) /\ tail \in Seq(Event)
      BY <1>0
    <3>3. DOMAIN events = 1 .. Len(events)
      BY <1>0, LenProperties
    <3> QED BY ONLY <3>1, <3>2, <3>3, Longer
  <2>2. ASSUME NEW i \in DOMAIN events', events'[i].sub = t PROVE events'[i].msg # "TaskComplete"
    <3>1. i \in 1 .. Len(events')
      BY <2>1
    <3>2. CASE i <= Len(events)
      <4>1. i \in DOMAIN events /\ events'[i] = events[i]
        BY <2>1, <3>1, <3>2
      <4> QED BY <1>0, <2>2, <4>1 DEF Completes, Live, Waiting
    <3>3. CASE ~(i <= Len(events))
      <4>1. i - Len(events) \in 1 .. Len(tail)
        BY ONLY <2>1, <3>1, <3>3
      <4> QED BY <1>3, <2>1, <3>1, <3>3, <4>1
    <3> QED BY <3>2, <3>3
  <2> QED BY <1>0, <2>2 DEF EndedBadly
<1>4. ASSUME NEW e \in Event, NEW f \in Event, NEW g \in Event,
             e.msg # "TaskComplete", f.msg # "TaskComplete", g.msg # "TaskComplete",
             Dies(t, <<>>) \/ Dies(t, <<e>>) \/ Dies(t, <<e, f>>) \/ Dies(t, <<e, f, g>>)
      PROVE  EndedBadly(t)'
  <2>1. <<>> \in Seq(Event) /\ \A j \in 1 .. Len(<<>>) : <<>>[j].msg # "TaskComplete"
    OBVIOUS
  <2>2. <<e>> \in Seq(Event) /\ \A j \in 1 .. Len(<<e>>) : <<e>>[j].msg # "TaskComplete"
    BY <1>4
  <2>3. <<e, f>> \in Seq(Event) /\ \A j \in 1 .. Len(<<e, f>>) : <<e, f>>[j].msg # "TaskComplete"
    BY <1>4
  <2>4. <<e, f, g>> \in Seq(Event) /\ \A j \in 1 .. Len(<<e, f, g>>) : <<e, f, g>>[j].msg # "TaskComplete"
    BY <1>4
  <2> QED BY <1>3, <1>4, <2>1, <2>2, <2>3, <2>4
<1>5. CASE StartBreaks(t)
  <2>1. Dies(t, <<start>>) \/ Dies(t, <<start, error>>)
    BY <1>5 DEF StartBreaks
  <2> HIDE DEF start, error
  <2> QED BY <1>1, <1>4, <2>1
<1>6. CASE CancelBreaks(t)
  <2>1. Dies(t, <<>>)
    BY <1>6 DEF CancelBreaks
  <2> HIDE DEF start, error
  <2> QED BY <1>1, <1>4, <2>1
<1>7. CASE StreamBreaks(t)
  <2>1. \/ Dies(t, <<error>>)
        \/ Dies(t, (IF turnDiffs # {} THEN <<Ev(t, "TurnDiff")>> ELSE <<>>)
                      \o <<Ev(t, "TaskComplete"), Ev(t, "ErrorEvent")>>)
    BY <1>7 DEF StreamBreaks
  <2>2. CASE Dies(t, <<error>>)
    <3> HIDE DEF start, error
    <3> QED BY <1>1, <1>4, <2>2
  <2>3. CASE Dies(t, (IF turnDiffs # {} THEN <<Ev(t, "TurnDiff")>> ELSE <<>>)
                       \o <<Ev(t, "TaskComplete"), Ev(t, "ErrorEvent")>>)
    <3>1. AddsTwoEndings(t)
      BY <1>0, <2>3, StreamTears
    <3> QED BY <1>0, <3>1 DEF AddsTwoEndings, EndedBadly
  <2> QED BY <2>1, <2>2, <2>3
<1>8. CASE OutputBreaks(t)
  <2>1. pc[t] \in Calling
    BY <1>8 DEF OutputBreaks, Resume, Calling
  <2>2. \/ Dies(t, <<error>>) \/ Dies(t, <<CallEv(t, "ExecCommandEnd", c), error>>)
        \/ Dies(t, <<CallEv(t, "BeginUnsandboxed", c), CallEv(t, "ExecCommandEnd", c), error>>)
    BY <1>8 DEF OutputBreaks
  <2> HIDE DEF start, error
  <2> QED BY <1>1, <1>2, <1>4, <2>1, <2>2
<1>9. CASE BeginBreaks(t)
  <2>1. pc[t] \in Calling
    BY <1>9 DEF BeginBreaks, Calling
  <2>2. \E m \in {"BeginSandboxed", "BeginUnsandboxed"} : Dies(t, <<CallEv(t, m, c), error>>)
    BY <1>9 DEF BeginBreaks
  <2> HIDE DEF start, error
  <2> QED BY <1>1, <1>2, <1>4, <2>1, <2>2
<1> QED BY <1>5, <1>6, <1>7, <1>8, <1>9 DEF AppendFails

LEMMA LeftIsBad ==
  ASSUME Completes, NEW t \in Ids, Concludes(t), pending # <<>> \/ todo[t] # <<>>
  PROVE  EndedBadly(t)'
<1>1. Adds(OfTurn(t)) /\ pc'[t] = "done" /\ pc[t] # "done"
  BY DEF Concludes, AddsEnding, Begun, Live, Waiting
<1>2. ASSUME NEW i \in DOMAIN events', events'[i].sub = t PROVE events'[i].msg # "TaskComplete"
  <2>1. CASE i \in DOMAIN events
    BY <1>1, <1>2, <2>1 DEF Adds, Completes
  <2>2. CASE i > Len(events)
    BY <1>2, <2>2 DEF Concludes, AddsEnding
  <2> QED BY <1>1, <2>1, <2>2 DEF Adds
<1> QED BY <1>1, <1>2 DEF EndedBadly

\* A turn of which nothing is said, and to which nothing happens.
LEMMA StoryUntouched ==
  ASSUME NEW u \in Ids, StoryOf(u), NEW STATE set, Adds(set), \A e \in set : e.sub # u,
         pc'[u] = pc[u], pc[u] = "done" => (u \in Range(said') <=> u \in Range(said)), torn \subseteq torn'
  PROVE  StoryOf(u)'
<1>1. EventsOf(u)' = EventsOf(u) /\ \A i \in EventsOf(u) : events'[i] = events[i]
  BY DEF EventsOf, Adds
<1> DEFINE mine == EventsOf(u)
<1>2. EventsOf(u) = mine /\ EventsOf(u)' = mine
  BY <1>1
<1>3. \A i \in mine : events'[i] = events[i]
  BY <1>1
<1> HIDE DEF mine
<1>4. \A i : (First(u, i)' <=> First(u, i)) /\ (Last(u, i)' <=> Last(u, i))
  BY <1>2 DEF First, Last
<1> QED BY <1>2, <1>3, <1>4 DEF StoryOf

LEMMA StoryOfTurn ==
  ASSUME IndInv, SteerInv, Typed', NEW t \in Ids, StoryOf(t), Tells(t)
  PROVE  StoryOf(t)'
<1>0. events \in Seq(Event) /\ Len(events) \in Nat /\ DOMAIN events = 1 .. Len(events)
  BY LenProperties DEF IndInv, Typed, TypeOK
<1>own. Adds(OfTurn(t))
  BY TellsOwn DEF IndInv
<1>old. /\ EventsOf(t) \subseteq 1 .. Len(events)
        /\ \A i \in EventsOf(t) : i \in EventsOf(t)' /\ events'[i] = events[i]
  BY <1>0, <1>own DEF EventsOf, Adds
<1>new. \A i \in EventsOf(t)' : i \in EventsOf(t) \/ (i > Len(events) /\ i \in DOMAIN events')
  BY <1>own DEF EventsOf, Adds
\* A begun turn's first event stays.
<1>first. ASSUME pc[t] \in Begun, NEW i \in EventsOf(t)', First(t, i)'
          PROVE  i \in EventsOf(t) /\ First(t, i) /\ events'[i].msg = "TaskStarted"
  <2>1. PICK j \in EventsOf(t) : TRUE
    BY <1>first DEF StoryOf, Begun
  <2>2. j \in EventsOf(t)' /\ j \in Int /\ j <= Len(events)
    BY <1>old, <2>1
  <2>3. i <= j
    BY <1>first, <2>2 DEF First
  <2>4. i \in EventsOf(t)
    <3>1. i \in DOMAIN events'
      BY <1>first DEF EventsOf
    <3>2. ~(i > Len(events))
      <4>1. i \in EventsOf(t) \/ i > Len(events)
        BY <1>first, <1>new
      <4>2. i > Len(events) => i \in Int
        BY <3>1, LenProperties DEF Typed, TypeOK
      <4> QED BY <1>0, <2>2, <2>3, <4>1, <4>2
    <3> QED BY <1>first, <1>new, <3>2
  <2>5. First(t, i)
    BY <1>first, <1>old DEF First
  <2> QED BY <1>first, <1>old, <2>4, <2>5 DEF StoryOf, Begun
<1>1. CASE GoesOn(t)
  <2>1. \A i \in EventsOf(t)' : events'[i].msg \notin Terminal
    <3>1. \A i \in EventsOf(t) : events[i].msg \notin Terminal
      BY <1>1 DEF GoesOn, StoryOf, Begun
    <3>2. \A i \in DOMAIN events' : i \in DOMAIN events \/ events'[i].msg \notin Terminal
      BY <1>1 DEF GoesOn, Adds, Chat
    <3>3. \A i \in EventsOf(t)' : i \in DOMAIN events' /\ (i \in DOMAIN events => i \in EventsOf(t) /\ events'[i] = events[i])
      BY <1>own DEF EventsOf, Adds
    <3> QED BY <3>1, <3>2, <3>3
  <2>2. EventsOf(t)' # {}
    BY <1>1, <1>old DEF GoesOn, StoryOf, Begun
  <2> QED BY <1>1, <1>first, <2>1, <2>2 DEF GoesOn, StoryOf, Begun, Live, Waiting
\* Before it begins, a turn has no event.
<1>none. pc[t] = "created" => EventsOf(t) = {} /\ t \notin Range(said)
  BY DEF StoryOf, SteerInv, Placed
<1> DEFINE e1 == Ev(t, "TaskStarted")
           e2 == Ev(t, "ErrorEvent")
           e3 == Ev(t, "TaskComplete")
<1>e. /\ e1 \in Event /\ e1.sub = t /\ e1.msg = "TaskStarted" /\ e2 \in Event /\ e2.sub = t /\ e2.msg = "ErrorEvent"
      /\ e3 \in Event /\ e3.sub = t /\ e3.msg = "TaskComplete"
  BY TurnsEvents DEF Kinds, Terminal, OfTurn
<1>once. ASSUME pc[t] = "created", Emit(e1)
         PROVE  EventsOf(t)' = {Len(events) + 1} /\ events'[Len(events) + 1].msg = "TaskStarted"
  <2> HIDE DEF e1
  <2>1. /\ DOMAIN events' = 1 .. Len(events) + 1 /\ events'[Len(events) + 1] = e1
    BY <1>0, <1>e, <1>once, AppendProperties, LenProperties DEF Emit
  <2>2. \A i \in EventsOf(t)' : i = Len(events) + 1
    BY <1>0, <1>new, <1>none, <1>once, <2>1
  <2>3. Len(events) + 1 \in EventsOf(t)'
    BY <1>0, <1>e, <2>1 DEF EventsOf
  <2> QED BY <1>e, <2>1, <2>2, <2>3
<1>2. CASE Starts(t)
  <2>1. EventsOf(t)' = {Len(events) + 1} /\ events'[Len(events) + 1].msg = "TaskStarted"
    BY <1>2, <1>once DEF Starts
  <2>2. pc'[t] \in Begun /\ "TaskStarted" \notin Terminal
    BY <1>2 DEF Starts, Terminal
  <2> QED BY <2>1, <2>2 DEF StoryOf, Begun, Live, Waiting
<1>3. CASE StopsShort(t)
  <2>0. pc[t] = "created" /\ pc'[t] = "done"
    BY <1>3 DEF StopsShort
  <2>1. CASE events' = events /\ said' = said
    <3>1. EventsOf(t)' = {}
      BY <1>none, <2>0, <2>1 DEF EventsOf
    <3> QED BY <2>0, <3>1 DEF StoryOf, Live, Waiting
  <2>2. CASE Emit(e1) /\ (said' = said \/ t \in torn')
    <3>1. /\ EventsOf(t)' = {Len(events) + 1} /\ events'[Len(events) + 1].msg = "TaskStarted"
          /\ t \notin Range(said') \/ t \in torn'
      BY <1>none, <1>once, <2>0, <2>2
    <3> QED BY <2>0, <3>1 DEF StoryOf, Live, Waiting, Terminal
  <2>3. CASE events' = Append(Append(Append(events, e1), e2), e3)
    <3> HIDE DEF e1, e2, e3
    <3> DEFINE n == Len(events)
    <3>1. DOMAIN events' = 1 .. n + 3 /\ events'[n + 1] = e1 /\ events'[n + 2] = e2 /\ events'[n + 3] = e3
      BY <1>e, <2>3, AddsThree DEF IndInv, Typed, OfTurn
    <3>n. n \in Nat
      BY <1>0
    <3> HIDE DEF n
    <3>2. EventsOf(t)' = {n + 1, n + 2, n + 3}
      <4>1. \A i \in EventsOf(t)' : i > n /\ i \in 1 .. n + 3
        BY <1>new, <1>none, <2>0, <3>1 DEF n
      <4>2. n + 1 \in 1 .. n + 3 /\ n + 2 \in 1 .. n + 3 /\ n + 3 \in 1 .. n + 3
        BY <3>n
      <4>3. \A i \in 1 .. n + 3 : i > n => i = n + 1 \/ i = n + 2 \/ i = n + 3
        BY <3>n
      <4>4. {n + 1, n + 2, n + 3} \subseteq EventsOf(t)'
        BY <1>e, <3>1, <4>2 DEF EventsOf
      <4> QED BY <4>1, <4>3, <4>4
    <3>3. \A i \in EventsOf(t)' : First(t, i)' => i = n + 1
      BY <3>2, <3>n DEF First
    <3>4. \A i \in EventsOf(t)' : (Last(t, i)' <=> i = n + 3)
      BY <3>2, <3>n DEF Last
    <3>5. n + 1 < n + 2 /\ n + 2 < n + 3
      BY <3>n
    <3>6. \A i \in EventsOf(t)' :
            /\ Last(t, i)' => events'[i].msg \in Terminal
            /\ events'[i].msg \in Terminal /\ ~Last(t, i)' => i = n + 2
      BY <1>e, <3>1, <3>2, <3>4 DEF Terminal
    <3>7. /\ events'[n + 2].msg = "ErrorEvent" /\ n + 1 \in EventsOf(t)' /\ n + 3 \in EventsOf(t)'
          /\ EventsOf(t)' = {n + 1, n + 2, n + 3} /\ events'[n + 3].msg = "TaskComplete" /\ events'[n + 1].msg = "TaskStarted"
      BY <1>e, <3>1, <3>2
    <3> QED BY <2>0, <3>3, <3>5, <3>6, <3>7 DEF StoryOf, Live, Waiting
  <2>4. CASE events' = Append(Append(events, e1), e2)
    <3> HIDE DEF e1, e2
    <3> DEFINE n == Len(events)
               once == Append(events, e1)
    <3>1. DOMAIN events' = 1 .. n + 2 /\ events'[n + 1] = e1 /\ events'[n + 2] = e2 /\ n \in Nat
      <4>1. /\ once \in Seq(Event) /\ Len(once) = n + 1 /\ n \in Nat /\ once[n + 1] = e1
        BY <1>0, <1>e, AppendProperties
      <4> HIDE DEF once
      <4>2. /\ events' = Append(once, e2) /\ events' \in Seq(Event) /\ Len(events') = Len(once) + 1
            /\ events'[Len(once)] = once[Len(once)] /\ events'[Len(once) + 1] = e2
        BY <1>e, <2>4, <4>1, AppendProperties DEF once
      <4> QED BY <4>1, <4>2, LenProperties
    <3> HIDE DEF n, once
    <3>2. EventsOf(t)' = {n + 1, n + 2}
      <4>1. \A i \in EventsOf(t)' : i > n /\ i \in 1 .. n + 2
        BY <1>new, <1>none, <2>0, <3>1 DEF n
      <4>2. n + 1 \in 1 .. n + 2 /\ n + 2 \in 1 .. n + 2
        BY <3>1
      <4>3. \A i \in 1 .. n + 2 : i > n => i = n + 1 \/ i = n + 2
        BY <3>1
      <4>4. {n + 1, n + 2} \subseteq EventsOf(t)'
        BY <1>e, <3>1, <4>2 DEF EventsOf
      <4> QED BY <4>1, <4>3, <4>4
    <3>3. \A i \in EventsOf(t)' : First(t, i)' => i = n + 1
      BY <3>1, <3>2 DEF First
    <3>4. \A i \in EventsOf(t)' : (Last(t, i)' <=> i = n + 2)
      BY <3>1, <3>2 DEF Last
    <3>5. events'[n + 1].msg = "TaskStarted" /\ events'[n + 2].msg = "ErrorEvent"
      BY <1>e, <3>1
    <3>6. \A i \in EventsOf(t)' : /\ Last(t, i)' => events'[i].msg \in Terminal
                                 /\ ~(events'[i].msg \in Terminal /\ ~Last(t, i)')
      BY <3>2, <3>4, <3>5 DEF Terminal
    <3> QED BY <2>0, <3>3, <3>5, <3>6 DEF StoryOf, Live, Waiting
  <2> QED BY <1>3, <2>1, <2>2, <2>3, <2>4 DEF StopsShort
<1>4. CASE Concludes(t)
  <2>0. pc[t] \in Begun /\ pc'[t] = "done"
    BY <1>4 DEF Concludes
  <2>1. \A i \in EventsOf(t) : events'[i].msg \notin Terminal /\ i <= Len(events)
    BY <1>0, <1>old, <2>0 DEF StoryOf, Begun
  <2>2. \A i \in EventsOf(t)' : i \in DOMAIN events' /\ (i > Len(events) /\ events'[i].msg \in Terminal => i = Len(events'))
    BY <1>4 DEF Concludes, AddsEnding, EventsOf
  <2>3. events' \in Seq(Event) /\ Len(events') \in Nat /\ DOMAIN events' = 1 .. Len(events')
    BY LenProperties DEF Typed, TypeOK
  <2>4. Len(events') \in EventsOf(t)' /\ events'[Len(events')].msg \in Terminal
    BY <1>0, <1>4, <2>3 DEF Concludes, AddsEnding, Adds, OfTurn, EventsOf
  <2>5. \A i \in EventsOf(t)' : i <= Len(events')
    BY <2>2, <2>3
  <2>6. \A i \in EventsOf(t)' : Last(t, i)' <=> i = Len(events')
    BY <2>2, <2>3, <2>4, <2>5 DEF Last
  <2>7. \A i \in EventsOf(t)' : events'[i].msg \in Terminal => i = Len(events')
    BY <1>new, <2>1, <2>2
  <2> QED BY <1>first, <2>0, <2>4, <2>6, <2>7 DEF StoryOf, Live, Waiting
<1>5. CASE Tears(t)
  <2>0. pc[t] \in Begun /\ pc'[t] = "done" /\ t \in torn'
    BY <1>5 DEF Tears
  <2>1. \A i \in EventsOf(t) : events'[i].msg \notin Terminal
    BY <1>0, <1>old, <2>0 DEF StoryOf, Begun
  <2>2. CASE events' = events
    <3>1. EventsOf(t)' = EventsOf(t)
      BY <2>2 DEF EventsOf
    <3> QED BY <1>first, <2>0, <2>1, <3>1 DEF StoryOf, Live, Waiting
  <2>3. CASE AddsTwoEndings(t)
    <3> DEFINE n == Len(events')
    <3>1. /\ n \in DOMAIN events' /\ n - 1 \in DOMAIN events' /\ n \in Nat /\ DOMAIN events' = 1 .. n
          /\ events'[n] = Ev(t, "ErrorEvent") /\ events'[n - 1] = Ev(t, "TaskComplete")
      BY <2>3, LenProperties DEF AddsTwoEndings, Typed, TypeOK
    <3>2. /\ events'[n].msg = "ErrorEvent" /\ events'[n].sub = t
          /\ events'[n - 1].msg = "TaskComplete" /\ events'[n - 1].sub = t
      BY <3>1 DEF Ev
    <3>3. \A i \in EventsOf(t)' : events'[i].msg \in Terminal => i = n \/ i = n - 1
      BY <1>new, <2>1, <2>3 DEF AddsTwoEndings
    <3> HIDE DEF n
    <3>4. n \in EventsOf(t)' /\ \A i \in EventsOf(t)' : i \in 1 .. n
      BY <3>1, <3>2 DEF EventsOf
    <3>5. \A i \in EventsOf(t)' : Last(t, i)' <=> i = n
      BY <3>1, <3>4 DEF Last
    <3>6. \A j \in EventsOf(t)' : j <= n - 1 \/ j = n
      BY <3>1, <3>4
    <3>7. ASSUME NEW i \in EventsOf(t)', events'[i].msg \in Terminal, ~Last(t, i)'
          PROVE  /\ events'[i].msg = "TaskComplete"
                 /\ \E k \in EventsOf(t)' : events'[k].msg = "ErrorEvent" /\ \A j \in EventsOf(t)' : j <= i \/ j = k
      BY <3>2, <3>3, <3>4, <3>5, <3>6, <3>7
    <3> QED BY <1>first, <2>0, <3>7 DEF StoryOf, Live, Waiting
  <2> QED BY <1>5, <2>2, <2>3 DEF Tears
<1> QED BY <1>1, <1>2, <1>3, <1>4, <1>5 DEF Tells

LEMMA StoryAfterTurn ==
  ASSUME IndInv, SteerInv, Typed', TurnStory, NEW t \in Ids, TurnStep(t)
  PROVE  TurnStory'
<1>0. Typed /\ Tells(t) /\ torn \subseteq torn' /\ \A u \in Ids \ {t} : pc'[u] = pc[u]
  BY TurnTells, TurnFrame, TurnRoll DEF IndInv
<1>1. Adds(OfTurn(t))
  BY <1>0, TellsOwn
<1>2. ASSUME NEW u \in Ids, u # t PROVE StoryOf(u)'
  <2>1. pc[u] = "done" => (u \in Range(said') <=> u \in Range(said))
    <3>1. pc[u] = "done" => u \notin Range(pending)
      BY DEF SteerInv, Queued
    <3> QED BY <1>0, <1>2, <3>1, TellsKnown
  <2>2. StoryOf(u) /\ pc'[u] = pc[u] /\ \A e \in OfTurn(t) : e.sub # u
    BY <1>0, <1>2 DEF TurnStory, OfTurn
  <2> QED BY <1>0, <1>1, <2>1, <2>2, StoryUntouched
<1>3. StoryOf(t)'
  BY <1>0, StoryOfTurn DEF TurnStory
<1> QED BY <1>2, <1>3 DEF TurnStory

LEMMA StoryAfterOthers ==
  ASSUME IndInv, SteerInv, Apart, TurnStory, Hears, OthersStep
  PROVE  TurnStory'
<1>0. Typed /\ pc \in [Ids -> Phases] /\ torn' = torn /\ \A h \in Coming : pc[h] = "none"
  BY ComingUnknown, OthersRoll DEF IndInv, Typed, TypeOK
<1>1. ASSUME NEW u \in Ids, pc'[u] = pc[u] PROVE StoryOf(u)'
  <2>1. CASE pc[u] = "none"
    BY <1>1, <2>1 DEF StoryOf, Live, Waiting
  <2>2. CASE pc[u] # "none"
    <3>1. \A e \in Aside : e.sub # u
      BY <2>2 DEF Aside
    <3> QED BY <1>0, <1>1, <3>1, StoryUntouched DEF Hears, TurnStory
  <2> QED BY <2>1, <2>2
<1>2. ASSUME NEW h \in Ids, Newest(h), events' = events, pc' = [pc EXCEPT ![h] = "created"] PROVE StoryOf(h)'
  <2>1. EventsOf(h)' = {} /\ pc'[h] = "created"
    BY <1>0, <1>2 DEF EventsOf, Apart, Newest
  <2> QED BY <2>1 DEF StoryOf, Live
<1>3. CASE pc' = pc
  BY <1>1, <1>3 DEF TurnStory
<1>4. ASSUME NEW h \in Ids, Newest(h), events' = events, pc' = [pc EXCEPT ![h] = "created"] PROVE TurnStory'
  <2>1. \A u \in Ids \ {h} : pc'[u] = pc[u]
    BY <1>0, <1>4
  <2> QED BY <1>1, <1>2, <1>4, <2>1 DEF TurnStory
<1> QED BY <1>3, <1>4 DEF Hears

-----------------------------------------------------------------------------
(* What a turn leaves behind.                                              *)

\* Whoever has completed is done, and messages wait for a turn, or were left by one that ended badly.
Left ==
  /\ Completes
  /\ CompletionStrandsNothing
  /\ active = 0 => pending = <<>>

LEMMA BadForever ==
  ASSUME IndInv, SteerInv, Apart, Numbering, NEW u \in Ids, EndedBadly(u),
         (\E t \in Ids : TurnStep(t)) \/ OthersStep
  PROVE  EndedBadly(u)'
<1>0. Typed /\ pc \in [Ids -> Phases] /\ pc[u] = "done"
  BY DEF IndInv, Typed, TypeOK, EndedBadly
<1>1. ASSUME NEW t \in Ids, TurnStep(t) PROVE EndedBadly(u)'
  <2>1. Tells(t) /\ pc[t] \in Live /\ \A v \in Ids \ {t} : pc'[v] = pc[v]
    BY <1>0, <1>1, TurnTells, TurnFrame
  <2>2. u # t /\ pc'[u] = "done"
    BY <1>0, <2>1 DEF Live, Waiting
  <2>3. Adds(OfTurn(t)) /\ \A e \in OfTurn(t) : e.sub # u
    BY <1>0, <2>1, <2>2, TellsOwn DEF OfTurn
  <2> QED BY <2>2, <2>3, BadStays
<1>2. CASE OthersStep
  <2>1. Hears
    BY <1>2, OthersHear
  <2>2. pc'[u] = "done"
    BY <1>0, <2>1, ComingUnknown DEF Hears, Newest
  <2>3. Adds(Aside) /\ \A e \in Aside : e.msg # "TaskComplete"
    BY <2>1 DEF Hears, Aside
  <2> QED BY <2>2, <2>3, BadStays
<1> QED BY <1>1, <1>2

LEMMA LeftAfterTurn ==
  ASSUME IndInv, SteerInv, TurnStory, Left, NEW t \in Ids, TurnStep(t)
  PROVE  Left'
<1>0. /\ Typed /\ Tells(t) /\ active' = active /\ pc[t] \in Live /\ \A u \in Ids \ {t} : pc'[u] = pc[u]
      /\ active = t /\ t # 0
  BY TurnTells, TurnFrame, OpenIsAlive DEF IndInv, Ids
<1>1. Adds(OfTurn(t))
  BY <1>0, TellsOwn
<1>2. Completes'
  <2>1. ASSUME NEW i \in DOMAIN events', events'[i].msg = "TaskComplete"
        PROVE  events'[i].sub \in Ids /\ pc'[events'[i].sub] = "done"
    <3>1. CASE i \in DOMAIN events
      <4>1. events'[i] = events[i] /\ events[i].sub \in Ids /\ pc[events[i].sub] = "done"
        BY <1>1, <2>1, <3>1 DEF Adds, Left, Completes
      <4>2. events[i].sub # t
        BY <1>0, <4>1 DEF Live, Waiting
      <4> QED BY <1>0, <4>1, <4>2
    <3>2. CASE i \notin DOMAIN events
      <4>1. i > Len(events) /\ events'[i].sub = t
        BY <1>1, <3>2 DEF Adds, OfTurn
      <4>2. ~GoesOn(t)
        BY <2>1, <3>2 DEF GoesOn, Adds, Chat, Terminal
      <4>3. ~Starts(t)
        <5>1. ASSUME Starts(t) PROVE FALSE
          <6> DEFINE e == Ev(t, "TaskStarted")
          <6>1. e \in Event /\ e.msg = "TaskStarted" /\ Emit(e)
            BY <5>1, TurnsEvents DEF Starts, Kinds, OfTurn
          <6> HIDE DEF e
          <6>2. Adds({e})
            BY <1>0, <6>1, AddsOne DEF Typed
          <6> QED BY <2>1, <3>2, <6>1, <6>2 DEF Adds
        <5> QED BY <5>1
      <4> QED BY <1>0, <4>1, <4>2, <4>3 DEF Tells, StopsShort, Concludes, Tears
    <3> QED BY <3>1, <3>2
  <2> QED BY <2>1 DEF Completes
<1>3. CompletionStrandsNothing'
  <2>1. ASSUME pending' # <<>>, ~TurnRunning' PROVE EndedBadly(t)'
    <3>1. pc'[t] = "done"
      BY <1>0, <2>1 DEF TurnRunning
    <3>2. StopsShort(t) \/ Concludes(t) \/ Tears(t)
      BY <1>0, <3>1 DEF Tells, GoesOn, Starts, Begun, Live, Waiting
    <3>3. CASE StopsShort(t)
      <4>1. EventsOf(t) = {}
        BY <3>3 DEF StopsShort, TurnStory, StoryOf
      <4> QED BY <1>0, <3>3, <4>1, ShortIsBad
    <3>4. CASE Concludes(t)
      BY <2>1, <3>4, LeftIsBad DEF Left, Concludes, DrainBreaks
    <3>5. CASE Tears(t)
      BY <3>5, TornIsBad DEF Left
    <3> QED BY <3>2, <3>3, <3>4, <3>5
  <2> QED BY <1>0, <2>1 DEF CompletionStrandsNothing, EndedBadly
<1> QED BY <1>0, <1>2, <1>3 DEF Left

LEMMA LeftAfterOthers ==
  ASSUME IndInv, SteerInv, Numbering, Apart, Left, OthersStep
  PROVE  Left'
<1>0. /\ Typed /\ Hears /\ pc \in [Ids -> Phases] /\ active \in 0 .. MaxSubs /\ 0 \notin Ids
      /\ \A h \in Coming : pc[h] = "none"
  <2>1. Typed /\ pc \in [Ids -> Phases] /\ active \in 0 .. MaxSubs /\ 0 \notin Ids
    BY DEF IndInv, Typed, TypeOK, Ids
  <2>2. Hears
    BY OthersHear
  <2>3. \A h \in Coming : pc[h] = "none"
    BY <2>1, ComingUnknown
  <2> QED BY <2>1, <2>2, <2>3
<1>1. \A u \in Ids : pc[u] = "done" => pc'[u] = "done"
  BY <1>0 DEF Hears, Newest
<1>2. Completes'
  <2>1. ASSUME NEW i \in DOMAIN events', events'[i].msg = "TaskComplete"
        PROVE  events'[i].sub \in Ids /\ pc'[events'[i].sub] = "done"
    <3>1. i \in DOMAIN events /\ events'[i] = events[i]
      BY <1>0, <2>1 DEF Hears, Adds, Aside
    <3> QED BY <1>1, <2>1, <3>1 DEF Left, Completes
  <2> QED BY <2>1 DEF Completes
<1>3. CASE UNCHANGED <<active, pc, pending>>
  <2>1. CASE pending # <<>> /\ ~TurnRunning
    <3>1. active \in Ids /\ EndedBadly(active)
      BY <1>0, <2>1 DEF Left, CompletionStrandsNothing, Ids
    <3>2. PICK a \in Ids : a = active
      BY <3>1
    <3>3. EndedBadly(a)'
      BY <3>1, <3>2, BadForever
    <3> QED BY <1>2, <1>3, <3>2, <3>3 DEF Left, CompletionStrandsNothing, EndedBadly
  <2>2. CASE ~(pending # <<>> /\ ~TurnRunning)
    BY <1>2, <1>3, <2>2 DEF Left, CompletionStrandsNothing, TurnRunning
  <2> QED BY <2>1, <2>2
<1>4. CASE TurnRunning /\ UNCHANGED <<active, pc>>
  BY <1>2, <1>4 DEF Left, CompletionStrandsNothing, TurnRunning
<1>5. ASSUME NEW h \in Ids, active' = h, pc' = [pc EXCEPT ![h] = "created"] PROVE Left'
  <2>1. h # 0 /\ pc'[h] = "created"
    BY <1>0, <1>5
  <2> QED BY <1>2, <1>5, <2>1 DEF Left, CompletionStrandsNothing, TurnRunning
<1> QED BY <1>0, <1>3, <1>4, <1>5 DEF Hears

-----------------------------------------------------------------------------
(* The order in which messages are said.                                   *)

\* A message that opened a turn may have been said before messages that an earlier turn had left.
Late(m) == m \in Ids /\ pc[m] # "none" /\ \E u \in Ids : EndedBadly(u) /\ u < m

\* Messages wait in the order of their ids, after all that was said but for the late ones; a message that opens a turn
\* is newer than all that was said, and than those that wait only because an earlier turn left them.
InOrder ==
  /\ \A i, j \in 1 .. Len(pending) : i < j => pending[i] < pending[j]
  /\ \A m \in Range(said), p \in Range(pending) : m < p \/ Late(m)
  /\ \A c \in Ids : pc[c] = "created" =>
       /\ \A m \in Range(said) : m < c
       /\ \A p \in Range(pending) : p < c => \E u \in Ids : EndedBadly(u) /\ u < c
  /\ SaidInOrder

\* What is said next is newer than all that was said, and in order but for the message that opens the turn.
LEMMA NewInOrder ==
  ASSUME IndInv, SteerInv, InOrder, NEW t \in Ids, NEW new \in Seq(Ids \cup {Mark}),
         NEW front \in Seq(Ids), Fronts(front), Range(front) \subseteq Range(pending),
         \/ new = <<>>
         \/ new = <<Mark>>
         \/ new = <<t>> /\ pc[t] = "created"
         \/ new = front
         \/ new = <<t>> \o front /\ pc[t] = "created"
  PROVE  /\ \A j \in 1 .. Len(new) : new[j] # Mark =>
              \A m \in Range(said) : m < new[j] \/ (Late(m) /\ new[j] \in Range(pending))
         /\ \A i, j \in 1 .. Len(new) : i < j /\ new[j] # Mark /\ new[i] > new[j] =>
              pc[t] = "created" /\ new[i] = t /\ new[j] \in Range(pending)
<1>0. /\ front \in Seq(Ids) /\ said \in Seq(Ids \cup {Mark}) /\ Len(front) \in Nat
      /\ \A j \in 1 .. Len(front) : front[j] \in Ids /\ front[j] \in Range(pending) /\ front[j] \in Int
      /\ \A i, j \in 1 .. Len(front) : i < j => front[i] < front[j]
  <2>1. pending \in Seq(Ids) /\ said \in Seq(Ids \cup {Mark}) /\ Len(pending) \in Nat
    BY SteerTyped
  <2>2. DOMAIN front = 1 .. Len(front) /\ Len(front) \in Nat /\ \A j \in 1 .. Len(front) : front[j] \in Ids
    BY LenProperties, ElementOfSeq
  <2>3. \A j \in 1 .. Len(front) : front[j] = pending[j] /\ j \in 1 .. Len(pending)
    BY <2>1, <2>2 DEF Fronts
  <2>4. \A j \in 1 .. Len(front) : front[j] \in Range(pending)
    BY <2>2 DEF Range
  <2>5. \A i, j \in 1 .. Len(front) : i < j => front[i] < front[j]
    BY <2>3 DEF InOrder
  <2> QED BY <2>1, <2>2, <2>4, <2>5 DEF Ids
<1>t. pc[t] = "created" => \A m \in Range(said) : m < t
  BY DEF InOrder
<1>f. \A j \in 1 .. Len(front) : \A m \in Range(said) : m < front[j] \/ Late(m)
  BY <1>0 DEF InOrder
<1>1. CASE new = <<>> \/ new = <<Mark>>
  <2>1. \A i, j \in 1 .. Len(new) : ~(i < j) /\ new[j] = Mark
    BY <1>1
  <2> QED BY <2>1
<1>2. CASE new = front
  <2>1. \A i, j \in 1 .. Len(front) : i < j => ~(front[i] > front[j])
    BY <1>0
  <2> QED BY <1>0, <1>f, <1>2, <2>1
<1>3. CASE new = <<t>> /\ pc[t] = "created"
  <2>1. \A i, j \in 1 .. Len(new) : ~(i < j) /\ new[j] = t
    BY <1>3
  <2> QED BY <1>t, <1>3, <2>1
<1>4. CASE new = <<t>> \o front /\ pc[t] = "created"
  <2> DEFINE one == <<t>>
  <2>1. one \in Seq(Ids) /\ Len(one) = 1 /\ one[1] = t
    OBVIOUS
  <2> HIDE DEF one
  <2>2. /\ Len(one \o front) = Len(one) + Len(front)
        /\ \A i \in 1 .. Len(one \o front) : (one \o front)[i] = IF i <= Len(one) THEN one[i] ELSE front[i - Len(one)]
    <3>1. one \in Seq(Ids) /\ front \in Seq(Ids)
      BY <1>0, <2>1
    <3> QED BY ONLY <3>1, Longer
  <2>3. new = one \o front
    BY <1>4 DEF one
  <2>4. /\ Len(new) = Len(front) + 1
        /\ \A i \in 1 .. Len(new) : \/ i = 1 /\ new[i] = t
                                    \/ i > 1 /\ i - 1 \in 1 .. Len(front) /\ new[i] = front[i - 1]
    BY <1>0, <2>1, <2>2, <2>3
  <2>7. ASSUME NEW i \in 1 .. Len(new), NEW j \in 1 .. Len(new), i < j, new[i] > new[j]
        PROVE  new[i] = t /\ new[j] \in Range(pending)
    <3>1. j > 1 /\ j - 1 \in 1 .. Len(front) /\ new[j] = front[j - 1]
      BY <2>4, <2>7
    <3>2. CASE i > 1
      <4>1. i - 1 \in 1 .. Len(front) /\ new[i] = front[i - 1] /\ i - 1 < j - 1
        BY <2>4, <2>7, <3>2
      <4>2. front[i - 1] < front[j - 1] /\ front[i - 1] \in Int /\ front[j - 1] \in Int
        BY <1>0, <3>1, <4>1
      <4> QED BY <2>7, <3>1, <4>1, <4>2
    <3>3. CASE i = 1
      BY <1>0, <2>4, <3>1, <3>3
    <3> QED BY <2>7, <3>2, <3>3
  <2>8. \A j \in 1 .. Len(new) : \A m \in Range(said) : m < new[j] \/ (Late(m) /\ new[j] \in Range(pending))
    <3> TAKE j \in 1 .. Len(new)
    <3>1. CASE new[j] = t
      BY <1>t, <1>4, <3>1
    <3>2. CASE j - 1 \in 1 .. Len(front) /\ new[j] = front[j - 1]
      BY <1>0, <1>f, <3>2
    <3> QED BY <2>4, <3>1, <3>2
  <2> QED BY <1>4, <2>7, <2>8
<1> QED BY <1>1, <1>2, <1>3, <1>4

LEMMA OrderAfterTurn ==
  ASSUME IndInv, SteerInv, Numbering, Apart, InOrder, NEW t \in Ids, TurnStep(t)
  PROVE  InOrder'
<1>0. /\ Typed /\ Tells(t) /\ active = t /\ pc[t] \in Live /\ \A u \in Ids \ {t} : pc'[u] = pc[u]
      /\ (\A u \in Ids : pc[u] = "created" => u = t) /\ t \notin Range(pending)
  BY TurnTells, TurnFrame, OpenIsAlive DEF IndInv
<1>1. PICK new \in Seq(Ids \cup {Mark}), front \in Seq(Ids) :
        /\ said' = said \o new /\ Fronts(front) /\ Range(front) \subseteq Range(pending)
        /\ \/ new = <<>> /\ pending' = pending
           \/ new = <<Mark>> /\ pending' = pending
           \/ new = <<t>> /\ pending' = pending /\ pc[t] = "created"
           \/ new = front /\ pending' = <<>>
           \/ new = <<t>> \o front /\ pending' = <<>> /\ pc[t] = "created"
  BY <1>0, TellsSaid
<1>2. said \in Seq(Ids \cup {Mark}) /\ pending \in Seq(Ids) /\ Mark = 0 /\ \A u \in Ids : u > 0 /\ u \in Int
  BY SteerTyped DEF Mark, Ids
<1>3. Range(said') = Range(said) \cup Range(new)
  BY <1>1, <1>2, RangeConcatenation
<1>4. \A i, j \in 1 .. Len(pending') : i < j => pending'[i] < pending'[j]
  BY <1>1 DEF InOrder
<1>6. \A c \in Ids : pc'[c] # "created"
  BY <1>0 DEF Tells, GoesOn, Starts, StopsShort, Concludes, Tears, Begun, Live, Waiting
<1>7. \A u \in Ids : EndedBadly(u) => EndedBadly(u)'
  BY <1>0, BadForever
<1>8. /\ \A u \in Ids : (pc[u] # "none" => pc'[u] # "none") /\ (pc[u] = "none" => pc'[u] = "none")
      /\ pc[t] # "none"
  BY <1>0 DEF Tells, GoesOn, Starts, StopsShort, Concludes, Tears, Begun, Live, Waiting
<1>l. \A m : Late(m) => Late(m)'
  BY <1>7, <1>8 DEF Late
<1>5. \A m \in Range(said'), p \in Range(pending') : m < p \/ Late(m)'
  <2>1. CASE pending' = <<>>
    BY <2>1, EmptyRange
  <2>2. CASE pending' = pending /\ (new = <<>> \/ new = <<Mark>> \/ (new = <<t>> /\ pc[t] = "created"))
    <3>1. Range(new) \subseteq {Mark} \/ (Range(new) \subseteq {t} /\ pc[t] = "created")
      BY <2>2 DEF Range
    <3>2. \A p \in Range(pending) : p \in Ids
      BY <1>2, RangeOfSeq
    <3>3. \A p \in Range(pending) : Mark < p
      BY <1>2, <3>2
    <3>4. \A m \in Range(said), p \in Range(pending) : m < p \/ Late(m)'
      BY <1>l DEF InOrder
    <3>5. ASSUME pc[t] = "created", NEW p \in Range(pending) PROVE t < p \/ Late(t)'
      <4>1. p \in Int /\ t \in Int /\ p # t
        BY <1>0, <1>2, <3>2
      <4>2. CASE p < t
        BY <1>7, <1>8, <3>5, <4>2 DEF InOrder, Late
      <4> QED BY <4>1, <4>2
    <3> QED BY <1>3, <2>2, <3>1, <3>3, <3>4, <3>5
  <2> QED BY <1>1, <2>1, <2>2
<1>9. /\ Len(said) \in Nat /\ Len(new) \in Nat /\ Len(said') = Len(said) + Len(new)
      /\ DOMAIN said' = 1 .. Len(said') /\ DOMAIN said = 1 .. Len(said)
      /\ \A i \in 1 .. Len(said') : said'[i] = IF i <= Len(said) THEN said[i] ELSE new[i - Len(said)]
      /\ \A i \in 1 .. Len(said) : said[i] \in Ids \cup {Mark}
  <2>1. /\ said \o new \in Seq(Ids \cup {Mark})
        /\ Len(said) \in Nat /\ Len(new) \in Nat /\ Len(said \o new) = Len(said) + Len(new)
        /\ DOMAIN (said \o new) = 1 .. Len(said \o new)
        /\ \A i \in 1 .. Len(said \o new) : (said \o new)[i] = IF i <= Len(said) THEN said[i] ELSE new[i - Len(said)]
    BY <1>2, Longer
  <2> QED BY <1>1, <1>2, <2>1, LenProperties, ElementOfSeq
<1>10. /\ \A j \in 1 .. Len(new) : new[j] # Mark =>
            \A m \in Range(said) : m < new[j] \/ (Late(m) /\ new[j] \in Range(pending))
       /\ \A i, j \in 1 .. Len(new) : i < j /\ new[j] # Mark /\ new[i] > new[j] =>
            pc[t] = "created" /\ new[i] = t /\ new[j] \in Range(pending)
  BY <1>1, NewInOrder
<1>11. ASSUME NEW i \in DOMAIN said', NEW j \in DOMAIN said', i < j, said'[j] # Mark, said'[i] > said'[j]
       PROVE  /\ pc'[said'[i]] # "none" /\ pc'[said'[j]] = "none"
              /\ \E u \in Ids : EndedBadly(u)' /\ u < said'[i]
  <2>1. CASE i <= Len(said) /\ j <= Len(said)
    <3>1. /\ i \in DOMAIN said /\ j \in DOMAIN said /\ said'[i] = said[i] /\ said'[j] = said[j]
          /\ said[i] \in Ids \cup {Mark} /\ said[j] \in Ids
      BY <1>9, <1>11, <2>1
    <3>2. said[i] \in Ids
      BY <1>2, <1>11, <3>1
    <3>3. pc[said[i]] # "none" /\ pc[said[j]] = "none" /\ \E u \in Ids : EndedBadly(u) /\ u < said[i]
      BY <1>11, <3>1 DEF InOrder, SaidInOrder
    <3> QED BY <1>7, <1>8, <3>1, <3>2, <3>3
  <2>2. CASE i <= Len(said) /\ j > Len(said)
    <3>1. /\ i \in 1 .. Len(said) /\ said'[i] = said[i] /\ j - Len(said) \in 1 .. Len(new) /\ said'[j] = new[j - Len(said)]
      BY <1>9, <1>11, <2>2
    <3>2. said[i] \in Range(said) /\ said[i] \in Int
      BY <1>2, <1>9, <3>1 DEF Range
    <3>3. new[j - Len(said)] \in Int
      BY <1>2, <3>1, ElementOfSeq
    <3>4. Late(said[i]) /\ new[j - Len(said)] \in Range(pending)
      <4>1. ~(said[i] < new[j - Len(said)])
        BY <1>11, <3>1, <3>2, <3>3
      <4> QED BY <1>10, <1>11, <3>1, <3>2, <4>1
    <3>5. said'[j] \in Ids /\ pc[said'[j]] = "none"
      BY <1>2, <3>1, <3>4, RangeOfSeq DEF SteerInv, Queued
    <3> QED BY <1>7, <1>8, <3>1, <3>4, <3>5 DEF Late
  <2>3. CASE i > Len(said)
    <3>1. /\ i - Len(said) \in 1 .. Len(new) /\ said'[i] = new[i - Len(said)]
          /\ j - Len(said) \in 1 .. Len(new) /\ said'[j] = new[j - Len(said)] /\ i - Len(said) < j - Len(said)
      BY <1>9, <1>11, <2>3
    <3>2. pc[t] = "created" /\ said'[i] = t /\ said'[j] \in Range(pending)
      BY <1>10, <1>11, <3>1
    <3>3. said'[j] \in Ids /\ pc[said'[j]] = "none"
      BY <1>2, <3>2, RangeOfSeq DEF SteerInv, Queued
    <3>4. \E u \in Ids : EndedBadly(u) /\ u < t
      BY <1>2, <1>11, <3>2, <3>3 DEF InOrder
    <3> QED BY <1>7, <1>8, <3>2, <3>3, <3>4
  <2> QED BY <1>9, <1>11, <2>1, <2>2, <2>3
<1> QED BY <1>4, <1>5, <1>6, <1>11 DEF InOrder, SaidInOrder

LEMMA OrderAfterOthers ==
  ASSUME IndInv, SteerInv, Numbering, Apart, Left, InOrder, OthersStep
  PROVE  InOrder'
<1>0. /\ Typed /\ Hears /\ pc \in [Ids -> Phases] /\ active \in 0 .. MaxSubs
      /\ \A h \in Coming : pc[h] = "none" /\ h \in Unknown
      /\ said \in Seq(Ids \cup {Mark}) /\ pending \in Seq(Ids) /\ Mark = 0 /\ \A u \in Ids : u > 0 /\ u \in Int
  <2>1. Typed /\ Hears /\ Mark = 0
    BY OthersHear DEF IndInv, Mark
  <2>2. pc \in [Ids -> Phases] /\ active \in 0 .. MaxSubs /\ \A u \in Ids : u > 0 /\ u \in Int
    BY <2>1 DEF Typed, TypeOK, Ids
  <2>3. \A h \in Coming : pc[h] = "none" /\ h \in Unknown
    BY <2>1, ComingUnknown
  <2>4. said \in Seq(Ids \cup {Mark}) /\ pending \in Seq(Ids)
    BY SteerTyped
  <2> QED BY <2>1, <2>2, <2>3, <2>4
<1>1. said' = said
  BY <1>0 DEF Hears
<1>2. \A u \in Ids : EndedBadly(u) => EndedBadly(u)'
  BY BadForever
<1>3. /\ \A i \in DOMAIN said : said[i] \in Ids \cup {Mark}
      /\ \A m \in Range(said) : m = Mark \/ m \in Ids
      /\ \A p \in Range(pending) : p \in Ids
  BY <1>0, RangeOfSeq, ElementOfSeq, LenProperties DEF Range
<1>4. \A m \in Range(said) : m \notin Coming
  BY <1>0 DEF Unknown
<1>5. SaidInOrder'
  <2>1. \A u \in Ids : (pc[u] # "none" => pc'[u] # "none") /\ (u \notin Coming /\ pc[u] = "none" => pc'[u] = "none")
    BY <1>0 DEF Hears, Newest
  <2>2. ASSUME NEW i \in DOMAIN said, NEW j \in DOMAIN said, i < j, said[j] # Mark, said[i] > said[j]
        PROVE  /\ pc'[said[i]] # "none" /\ pc'[said[j]] = "none"
               /\ \E u \in Ids : EndedBadly(u)' /\ u < said[i]
    <3>1. said[j] \in Ids /\ said[j] \in Range(said)
      BY <1>3, <2>2 DEF Range
    <3>2. said[i] \in Ids
      BY <1>0, <1>3, <2>2, <3>1
    <3>3. pc[said[i]] # "none" /\ pc[said[j]] = "none" /\ \E u \in Ids : EndedBadly(u) /\ u < said[i]
      BY <2>2 DEF InOrder, SaidInOrder
    <3> QED BY <1>2, <1>4, <2>1, <3>1, <3>2, <3>3
  <2> QED BY <1>1, <2>2 DEF SaidInOrder
<1>l. \A m : Late(m) => Late(m)'
  <2>1. \A u \in Ids : pc[u] # "none" => pc'[u] # "none"
    BY <1>0 DEF Hears, Newest
  <2> QED BY <1>2, <2>1 DEF Late
<1>new. ASSUME NEW h \in Ids, Newest(h)
        PROVE  /\ \A m \in Range(said) : m < h
               /\ \A p \in Range(pending) : p < h
               /\ \A u \in Ids : pc[u] # "none" => u < h
  <2>1. \A u \in Ids : u \in Range(said) \cup Range(pending) \/ pc[u] # "none" => u < h
    BY <1>new DEF Newest, Unknown
  <2> QED BY <1>0, <1>3, <2>1
<1>6. CASE UNCHANGED <<active, pc, pending>>
  <2>1. \A m \in Range(said'), p \in Range(pending') : m < p \/ Late(m)'
    BY <1>1, <1>6, <1>l DEF InOrder
  <2> QED BY <1>1, <1>2, <1>5, <1>6, <2>1 DEF InOrder
<1>7. ASSUME NEW h \in Ids, Newest(h), UNCHANGED <<active, pc>>, pending' = Append(pending, h) PROVE InOrder'
  <2>1. Range(pending') = Range(pending) \cup {h}
    BY <1>0, <1>7, RangeAppend
  <2>2. \A m \in Range(said), p \in Range(pending') : m < p \/ Late(m)'
    BY <1>7, <1>l, <1>new, <2>1 DEF InOrder
  <2>3. /\ Len(pending') = Len(pending) + 1 /\ Len(pending) \in Nat /\ pending'[Len(pending) + 1] = h
        /\ \A i \in 1 .. Len(pending) : pending'[i] = pending[i] /\ pending[i] \in Range(pending)
    BY <1>0, <1>7, AppendProperties, LenProperties DEF Range
  <2>4. ASSUME NEW i \in 1 .. Len(pending'), NEW j \in 1 .. Len(pending'), i < j PROVE pending'[i] < pending'[j]
    <3>1. i \in 1 .. Len(pending)
      BY <2>3, <2>4
    <3>2. CASE j \in 1 .. Len(pending)
      BY <2>3, <2>4, <3>1, <3>2 DEF InOrder
    <3>3. CASE j = Len(pending) + 1
      BY <1>7, <1>new, <2>3, <3>1, <3>3
    <3> QED BY <2>3, <3>2, <3>3
  <2>5. ASSUME NEW c \in Ids, pc'[c] = "created"
        PROVE  /\ \A m \in Range(said) : m < c
               /\ \A p \in Range(pending') : p < c => \E u \in Ids : EndedBadly(u)' /\ u < c
    <3>1. pc[c] = "created" /\ c < h
      BY <1>7, <1>new, <2>5
    <3>2. \A p \in Range(pending') : p < c => p \in Range(pending)
      BY <1>0, <2>1, <3>1
    <3> QED BY <1>2, <3>1, <3>2 DEF InOrder
  <2> QED BY <1>1, <1>5, <2>2, <2>4, <2>5 DEF InOrder
<1>8. ASSUME NEW h \in Ids, Newest(h), ~TurnRunning, active' = h, pc' = [pc EXCEPT ![h] = "created"], pending' = pending
      PROVE  InOrder'
  <2>1. \A c \in Ids : pc'[c] = "created" => c = h
    BY <1>0, <1>8 DEF IndInv, LiveIsActive, Live, TurnRunning
  <2>2. pending # <<>> => \E u \in Ids : EndedBadly(u) /\ u < h
    <3>1. ASSUME pending # <<>> PROVE active \in Ids /\ EndedBadly(active)
      BY <1>0, <1>8, <3>1 DEF Left, CompletionStrandsNothing, Ids
    <3>2. ASSUME pending # <<>> PROVE active < h
      BY <1>8, <1>new, <3>1, <3>2 DEF EndedBadly
    <3> QED BY <3>1, <3>2
  <2>3. \A p \in Range(pending) : pending # <<>>
    BY EmptyRange
  <2>4. \A m \in Range(said'), p \in Range(pending') : m < p \/ Late(m)'
    BY <1>1, <1>8, <1>l DEF InOrder
  <2> QED BY <1>1, <1>2, <1>5, <1>8, <1>new, <2>1, <2>2, <2>3, <2>4 DEF InOrder
<1> QED BY <1>0, <1>6, <1>7, <1>8 DEF Hears

-----------------------------------------------------------------------------
(* The calls in hand, and those of history.                                *)

InHandCalls == IF active = 0 THEN {} ELSE Range(todo[active])

\* History may hold a call without its output, or the other way round.
Excused == (\E u \in Ids : EndedBadly(u)) \/ CompactedByHand

\* Only a turn at work has calls in hand, and these are the calls that history has no output of.
InHand ==
  /\ \A t \in Ids : todo[t] # <<>> => pc[t] \in Begun \ {"compacting"}
  /\ Excused \/ callItems = outItems \cup InHandCalls

SameItems == callItems' = callItems /\ outItems' = outItems

\* What the steps of a turn do with its calls.
Keeps(t) ==
  /\ SameItems /\ todo'[t] = todo[t] /\ pc'[t] \in Begun
  /\ \/ todo[t] = <<>> \/ pc[t] = "created"
     \/ pc'[t] # "compacting" /\ (pc'[t] = "streaming" => pc[t] = "streaming")

Drops(t) ==
  /\ SameItems /\ pc'[t] = "done"
  /\ todo'[t] = <<>> \/ (todo'[t] = todo[t] /\ (todo[t] = <<>> \/ pc[t] = "created"))

Records(t) ==
  /\ pc[t] \in Calling /\ todo[t] # <<>> /\ todo'[t] = Tail(todo[t])
  /\ callItems' = callItems /\ outItems' = outItems \cup {Head(todo[t])}
  /\ pc'[t] \in Begun
  /\ pc'[t] \in {"compacting", "streaming"} => Tail(todo[t]) = <<>>

Receives(t) ==
  /\ pc[t] = "streaming" /\ pc'[t] = "streaming"
  /\ \E c \in Calls : /\ todo'[t] = Append(todo[t], c)
                      /\ callItems' = callItems \cup {c} /\ outItems' = outItems

Rebuilds(t) ==
  /\ pc[t] = "compacting" /\ pc'[t] = "streaming"
  /\ todo'[t] = todo[t] /\ callItems' = {} /\ outItems' = {}

Handles(t) == Keeps(t) \/ Drops(t) \/ Records(t) \/ Receives(t) \/ Rebuilds(t)

LEMMA TurnHandles ==
  ASSUME Typed, NEW t \in Ids, TurnStep(t), ~AppendFails(t)
  PROVE  Handles(t)
<1>0. TypeOK /\ pc \in [Ids -> Phases] /\ todo \in [Ids -> Seq(Calls)]
  BY DEF Typed, TypeOK
<1>keeps. ASSUME NEW phase \in Begun \ {"compacting", "streaming"}, Go(t, phase), todo' = todo, SameItems
          PROVE  Handles(t)
  BY <1>0, <1>keeps DEF Go, Keeps, Handles
<1>fail. ASSUME NEW before, Fail(t, before), callItems' = callItems
         PROVE  Handles(t)
  BY <1>0, <1>fail DEF Fail, Go, SameItems, Drops, Handles
<1>out. ASSUME pc[t] \in Calling, RecordOutput(t), callItems' = callItems
        PROVE  Handles(t)
  <2>1. todo[t] # <<>> /\ todo'[t] = Tail(todo[t]) /\ pc'[t] \in Begun
    BY <1>out, CallsAfterOutput
  <2>2. outItems' = outItems \cup {Head(todo[t])}
    BY <1>out DEF RecordOutput
  <2>3. pc'[t] \in {"compacting", "streaming"} => Tail(todo[t]) = <<>>
    BY <1>0, <1>out DEF RecordOutput, Go
  <2> QED BY <1>out, <2>1, <2>2, <2>3 DEF Records, Handles
<1>1. CASE TurnStart(t)
  <2>1. pc[t] = "created" /\ todo' = todo /\ SameItems
    BY <1>1 DEF TurnStart, Resume, SameItems
  <2>2. pc'[t] \in {"done", "streaming", "compacting"}
    BY <1>0, <1>1 DEF TurnStart, StepBoundary, Go
  <2> QED BY <2>1, <2>2 DEF Keeps, Drops, Handles, Begun, Live, Waiting
<1>2. CASE TurnCompacted(t)
  BY <1>0, <1>2 DEF TurnCompacted, Resume, RebuildHistory, Go, Rebuilds, Handles
<1>3. CASE StreamCall(t)
  <2>1. pc[t] = "streaming" /\ pc' = pc /\ nextCall \in Calls /\ outItems' = outItems
    BY <1>3 DEF StreamCall, Resume
  <2>2. todo'[t] = Append(todo[t], nextCall) /\ callItems' = callItems \cup {nextCall}
    BY <1>0, <1>3 DEF StreamCall
  <2> QED BY <2>1, <2>2 DEF Receives, Handles
<1>4. CASE StreamEnd(t)
  <2>1. pc[t] = "streaming" /\ todo' = todo /\ SameItems
    BY <1>4 DEF StreamEnd, Resume, SameItems
  <2>2. CASE Go(t, "dispatch")
    BY <1>keeps, <2>1, <2>2 DEF Begun, Live, Waiting
  <2>3. CASE todo[t] = <<>> /\ StepBoundary(t, said)
    BY <1>0, <2>1, <2>3 DEF StepBoundary, Go, Keeps, Handles, Begun, Live, Waiting
  <2>4. CASE todo[t] = <<>> /\ Go(t, "done")
    BY <1>0, <2>1, <2>4 DEF Go, Drops, Handles
  <2> QED BY <1>4, <2>2, <2>3, <2>4 DEF StreamEnd
<1>5. CASE TurnCancelled(t)
  BY <1>0, <1>5 DEF TurnCancelled, Go, SameItems, Drops, Handles
<1>6. CASE TurnError(t)
  BY <1>6, <1>fail DEF TurnError
<1>7. CASE DispatchInline(t) \/ McpDone(t) \/ ExecDone(t)
  BY <1>7, <1>out DEF DispatchInline, McpDone, ExecDone, Resume, Calling
<1>8. CASE DispatchMcp(t)
  BY <1>8, <1>keeps DEF DispatchMcp, convVars, SameItems, Begun, Live, Waiting
<1>9. CASE DispatchExec(t)
  <2>1. todo' = todo /\ SameItems
    BY <1>9 DEF DispatchExec, convVars, SameItems
  <2>2. Go(t, "ask") \/ Go(t, "exec") \/ Go(t, "execFull")
    BY <1>9 DEF DispatchExec, Ask
  <2> QED BY <1>keeps, <2>1, <2>2 DEF Begun, Live, Waiting
<1>10. CASE ExecDenied(t)
  <2>1. pc[t] \in Calling /\ callItems' = callItems
    BY <1>10 DEF ExecDenied, Resume, Calling
  <2>2. CASE Ask(t, "askEscalate") /\ UNCHANGED <<todo, outItems>>
    BY <1>keeps, <2>1, <2>2 DEF Ask, SameItems, Begun, Live, Waiting
  <2> QED BY <1>10, <1>out, <2>1, <2>2 DEF ExecDenied
<1>11. CASE Decided(t)
  <2>1. pc[t] \in Calling /\ callItems' = callItems
    BY <1>11 DEF Decided, Resume, Calling
  <2>2. RecordOutput(t) \/ \E before : Fail(t, before)
    BY <1>11 DEF Decided
  <2> QED BY <1>out, <1>fail, <2>1, <2>2
<1> QED BY <1>1, <1>2, <1>3, <1>4, <1>5, <1>6, <1>7, <1>8, <1>9, <1>10, <1>11 DEF TurnStep

\* A history rewritten by a Compact operation stays so.
LEMMA ByHandStays ==
  ASSUME IndInv, SteerInv, Numbering, Apart, CompactedByHand, (\E t \in Ids : TurnStep(t)) \/ OthersStep
  PROVE  CompactedByHand'
<1>0. Typed /\ pc \in [Ids -> Phases]
  BY DEF IndInv, Typed, TypeOK
<1>1. PICK i \in DOMAIN events : events[i].msg = "ContextCompacted" /\ pc[events[i].sub] = "none"
  BY DEF CompactedByHand
<1>2. PICK s \in Ids : s = events[i].sub
  BY <1>1 DEF Apart
<1>3. s \notin Coming /\ pc[s] = "none"
  BY <1>1, <1>2 DEF Apart
<1>4. pc'[s] = "none"
  <2>1. ASSUME NEW t \in Ids, TurnStep(t) PROVE pc'[s] = "none"
    <3>1. pc[t] \in Live /\ \A u \in Ids \ {t} : pc'[u] = pc[u]
      BY <1>0, <2>1, TurnFrame
    <3> QED BY <1>3, <3>1 DEF Live, Waiting
  <2>2. CASE OthersStep
    BY <1>0, <1>3, <2>2, OthersHear DEF Hears, Newest
  <2> QED BY <2>1, <2>2
<1>5. i \in DOMAIN events' /\ events'[i] = events[i]
  <2>1. ASSUME NEW t \in Ids, TurnStep(t) PROVE i \in DOMAIN events' /\ events'[i] = events[i]
    <3>1. Adds(OfTurn(t))
      BY <1>0, <2>1, TurnTells, TellsOwn
    <3> QED BY <3>1 DEF Adds
  <2>2. CASE OthersStep
    BY <2>2, OthersHear DEF Hears, Adds
  <2> QED BY <2>1, <2>2
<1> QED BY <1>1, <1>2, <1>4, <1>5 DEF CompactedByHand

LEMMA ExcusedStays ==
  ASSUME IndInv, SteerInv, Numbering, Apart, Excused, (\E t \in Ids : TurnStep(t)) \/ OthersStep
  PROVE  Excused'
<1>1. CASE CompactedByHand
  BY <1>1, ByHandStays DEF Excused
<1>2. ASSUME NEW u \in Ids, EndedBadly(u) PROVE Excused'
  <2>1. EndedBadly(u)'
    BY <1>2, BadForever
  <2> QED BY <2>1 DEF Excused
<1> QED BY <1>1, <1>2 DEF Excused

\* The first of the calls in hand, and the rest.
LEMMA RangeOfTail ==
  ASSUME NEW s \in Seq(Calls), s # <<>>
  PROVE  Range(s) = {Head(s)} \cup Range(Tail(s))
<1>1. /\ Head(s) = s[1] /\ Tail(s) \in Seq(Calls) /\ Len(Tail(s)) = Len(s) - 1
      /\ \A i \in 1 .. Len(Tail(s)) : Tail(s)[i] = s[i + 1]
  BY HeadTailProperties
<1>2. Len(s) \in Nat \ {0} /\ DOMAIN s = 1 .. Len(s) /\ DOMAIN Tail(s) = 1 .. Len(Tail(s))
  BY <1>1, LenProperties, EmptySeq
<1>3. ASSUME NEW i \in 1 .. Len(s) PROVE s[i] \in {Head(s)} \cup Range(Tail(s))
  <2>1. CASE i = 1
    BY <1>1, <2>1
  <2>2. CASE i # 1
    <3>1. i - 1 \in 1 .. Len(Tail(s)) /\ (i - 1) + 1 = i
      BY <1>1, <1>2, <2>2
    <3>2. Tail(s)[i - 1] = s[(i - 1) + 1]
      BY <1>1, <3>1
    <3>3. Tail(s)[i - 1] = s[i]
      BY <3>1, <3>2
    <3> QED BY <1>2, <3>1, <3>3 DEF Range
  <2> QED BY <2>1, <2>2
<1>4. ASSUME NEW i \in 1 .. Len(Tail(s)) PROVE Tail(s)[i] \in Range(s)
  <2>1. i + 1 \in 1 .. Len(s)
    BY <1>1, <1>2
  <2> QED BY <1>1, <1>2, <2>1 DEF Range
<1>5. Head(s) \in Range(s)
  BY <1>1, <1>2 DEF Range
<1> QED BY <1>2, <1>3, <1>4, <1>5 DEF Range

LEMMA HandAfterTurn ==
  ASSUME IndInv, SteerInv, Numbering, Apart, Left, InHand, NEW t \in Ids, TurnStep(t)
  PROVE  InHand'
<1>0. /\ Typed /\ Tells(t) /\ active = t /\ active' = t /\ t # 0 /\ pc[t] \in Live
      /\ \A u \in Ids \ {t} : pc'[u] = pc[u] /\ todo'[u] = todo[u]
  BY TurnTells, TurnFrame, OpenIsAlive DEF IndInv, Ids
<1>broken. CASE AppendFails(t)
  <2>1. todo'[t] = <<>>
    BY <1>0, <1>broken, BreakFrame
  <2>2. EndedBadly(t)'
    BY <1>0, <1>broken, BrokenIsBad DEF Left
  <2>3. \A u \in Ids : todo'[u] # <<>> => pc'[u] \in Begun \ {"compacting"}
    BY <1>0, <2>1 DEF InHand
  <2> QED BY <2>2, <2>3 DEF InHand, Excused
<1> SUFFICES ASSUME ~AppendFails(t) PROVE InHand'
  BY <1>broken
<1>h. Handles(t)
  BY <1>0, TurnHandles
<1>1. todo[t] \in Seq(Calls) /\ (todo[t] # <<>> => pc[t] \in Begun \ {"compacting"})
  BY <1>0 DEF Typed, TypeOK, InHand
<1>2. todo'[t] # <<>> => pc'[t] \in Begun \ {"compacting"}
  <2>0. pc[t] = "created" => todo[t] = <<>>
    BY <1>1 DEF Begun, Live, Waiting
  <2>1. CASE Keeps(t)
    BY <1>1, <2>0, <2>1 DEF Keeps
  <2>2. CASE Drops(t)
    BY <2>0, <2>2 DEF Drops
  <2>3. CASE Records(t)
    BY <2>3 DEF Records
  <2>4. CASE Receives(t)
    BY <2>4 DEF Receives, Begun, Live, Waiting
  <2>5. CASE Rebuilds(t)
    BY <1>1, <2>5 DEF Rebuilds
  <2> QED BY <1>h, <2>1, <2>2, <2>3, <2>4, <2>5 DEF Handles
<1>3. CASE Excused
  BY <1>0, <1>2, <1>3, ExcusedStays DEF InHand
<1>4. CASE ~Excused
  <2>0. callItems = outItems \cup Range(todo[t]) /\ Range(<<>>) = {}
    BY <1>0, <1>4, EmptyRange DEF InHand, InHandCalls
  <2>1. Excused' \/ callItems' = outItems' \cup Range(todo'[t])
    <3>1. CASE Keeps(t)
      BY <2>0, <3>1 DEF Keeps, SameItems
    <3>2. CASE Drops(t)
      <4>1. CASE todo[t] = <<>>
        BY <2>0, <3>2, <4>1 DEF Drops, SameItems
      <4>2. CASE todo[t] # <<>>
        <5>1. Concludes(t) \/ Tears(t)
          BY <1>0, <1>1, <3>2, <4>2 DEF Drops, Tells, GoesOn, Starts, StopsShort, Begun, Live, Waiting
        <5>2. EndedBadly(t)'
          BY <4>2, <5>1, LeftIsBad, TornIsBad DEF Left
        <5> QED BY <5>2 DEF Excused
      <4> QED BY <4>1, <4>2
    <3>3. CASE Records(t)
      <4>1. Range(todo[t]) = {Head(todo[t])} \cup Range(Tail(todo[t]))
        BY <1>1, <3>3, RangeOfTail DEF Records
      <4> QED BY <2>0, <3>3, <4>1 DEF Records
    <3>4. CASE Receives(t)
      <4>1. PICK c \in Calls : /\ todo'[t] = Append(todo[t], c)
                               /\ callItems' = callItems \cup {c} /\ outItems' = outItems
        BY <3>4 DEF Receives
      <4>2. Range(Append(todo[t], c)) = Range(todo[t]) \cup {c}
        BY <1>1, RangeAppend
      <4> QED BY <2>0, <4>1, <4>2
    <3>5. CASE Rebuilds(t)
      <4>1. todo[t] = <<>>
        BY <1>1, <3>5 DEF Rebuilds
      <4> QED BY <2>0, <3>5, <4>1 DEF Rebuilds
    <3> QED BY <1>h, <3>1, <3>2, <3>3, <3>4, <3>5 DEF Handles
  <2> QED BY <1>0, <1>2, <2>1 DEF InHand, InHandCalls
<1> QED BY <1>3, <1>4

LEMMA HandAfterOthers ==
  ASSUME IndInv, SteerInv, Numbering, Apart, InHand, OthersStep
  PROVE  InHand'
<1>0. /\ Typed /\ Hears /\ pc \in [Ids -> Phases] /\ active \in 0 .. MaxSubs /\ 0 \notin Ids
      /\ \A h \in Coming : pc[h] = "none"
  <2>1. Typed /\ pc \in [Ids -> Phases] /\ active \in 0 .. MaxSubs /\ 0 \notin Ids
    BY DEF IndInv, Typed, TypeOK, Ids
  <2>2. Hears
    BY OthersHear
  <2>3. \A h \in Coming : pc[h] = "none"
    BY <2>1, ComingUnknown
  <2> QED BY <2>1, <2>2, <2>3
<1>1. \A u \in Ids : todo'[u] = todo[u] /\ (todo'[u] # <<>> => pc'[u] \in Begun \ {"compacting"})
  <2>1. \A u \in Ids : todo'[u] = todo[u] /\ (todo[u] # <<>> => pc[u] \in Begun \ {"compacting"})
    BY <1>0 DEF Hears, InHand
  <2>2. \A u \in Ids : pc[u] \in Begun => pc'[u] = pc[u]
    BY <1>0 DEF Hears, Newest, Begun, Live, Waiting
  <2> QED BY <2>1, <2>2
<1>2. InHandCalls' = InHandCalls
  <2>1. CASE active' = active
    BY <1>0, <2>1 DEF InHandCalls, Hears
  <2>2. ASSUME NEW h \in Ids, Newest(h), active' = h, ~TurnRunning PROVE InHandCalls' = InHandCalls
    <3>1. todo[h] = <<>> /\ todo'[h] = <<>> /\ h # 0
      BY <1>0, <1>1, <2>2 DEF InHand, Newest, Begun, Live, Waiting
    <3>2. active # 0 => todo[active] = <<>>
      BY <1>0, <2>2 DEF InHand, TurnRunning, Begun, Live, Waiting, Ids
    <3> QED BY <2>2, <3>1, <3>2, EmptyRange DEF InHandCalls
  <2> QED BY <1>0, <2>1, <2>2 DEF Hears
<1>3. CASE Excused
  BY <1>1, <1>3, ExcusedStays DEF InHand
<1>4. CASE SameItems /\ ~Excused
  BY <1>1, <1>2, <1>4 DEF InHand, SameItems
<1>5. CASE LoopCompactDone
  <2> DEFINE e == Ev(loopSub, "ContextCompacted")
  <2>1. loopSub \in Ids /\ pc[loopSub] = "none" /\ Emit(e) /\ pc' = pc /\ e.msg = "ContextCompacted" /\ e.sub = loopSub
    BY <1>5 DEF LoopCompactDone, Apart, taskVars, Ev
  <2> HIDE DEF e
  <2>2. events' = Append(events, e) /\ events \in Seq(Event)
    BY <1>0, <2>1 DEF Emit, Typed, TypeOK
  <2>3. DOMAIN events' = 1 .. Len(events) + 1 /\ Len(events) \in Nat /\ events'[Len(events) + 1] = e
    <3>1. e \in Event
      BY <1>0, EventTyped DEF e, Kinds, Typed, TypeOK
    <3> QED BY <2>2, <3>1, AppendProperties, LenProperties
  <2>4. CompactedByHand'
    <3>1. Len(events) + 1 \in DOMAIN events'
      BY <2>3
    <3> QED BY <2>1, <2>3, <3>1 DEF CompactedByHand
  <2> QED BY <1>1, <2>4 DEF InHand, Excused
<1>6. SameItems \/ LoopCompactDone
  BY DEF OthersStep, LoopStep, Submit, LoopUserTurn, LoopExecApproval, LoopInterrupt, LoopShutdown, LoopCompact,
         LoopCompactRaises, Render, AnswerApproval, convVars, vars, SameItems
<1> QED BY <1>3, <1>4, <1>5, <1>6

-----------------------------------------------------------------------------
(* The invariant, and what follows.                                        *)

StoryInv == Numbering /\ Apart /\ TurnStory /\ Left /\ InOrder /\ InHand

LEMMA StoryStarts == Init => StoryInv
<1> SUFFICES ASSUME Init PROVE StoryInv
  OBVIOUS
<1>1. /\ submissions = <<>> /\ events = <<>> /\ pending = <<>> /\ said = <<>> /\ active = 0 /\ nextSub = 1
      /\ loop = "get" /\ callItems = {} /\ outItems = {} /\ lost = {}
      /\ \A t \in Ids : pc[t] = "none" /\ todo[t] = <<>>
  BY DEF Init
<1>2. Range(<<>>) = {} /\ DOMAIN <<>> = {} /\ Len(<<>>) = 0 /\ 1 .. 0 = {}
  BY EmptyRange
<1>3. Ids \ Unknown = {}
  BY <1>1, <1>2 DEF Unknown
<1>4. Numbering /\ Apart
  BY <1>1, <1>2, <1>3 DEF Numbering, Apart
<1>5. TurnStory
  BY <1>1, <1>2 DEF TurnStory, StoryOf, Live, Waiting
<1>6. Left
  BY <1>1, <1>2 DEF Left, Completes, CompletionStrandsNothing
<1>7. InOrder
  BY <1>1, <1>2 DEF InOrder, SaidInOrder
<1>8. InHand
  BY <1>1 DEF InHand, InHandCalls
<1> QED BY <1>4, <1>5, <1>6, <1>7, <1>8 DEF StoryInv

LEMMA StorySteps ==
  ASSUME IndInv, SteerInv, StoryInv, [Next]_vars
  PROVE  StoryInv'
<1>0. Typed' /\ Numbering /\ Apart /\ TurnStory /\ Left /\ InOrder /\ InHand
  BY NextTyped DEF IndInv, StoryInv
<1>1. ASSUME NEW t \in Ids, TurnStep(t) PROVE StoryInv'
  BY <1>0, <1>1, TurnsStayApart, StoryAfterTurn, LeftAfterTurn, OrderAfterTurn, HandAfterTurn DEF StoryInv
<1>2. CASE OthersStep
  BY <1>0, <1>2, OthersHear, StoryAfterOthers, LeftAfterOthers, OrderAfterOthers, HandAfterOthers DEF StoryInv
<1> QED BY <1>1, <1>2 DEF Next, OthersStep

\* What the stream, the history and the queue of a thread have in common at every moment, whatever its
\* operations and however its turns end.
THEOREM StoryInductive == Spec => []StoryInv
<1>1. IndInv /\ SteerInv /\ StoryInv /\ [Next]_vars => StoryInv'
  BY StorySteps
<1> QED BY <1>1, StoryStarts, Inductive, SteeringInductive, PTL DEF Spec

\* A turn's events begin with TaskStarted and have one ending, there when the task is over and never before,
\* so that whoever sees it may rely on it (run_turn and its except clauses).  The exceptions are the definition's:
\* a refused prompt, and the endings that a failed append to the rollout spoils.
THEOREM TurnsTellTheirStory == Spec => []TurnStory
<1>1. StoryInv => TurnStory
  BY DEF StoryInv
<1> QED BY <1>1, StoryInductive, PTL

\* A turn that completes has taken every steering message with it: the check of the queue before
\* TaskComplete, and the emit after it, let none slip between them.
THEOREM NothingStranded == Spec => []CompletionStrandsNothing
<1>1. StoryInv => CompletionStrandsNothing
  BY DEF StoryInv, Left
<1> QED BY <1>1, StoryInductive, PTL

\* History holds the messages in the order of their submission, but for those that a turn left behind when
\* it ended badly (Session.take_pending at the next turn's start).
THEOREM MessagesInOrder == Spec => []SaidInOrder
<1>1. StoryInv => SaidInOrder
  BY DEF StoryInv, InOrder
<1> QED BY <1>1, StoryInductive, PTL

\* Only a step of the turn itself opens its request.
LEMMA OwnRequests ==
  ASSUME IndInv, SteerInv, StoryInv, [Next]_vars, NEW t \in Ids, OpensRequest(t)
  PROVE  TurnStep(t)
<1>0. Typed /\ pc \in [Ids -> Phases]
  BY DEF IndInv, Typed, TypeOK
<1>1. ASSUME NEW u \in Ids, TurnStep(u), u # t PROVE FALSE
  BY <1>0, <1>1, TurnFrame DEF OpensRequest
<1>2. CASE OthersStep
  <2>1. Hears
    BY <1>2, OthersHear DEF StoryInv
  <2> QED BY <1>0, <2>1 DEF Hears, OpensRequest
<1> QED BY <1>1, <1>2 DEF Next, OthersStep

\* A request to the model pairs every call with its output, unless a turn ended badly or a Compact operation
\* rewrote history before, whatever was typed, refused or compacted meanwhile (run_turn, _dispatch_one).
THEOREM PairedRequests == Spec => RequestsPaired
<1>1. ASSUME IndInv, SteerInv, StoryInv, [Next]_vars, NEW t \in Ids, OpensRequest(t)
      PROVE  callItems' = outItems' \/ (\E u \in Ids : EndedBadly(u)) \/ CompactedByHand
  <2>1. TurnStep(t)
    BY <1>1, OwnRequests
  <2>a. Typed /\ pc[t] \in Live /\ active = t
    BY <1>1, <2>1, TurnFrame, OpenIsAlive DEF IndInv
  <2>b. ~AppendFails(t)
    BY <1>1, <2>a, BreakFrame DEF OpensRequest
  <2>2. Typed /\ Handles(t) /\ pc[t] \in Live /\ active = t
    BY <2>1, <2>a, <2>b, TurnHandles
  <2>t. t # 0 /\ todo[t] \in Seq(Calls)
    BY <2>2 DEF Ids, Typed, TypeOK
  <2>o. pc[t] # "streaming" /\ pc'[t] = "streaming"
    BY <1>1 DEF OpensRequest
  <2>3. todo[t] # <<>> => pc[t] \in Begun \ {"compacting"}
    BY <1>1 DEF StoryInv, InHand
  <2>4. CASE Excused
    BY <2>4 DEF Excused
  <2>5. CASE ~Excused
    <3>1. callItems = outItems \cup Range(todo[t]) /\ Range(<<>>) = {}
      BY <1>1, <2>2, <2>t, <2>5, EmptyRange DEF StoryInv, InHand, InHandCalls
    <3>2. CASE Keeps(t)
      <4>1. todo[t] = <<>>
        BY <2>o, <2>3, <3>2 DEF Keeps, Begun, Live, Waiting
      <4> QED BY <3>1, <3>2, <4>1 DEF Keeps, SameItems
    <3>3. CASE Records(t)
      <4>1. Range(todo[t]) = {Head(todo[t])} \cup Range(Tail(todo[t])) /\ Tail(todo[t]) = <<>>
        BY <2>t, <2>o, <3>3, RangeOfTail DEF Records
      <4> QED BY <3>1, <3>3, <4>1 DEF Records
    <3>4. CASE Rebuilds(t)
      BY <3>4 DEF Rebuilds
    <3> QED BY <2>2, <2>o, <3>2, <3>3, <3>4 DEF Handles, Drops, Receives
  <2> QED BY <2>4, <2>5
<1>2. IndInv /\ SteerInv /\ StoryInv /\ [Next]_vars
      => [\A t \in Ids : OpensRequest(t) =>
            \/ callItems' = outItems'
            \/ \E u \in Ids : EndedBadly(u)
            \/ CompactedByHand]_vars
  BY <1>1
<1> QED BY <1>2, Inductive, SteeringInductive, StoryInductive, PTL DEF Spec, RequestsPaired

-----------------------------------------------------------------------------
(* The public lines.  What the writer has made of the stream is in balance *)
(* with the turns: the item of the command that runs is open, and every    *)
(* other one has completed, was asked about, or is of a turn that is over. *)

LinesOf(lines, type) == { i \in DOMAIN lines : lines[i].type = type }

AskedSince(lines, stream, i, n) ==
  stream[n] = CallEv(stream[lines[i].at].sub, "ExecApprovalRequest", stream[lines[i].at].call)

Settled(lines, stream, i) ==
  \/ \E j \in LinesOf(lines, "item.completed") : lines[i].id = lines[j].id
  \/ \E n \in DOMAIN stream : n >= lines[i].at /\ AskedSince(lines, stream, i, n)

\* Item i was settled when line k was printed.
SettledBefore(lines, stream, i, k) ==
  \/ \E j \in LinesOf(lines, "item.completed") : lines[i].id = lines[j].id /\ j < k
  \/ \E n \in lines[i].at .. lines[k].at : AskedSince(lines, stream, i, n)

Commands == Cmds \cup {""}
LineKinds == {"item.started", "item.completed", "turn.started", "turn.completed", "turn.failed", "error"}
LineRec  == [type : LineKinds, id : Int, command : Commands, at : Nat]
OpenItem == {Absent} \cup (Int \X Commands)
WriterRec == [next : Nat, open : [Calls -> OpenItem], lines : Seq(LineRec)]

Numbers(lines, next) ==
  /\ \A i \in LinesOf(lines, "item.started") : lines[i].id < next
  /\ \A i, j \in LinesOf(lines, "item.started") : lines[i].id = lines[j].id => i = j
  /\ \A i, j \in LinesOf(lines, "item.completed") : lines[i].id = lines[j].id => i = j
  /\ \A j \in LinesOf(lines, "item.completed") : \E i \in LinesOf(lines, "item.started") :
       i < j /\ lines[i].id = lines[j].id /\ lines[i].command = lines[j].command

IsOpen(lines, open, i, c) == open[c] = <<lines[i].id, lines[i].command>>

\* run: the turn and the call of the command that runs, if any.
Tracks(lines, open, run) ==
  \A p \in run : \E i \in LinesOf(lines, "item.started") :
    /\ IsOpen(lines, open, i, p[2])
    /\ \A j \in LinesOf(lines, "item.completed") : lines[j].id # lines[i].id

\* over: the turns that are over.
Balance(lines, open, stream, run, over) ==
  \A i \in LinesOf(lines, "item.started") :
    LET begin == stream[lines[i].at] IN
    \/ Settled(lines, stream, i)
    \/ begin.sub \in over
    \/ <<begin.sub, begin.call>> \in run /\ IsOpen(lines, open, i, begin.call)

Completed(lines, stream, over) ==
  \A k \in LinesOf(lines, "turn.completed") :
    /\ stream[lines[k].at].sub \in over
    /\ \A i \in LinesOf(lines, "item.started") :
         stream[lines[i].at].sub = stream[lines[k].at].sub => SettledBefore(lines, stream, i, k)

Dated(lines, stream) == \A i \in DOMAIN lines : lines[i].at \in DOMAIN stream

Balanced(w, stream, run, over) ==
  /\ w \in WriterRec
  /\ Dated(w.lines, stream)
  /\ Numbers(w.lines, w.next)
  /\ Tracks(w.lines, w.open, run)
  /\ Balance(w.lines, w.open, stream, run, over)
  /\ Completed(w.lines, stream, over)

\* The events that begin and end an item.
Opens(e)  == e.msg \in {"BeginSandboxed", "BeginUnsandboxed"}
Closes(e) == e.msg = "ExecCommandEnd"

\* w is what the writer has made of the stream.
Steps(g, stream) ==
  g = [n \in 0 .. Len(stream) |-> IF n = 0 THEN NewWriter ELSE Translate(g[n - 1], stream[n], n)]
Wrote(w, stream) == \E g : Steps(g, stream) /\ w = g[Len(stream)]

Kept(stream, run, over) == \E w : Wrote(w, stream) /\ Balanced(w, stream, run, over)

-----------------------------------------------------------------------------
(* The writer, event by event.                                             *)

LEMMA NothingWritten == Wrote(NewWriter, <<>>)
<1>1. Len(<<>>) = 0
  OBVIOUS
<1> DEFINE g == [n \in 0 .. 0 |-> NewWriter]
<1>2. g = [n \in 0 .. 0 |-> IF n = 0 THEN NewWriter ELSE Translate(g[n - 1], <<>>[n], n)]
  OBVIOUS
<1>3. g[0] = NewWriter
  OBVIOUS
<1> HIDE DEF g
<1> QED BY <1>1, <1>2, <1>3 DEF Wrote, Steps

LEMMA WritesOn ==
  ASSUME NEW w, NEW stream \in Seq(Event), NEW e \in Event, Wrote(w, stream)
  PROVE  Wrote(Translate(w, e, Len(stream) + 1), Append(stream, e))
<1>0. PICK N : N = Len(stream)
  OBVIOUS
<1>1. PICK longer : longer = Append(stream, e)
  OBVIOUS
<1>2. N \in Nat /\ Len(longer) = N + 1 /\ longer[N + 1] = e /\ \A n \in 1 .. N : longer[n] = stream[n]
  BY <1>0, <1>1, AppendProperties, LenProperties
<1>3. PICK g : g = [n \in 0 .. N |-> IF n = 0 THEN NewWriter ELSE Translate(g[n - 1], stream[n], n)] /\ w = g[N]
  BY <1>0 DEF Wrote, Steps
<1>4. PICK last : last = Translate(w, e, N + 1)
  OBVIOUS
<1> DEFINE h == [n \in 0 .. N + 1 |-> IF n = N + 1 THEN last ELSE g[n]]
<1>5. \A n \in 0 .. N + 1 : h[n] = IF n = N + 1 THEN last ELSE g[n]
  OBVIOUS
<1>6. h = [n \in 0 .. N + 1 |-> h[n]]
  OBVIOUS
<1> HIDE DEF h
<1>7. ASSUME NEW n \in 0 .. N + 1
      PROVE  h[n] = IF n = 0 THEN NewWriter ELSE Translate(h[n - 1], longer[n], n)
  <2>1. CASE n = 0
    <3>1. 0 # N + 1 /\ 0 \in 0 .. N
      BY <1>2
    <3>2. g[0] = NewWriter
      BY <1>3, <3>1
    <3> QED BY <1>5, <2>1, <3>1, <3>2
  <2>2. CASE n \in 1 .. N
    <3>1. n # N + 1 /\ n - 1 # N + 1 /\ n # 0 /\ n - 1 \in 0 .. N + 1 /\ n \in 0 .. N
      BY <1>2, <2>2
    <3>2. g[n] = Translate(g[n - 1], stream[n], n)
      BY <1>3, <3>1
    <3>3. h[n] = g[n] /\ h[n - 1] = g[n - 1] /\ longer[n] = stream[n]
      BY <1>2, <1>5, <2>2, <3>1
    <3> QED BY <3>1, <3>2, <3>3
  <2>3. CASE n = N + 1
    <3>1. n # 0 /\ n - 1 = N /\ N \in 0 .. N + 1 /\ N # N + 1
      BY <1>2, <2>3
    <3>2. h[n] = last /\ h[n - 1] = w /\ longer[n] = e
      BY <1>2, <1>3, <1>5, <2>3, <3>1
    <3> QED BY <1>4, <2>3, <3>1, <3>2
  <2>4. n = 0 \/ n \in 1 .. N \/ n = N + 1
    BY <1>2
  <2> QED BY <2>1, <2>2, <2>3, <2>4
<1>8. h = [n \in 0 .. N + 1 |-> IF n = 0 THEN NewWriter ELSE Translate(h[n - 1], longer[n], n)]
  BY <1>6, <1>7, Zenon
<1>9. h[N + 1] = last /\ Len(longer) = N + 1
  BY <1>2, <1>5
<1>10. Wrote(last, longer)
  BY <1>8, <1>9 DEF Wrote, Steps
<1> QED BY <1>0, <1>1, <1>4, <1>10

\* Printed is what the writer has made of the whole stream.
LEMMA PrintedIsWritten ==
  ASSUME NEW w, events \in Seq(Event), Wrote(w, events)
  PROVE  Printed = w.lines
<1>0. PICK N : N = Len(events)
  OBVIOUS
<1>1. N \in Nat
  BY <1>0, LenProperties
<1>2. PICK g : Steps(g, events) /\ w = g[Len(events)]
  BY DEF Wrote
<1> DEFINE f == CHOOSE f : Steps(f, events)
<1>3. Steps(f, events)
  BY <1>2
<1>4. Printed = f[Len(events)].lines
  BY Zenon DEF Printed, Steps
<1> HIDE DEF f
<1> DEFINE S == { n \in Nat : n <= N => f[n] = g[n] }
<1>5. 0 \in S
  <2>1. 0 \in 0 .. Len(events)
    BY <1>0, <1>1
  <2>2. f[0] = NewWriter /\ g[0] = NewWriter
    BY <1>2, <1>3, <2>1 DEF Steps
  <2> QED BY <2>2
<1>6. ASSUME NEW n \in Nat, n \in S PROVE n + 1 \in S
  <2>1. SUFFICES ASSUME n + 1 <= N PROVE f[n + 1] = g[n + 1]
    OBVIOUS
  <2>2. n + 1 \in 0 .. Len(events) /\ n + 1 # 0 /\ (n + 1) - 1 = n
    BY <1>0, <1>1, <2>1
  <2>3. f[n + 1] = Translate(f[n], events[n + 1], n + 1)
    BY <1>3, <2>2 DEF Steps
  <2>4. g[n + 1] = Translate(g[n], events[n + 1], n + 1)
    BY <1>2, <2>2 DEF Steps
  <2>5. f[n] = g[n]
    BY <1>1, <1>6, <2>1
  <2> QED BY <2>3, <2>4, <2>5
<1>7. N \in S
  <2> HIDE DEF S
  <2>1. S \in SUBSET Nat
    BY DEF S
  <2> QED BY <1>1, <1>5, <1>6, <2>1, Induct
<1>8. f[N] = g[N]
  BY <1>7
<1> QED BY <1>0, <1>2, <1>4, <1>8

-----------------------------------------------------------------------------
(* One event more: each kind of event keeps the balance.                   *)

LEMMA StreamGrows ==
  ASSUME NEW stream \in Seq(Event), NEW e \in Event
  PROVE  /\ Len(stream) \in Nat /\ DOMAIN stream = 1 .. Len(stream)
         /\ Append(stream, e) \in Seq(Event) /\ DOMAIN Append(stream, e) = 1 .. Len(stream) + 1
         /\ Append(stream, e)[Len(stream) + 1] = e
         /\ \A n \in DOMAIN stream : Append(stream, e)[n] = stream[n]
  BY AppendProperties, LenProperties

LEMMA LinesGrow ==
  ASSUME NEW lines \in Seq(LineRec), NEW l \in LineRec
  PROVE  /\ Len(lines) \in Nat /\ DOMAIN lines = 1 .. Len(lines)
         /\ Append(lines, l) \in Seq(LineRec) /\ DOMAIN Append(lines, l) = 1 .. Len(lines) + 1
         /\ Append(lines, l)[Len(lines) + 1] = l
         /\ \A i \in DOMAIN lines : Append(lines, l)[i] = lines[i] /\ lines[i] \in LineRec
  BY AppendProperties, LenProperties, ElementOfSeq

\* One line more.
GrowsBy(lines, more, l) ==
  \E N \in Nat : /\ DOMAIN lines = 1 .. N /\ DOMAIN more = 1 .. N + 1 /\ more[N + 1] = l
                 /\ \A i \in 1 .. N : more[i] = lines[i]

\* What was printed and said stays.
Extends(lines, stream, more, longer) ==
  /\ DOMAIN lines \subseteq DOMAIN more /\ DOMAIN stream \subseteq DOMAIN longer
  /\ \A i \in DOMAIN lines : more[i] = lines[i]
  /\ \A n \in DOMAIN stream : longer[n] = stream[n]

LEMMA SettledStays ==
  ASSUME NEW lines, NEW stream, NEW more, NEW longer, Extends(lines, stream, more, longer), Dated(lines, stream),
         NEW i \in DOMAIN lines, Settled(lines, stream, i)
  PROVE  Settled(more, longer, i)
<1>1. more[i] = lines[i] /\ lines[i].at \in DOMAIN stream /\ longer[lines[i].at] = stream[lines[i].at]
  BY DEF Extends, Dated
<1>2. CASE \E j \in LinesOf(lines, "item.completed") : lines[i].id = lines[j].id
  BY <1>1, <1>2 DEF Settled, LinesOf, Extends
<1>3. ASSUME NEW n \in DOMAIN stream, n >= lines[i].at, AskedSince(lines, stream, i, n)
      PROVE  Settled(more, longer, i)
  <2>1. n \in DOMAIN longer /\ longer[n] = stream[n]
    BY DEF Extends
  <2> QED BY <1>1, <1>3, <2>1 DEF Settled, AskedSince
<1> QED BY <1>2, <1>3 DEF Settled

LEMMA BalanceStays ==
  ASSUME NEW lines, NEW stream, NEW more, NEW longer, Extends(lines, stream, more, longer), Dated(lines, stream),
         NEW open, NEW run, NEW over, Balance(lines, open, stream, run, over),
         LinesOf(more, "item.started") = LinesOf(lines, "item.started")
  PROVE  Balance(more, open, longer, run, over)
<1>1. ASSUME NEW i \in LinesOf(more, "item.started")
      PROVE  LET begin == longer[more[i].at] IN
             \/ Settled(more, longer, i)
             \/ begin.sub \in over
             \/ <<begin.sub, begin.call>> \in run /\ IsOpen(more, open, i, begin.call)
  <2>1. i \in LinesOf(lines, "item.started") /\ i \in DOMAIN lines
    BY DEF LinesOf
  <2>2. more[i] = lines[i] /\ longer[lines[i].at] = stream[lines[i].at]
    BY <2>1 DEF Extends, Dated
  <2>3. Settled(lines, stream, i) => Settled(more, longer, i)
    BY <2>1, SettledStays
  <2> QED BY <2>1, <2>2, <2>3 DEF Balance, IsOpen
<1> QED BY <1>1 DEF Balance

LEMMA SettledBeforeStays ==
  ASSUME NEW lines \in Seq(LineRec), NEW stream, NEW more, NEW longer, Extends(lines, stream, more, longer),
         Dated(lines, stream), DOMAIN stream \subseteq Nat, \A m, n \in DOMAIN stream : m .. n \subseteq DOMAIN stream,
         NEW i \in DOMAIN lines, NEW k \in DOMAIN lines, SettledBefore(lines, stream, i, k)
  PROVE  SettledBefore(more, longer, i, k)
<1>1. /\ more[i] = lines[i] /\ more[k] = lines[k] /\ lines[i].at \in DOMAIN stream /\ lines[k].at \in DOMAIN stream
      /\ longer[lines[i].at] = stream[lines[i].at]
  BY DEF Extends, Dated
<1>2. CASE \E j \in LinesOf(lines, "item.completed") : lines[i].id = lines[j].id /\ j < k
  BY <1>1, <1>2 DEF SettledBefore, LinesOf, Extends
<1>3. ASSUME NEW n \in lines[i].at .. lines[k].at, AskedSince(lines, stream, i, n)
      PROVE  SettledBefore(more, longer, i, k)
  <2>1. n \in DOMAIN stream /\ longer[n] = stream[n]
    BY <1>1 DEF Extends
  <2> QED BY <1>1, <1>3, <2>1 DEF SettledBefore, AskedSince
<1> QED BY <1>2, <1>3 DEF SettledBefore

\* The completed turns stay so while no other completes and only other turns begin items.
LEMMA CompletedStays ==
  ASSUME NEW lines \in Seq(LineRec), NEW stream \in Seq(Event), NEW more, NEW longer,
         Extends(lines, stream, more, longer), Dated(lines, stream),
         NEW over, Completed(lines, stream, over),
         LinesOf(more, "turn.completed") \subseteq DOMAIN lines,
         \A i \in LinesOf(more, "item.started") : i \in DOMAIN lines \/ longer[more[i].at].sub \notin over
  PROVE  Completed(more, longer, over)
<1>0. DOMAIN stream \subseteq Nat /\ \A m, n \in DOMAIN stream : m .. n \subseteq DOMAIN stream
  <2>1. PICK N \in Nat : DOMAIN stream = 1 .. N
    BY LenProperties
  <2> QED BY <2>1
<1>1. ASSUME NEW k \in LinesOf(more, "turn.completed")
      PROVE  /\ longer[more[k].at].sub \in over
             /\ \A i \in LinesOf(more, "item.started") :
                  longer[more[i].at].sub = longer[more[k].at].sub => SettledBefore(more, longer, i, k)
  <2>1. k \in DOMAIN lines /\ more[k] = lines[k] /\ longer[lines[k].at] = stream[lines[k].at]
    BY DEF Extends, Dated
  <2>2. k \in LinesOf(lines, "turn.completed")
    BY <2>1 DEF LinesOf
  <2>3. longer[more[k].at].sub \in over
    BY <2>1, <2>2 DEF Completed
  <2>4. ASSUME NEW i \in LinesOf(more, "item.started"), longer[more[i].at].sub = longer[more[k].at].sub
        PROVE  SettledBefore(more, longer, i, k)
    <3>1. i \in DOMAIN lines
      BY <2>3, <2>4
    <3>2. more[i] = lines[i] /\ longer[lines[i].at] = stream[lines[i].at] /\ i \in LinesOf(lines, "item.started")
      BY <3>1 DEF Extends, Dated, LinesOf
    <3>3. SettledBefore(lines, stream, i, k)
      BY <2>1, <2>2, <2>4, <3>2 DEF Completed
    <3> QED BY <1>0, <2>1, <3>1, <3>3, SettledBeforeStays
  <2> QED BY <2>3, <2>4
<1> QED BY <1>1 DEF Completed

\* A line that begins and ends no item leaves the items as they were.
LEMMA OtherLine ==
  ASSUME NEW lines, NEW more, NEW l, GrowsBy(lines, more, l), l.type # "item.started", l.type # "item.completed",
         NEW next, NEW open, NEW run, Numbers(lines, next), Tracks(lines, open, run)
  PROVE  /\ LinesOf(more, "item.started") = LinesOf(lines, "item.started")
         /\ LinesOf(more, "item.completed") = LinesOf(lines, "item.completed")
         /\ Numbers(more, next) /\ Tracks(more, open, run)
<1>2. PICK N \in Nat : /\ DOMAIN lines = 1 .. N /\ DOMAIN more = 1 .. N + 1 /\ more[N + 1] = l
                       /\ \A i \in 1 .. N : more[i] = lines[i]
  BY DEF GrowsBy
<1>3. /\ LinesOf(more, "item.started") = LinesOf(lines, "item.started")
      /\ LinesOf(more, "item.completed") = LinesOf(lines, "item.completed")
  BY <1>2 DEF LinesOf
<1>4. /\ \A i \in LinesOf(lines, "item.started") : more[i] = lines[i]
      /\ \A i \in LinesOf(lines, "item.completed") : more[i] = lines[i]
  BY <1>2 DEF LinesOf
<1>5. Numbers(more, next)
  BY <1>3, <1>4 DEF Numbers
<1>6. ASSUME NEW p \in run
      PROVE  \E i \in LinesOf(more, "item.started") :
               /\ IsOpen(more, open, i, p[2])
               /\ \A j \in LinesOf(more, "item.completed") : more[j].id # more[i].id
  <2>1. PICK i \in LinesOf(lines, "item.started") :
          /\ IsOpen(lines, open, i, p[2])
          /\ \A j \in LinesOf(lines, "item.completed") : lines[j].id # lines[i].id
    BY DEF Tracks
  <2>2. IsOpen(more, open, i, p[2]) /\ \A j \in LinesOf(more, "item.completed") : more[j].id # more[i].id
    BY <1>3, <1>4, <2>1 DEF IsOpen
  <2> QED BY <1>3, <2>1, <2>2
<1>7. Tracks(more, open, run)
  BY <1>6 DEF Tracks
<1> QED BY <1>3, <1>5, <1>7

\* An event that is no item's and completes no turn: no line, or a line of its own.
LEMMA KeptAside ==
  ASSUME NEW stream \in Seq(Event), NEW e \in Event, NEW run, NEW over, Kept(stream, run, over),
         ~Opens(e), ~Closes(e), e.msg # "TaskComplete"
  PROVE  Kept(Append(stream, e), run, over)
<1>0. PICK w : Wrote(w, stream) /\ Balanced(w, stream, run, over)
  BY DEF Kept
<1>1. PICK longer, at : longer = Append(stream, e) /\ at = Len(stream) + 1
  OBVIOUS
<1>2. PICK v : v = Translate(w, e, at)
  OBVIOUS
<1>3. Wrote(v, longer)
  BY <1>0, <1>1, <1>2, WritesOn
<1>4. PICK lines, next, open : w = [next |-> next, open |-> open, lines |-> lines]
      /\ next \in Nat /\ open \in [Calls -> OpenItem] /\ lines \in Seq(LineRec)
      /\ w.lines = lines /\ w.next = next /\ w.open = open
  BY <1>0 DEF Balanced, WriterRec
<1>5. /\ Dated(lines, stream) /\ Numbers(lines, next) /\ Tracks(lines, open, run)
      /\ Balance(lines, open, stream, run, over) /\ Completed(lines, stream, over)
  BY <1>0, <1>4 DEF Balanced
<1>6. /\ at \in Nat /\ DOMAIN longer = DOMAIN stream \cup {at} /\ at \notin DOMAIN stream /\ longer[at] = e
      /\ \A n \in DOMAIN stream : longer[n] = stream[n]
  BY <1>1, StreamGrows
<1>7. \/ v = w
      \/ \E type \in {"turn.started", "turn.failed", "error"} : v = Plainly(w, type, at)
  BY <1>2 DEF Translate, Opens, Closes
<1>8. CASE v = w
  <2>1. Extends(lines, stream, lines, longer)
    BY <1>6 DEF Extends
  <2>2. Balance(lines, open, longer, run, over)
    BY <1>5, <2>1, BalanceStays
  <2>3. Completed(lines, longer, over)
    <3>1. LinesOf(lines, "turn.completed") \subseteq DOMAIN lines /\ LinesOf(lines, "item.started") \subseteq DOMAIN lines
      BY DEF LinesOf
    <3> QED BY <1>4, <1>5, <2>1, <3>1, CompletedStays
  <2>4. Dated(lines, longer)
    BY <1>5, <1>6 DEF Dated
  <2> QED BY <1>0, <1>1, <1>3, <1>4, <1>5, <1>8, <2>2, <2>3, <2>4 DEF Kept, Balanced
<1>9. ASSUME NEW type \in {"turn.started", "turn.failed", "error"}, v = Plainly(w, type, at)
      PROVE  Kept(longer, run, over)
  <2>1. PICK l : l = Line(type, -1, "", at)
    OBVIOUS
  <2>2. l \in LineRec /\ l.type = type /\ l.at = at /\ l.type \notin {"item.started", "item.completed", "turn.completed"}
    <3>1. PICK id : id = -1
      OBVIOUS
    <3>2. id \in Int /\ type \in LineKinds /\ "" \in Commands
      BY <3>1 DEF LineKinds, Commands
    <3>3. l = [type |-> type, id |-> id, command |-> "", at |-> at]
      BY <2>1, <3>1 DEF Line
    <3> QED BY <1>6, <3>2, <3>3 DEF LineRec
  <2>3. PICK more : more = Append(lines, l)
    OBVIOUS
  <2>4. v = [next |-> next, open |-> open, lines |-> more]
    BY <1>4, <1>9, <2>1, <2>3 DEF Plainly
  <2>5. v \in WriterRec /\ v.lines = more /\ v.next = next /\ v.open = open
    <3>1. more \in Seq(LineRec)
      BY <1>4, <2>2, <2>3, LinesGrow
    <3> QED BY <1>4, <2>4, <3>1 DEF WriterRec
  <2>6. PICK N \in Nat : /\ DOMAIN lines = 1 .. N /\ DOMAIN more = 1 .. N + 1 /\ more[N + 1] = l
                         /\ \A i \in 1 .. N : more[i] = lines[i]
    BY <1>4, <2>2, <2>3, LinesGrow
  <2>7. Extends(lines, stream, more, longer) /\ Dated(more, longer)
    BY <1>5, <1>6, <2>2, <2>6 DEF Extends, Dated
  <2>8. /\ LinesOf(more, "item.started") = LinesOf(lines, "item.started")
        /\ Numbers(more, next) /\ Tracks(more, open, run)
    <3>1. GrowsBy(lines, more, l) /\ l.type # "item.started" /\ l.type # "item.completed"
      BY <2>2, <2>6 DEF GrowsBy
    <3> QED BY <1>5, <3>1, OtherLine
  <2>9. Balance(more, open, longer, run, over)
    BY <1>5, <2>7, <2>8, BalanceStays
  <2>10. Completed(more, longer, over)
    <3>1. LinesOf(more, "turn.completed") \subseteq DOMAIN lines /\ LinesOf(lines, "item.started") \subseteq DOMAIN lines
      BY <2>2, <2>6 DEF LinesOf
    <3> QED BY <1>4, <1>5, <2>7, <2>8, <3>1, CompletedStays
  <2> QED BY <1>3, <2>5, <2>7, <2>8, <2>9, <2>10 DEF Kept, Balanced
<1> QED BY <1>1, <1>7, <1>8, <1>9

\* A question about the command that ran: its item may stay open.
LEMMA KeptAsking ==
  ASSUME NEW stream \in Seq(Event), NEW t \in Ids, NEW c \in Calls, NEW over, Kept(stream, {<<t, c>>}, over),
         CallEv(t, "ExecApprovalRequest", c) \in Event
  PROVE  Kept(Append(stream, CallEv(t, "ExecApprovalRequest", c)), {}, over)
<1>0. PICK e : e = CallEv(t, "ExecApprovalRequest", c)
  OBVIOUS
<1>1. e \in Event /\ ~Opens(e) /\ ~Closes(e) /\ e.msg # "TaskComplete"
  BY <1>0 DEF CallEv, Opens, Closes
<1>2. PICK longer, at : longer = Append(stream, e) /\ at = Len(stream) + 1
  OBVIOUS
<1>3. Kept(longer, {<<t, c>>}, over)
  BY <1>1, <1>2, KeptAside
<1>4. PICK w : Wrote(w, longer) /\ Balanced(w, longer, {<<t, c>>}, over)
  BY <1>3 DEF Kept
<1>5. PICK lines, open : lines = w.lines /\ open = w.open
  OBVIOUS
<1>6. at \in Nat /\ DOMAIN longer = 1 .. at /\ longer[at] = e
  BY <1>1, <1>2, StreamGrows
<1>7. ASSUME NEW i \in LinesOf(lines, "item.started")
      PROVE  Settled(lines, longer, i) \/ longer[lines[i].at].sub \in over
  <2>1. lines[i].at \in 1 .. at
    BY <1>4, <1>5, <1>6 DEF Balanced, Dated, LinesOf
  <2>2. CASE longer[lines[i].at].sub = t /\ longer[lines[i].at].call = c
    <3>1. AskedSince(lines, longer, i, at) /\ at \in DOMAIN longer /\ at >= lines[i].at
      BY <1>0, <1>6, <2>1, <2>2 DEF AskedSince
    <3> QED BY <3>1 DEF Settled
  <2>3. \/ Settled(lines, longer, i)
        \/ longer[lines[i].at].sub \in over
        \/ <<longer[lines[i].at].sub, longer[lines[i].at].call>> \in {<<t, c>>}
    BY <1>4, <1>5 DEF Balanced, Balance
  <2> QED BY <2>2, <2>3
<1>8. Balance(lines, open, longer, {}, over)
  BY <1>7 DEF Balance
<1>9. Tracks(lines, open, {})
  BY DEF Tracks
<1> QED BY <1>0, <1>2, <1>4, <1>5, <1>8, <1>9 DEF Kept, Balanced

\* A turn that ends, with its command or not.
LEMMA KeptEnding ==
  ASSUME NEW stream, NEW t, NEW run, NEW over, Kept(stream, run, over), \A p \in run : p[1] = t
  PROVE  Kept(stream, {}, over \cup {t})
<1>1. PICK w : Wrote(w, stream) /\ Balanced(w, stream, run, over)
  BY DEF Kept
<1>2. Balance(w.lines, w.open, stream, {}, over \cup {t})
  <2>1. ASSUME NEW i \in LinesOf(w.lines, "item.started")
        PROVE  Settled(w.lines, stream, i) \/ stream[w.lines[i].at].sub \in over \cup {t}
    <3>1. PICK a, b : a = stream[w.lines[i].at].sub /\ b = stream[w.lines[i].at].call
      OBVIOUS
    <3>2. Settled(w.lines, stream, i) \/ a \in over \/ <<a, b>> \in run
      BY <1>1, <3>1 DEF Balanced, Balance
    <3>3. <<a, b>> \in run => a = t
      OBVIOUS
    <3> QED BY <3>1, <3>2, <3>3
  <2> QED BY <2>1 DEF Balance
<1>3. Completed(w.lines, stream, over \cup {t})
  BY <1>1 DEF Balanced, Completed
<1>4. Tracks(w.lines, w.open, {})
  BY DEF Tracks
<1> QED BY <1>1, <1>2, <1>3, <1>4 DEF Kept, Balanced

\* What a ledger in balance consists of, and where its next event goes.
Ledger(w, lines, next, open, stream, run, over) ==
  /\ w = [next |-> next, open |-> open, lines |-> lines]
  /\ next \in Nat /\ open \in [Calls -> OpenItem] /\ lines \in Seq(LineRec)
  /\ w.lines = lines /\ w.next = next /\ w.open = open
  /\ Dated(lines, stream) /\ Numbers(lines, next) /\ Tracks(lines, open, run)
  /\ Balance(lines, open, stream, run, over) /\ Completed(lines, stream, over)

LEMMA LedgerKept ==
  ASSUME NEW stream, NEW run, NEW over, Kept(stream, run, over)
  PROVE  \E w : Wrote(w, stream) /\ \E lines, next, open : Ledger(w, lines, next, open, stream, run, over)
<1>1. PICK w : Wrote(w, stream) /\ Balanced(w, stream, run, over)
  BY DEF Kept
<1>2. Ledger(w, w.lines, w.next, w.open, stream, run, over)
  BY <1>1 DEF Balanced, WriterRec, Ledger
<1> QED BY <1>1, <1>2

LEMMA KeptLedger ==
  ASSUME NEW stream, NEW run, NEW over, NEW v, Wrote(v, stream), NEW lines \in Seq(LineRec), NEW next \in Nat,
         NEW open \in [Calls -> OpenItem], v = [next |-> next, open |-> open, lines |-> lines],
         Dated(lines, stream), Numbers(lines, next), Tracks(lines, open, run),
         Balance(lines, open, stream, run, over), Completed(lines, stream, over)
  PROVE  Kept(stream, run, over)
<1>1. v \in WriterRec /\ v.lines = lines /\ v.next = next /\ v.open = open
  BY DEF WriterRec
<1>2. Balanced(v, stream, run, over)
  BY <1>1 DEF Balanced
<1> QED BY <1>2 DEF Kept

LEMMA Grown ==
  ASSUME NEW lines \in Seq(LineRec), NEW l \in LineRec, NEW more, more = Append(lines, l)
  PROVE  more \in Seq(LineRec) /\ GrowsBy(lines, more, l)
  BY LinesGrow DEF GrowsBy

LEMMA BothGrow ==
  ASSUME NEW lines, NEW more, NEW l, GrowsBy(lines, more, l), NEW stream \in Seq(Event), NEW e \in Event, NEW longer,
         longer = Append(stream, e), Dated(lines, stream), l.at = Len(stream) + 1
  PROVE  Extends(lines, stream, more, longer) /\ Dated(more, longer)
<1>1. PICK N \in Nat : /\ DOMAIN lines = 1 .. N /\ DOMAIN more = 1 .. N + 1 /\ more[N + 1] = l
                       /\ \A i \in 1 .. N : more[i] = lines[i]
  BY DEF GrowsBy
<1>2. PICK M \in Nat : /\ DOMAIN stream = 1 .. M /\ DOMAIN longer = 1 .. M + 1 /\ l.at = M + 1
                       /\ \A n \in 1 .. M : longer[n] = stream[n]
  BY StreamGrows
<1>3. Extends(lines, stream, more, longer)
  BY <1>1, <1>2 DEF Extends
<1>4. ASSUME NEW i \in 1 .. N PROVE more[i].at \in 1 .. M + 1
  <2>1. lines[i].at \in 1 .. M
    BY <1>1, <1>2 DEF Dated
  <2> QED BY <1>1, <2>1
<1>5. more[N + 1].at \in 1 .. M + 1
  BY <1>1, <1>2
<1>6. \A i \in 1 .. N + 1 : i \in 1 .. N \/ i = N + 1
  OBVIOUS
<1>7. Dated(more, longer)
  BY <1>1, <1>2, <1>4, <1>5, <1>6 DEF Dated
<1> QED BY <1>3, <1>7

\* The turn completes: no command of it runs, and each of its items is settled.
LEMMA KeptCompletion ==
  ASSUME NEW stream \in Seq(Event), NEW e \in Event, NEW over, Kept(stream, {}, over),
         e.msg = "TaskComplete", e.sub \notin over
  PROVE  Kept(Append(stream, e), {}, over \cup {e.sub})
<1>0. PICK w, lines, next, open : Wrote(w, stream) /\ Ledger(w, lines, next, open, stream, {}, over)
  BY LedgerKept
<1>1. PICK longer, at : longer = Append(stream, e) /\ at = Len(stream) + 1
  OBVIOUS
<1>2. PICK l, more : l = Line("turn.completed", -1, "", at) /\ more = Append(lines, l)
  OBVIOUS
<1>3. PICK v : v = Translate(w, e, at)
  OBVIOUS
<1>4. Wrote(v, longer)
  BY <1>0, <1>1, <1>3, WritesOn
<1>5. v = [next |-> next, open |-> open, lines |-> more]
  BY <1>0, <1>2, <1>3 DEF Translate, Plainly, Ledger
<1>6. /\ at \in Nat /\ DOMAIN stream = 1 .. at - 1 /\ DOMAIN longer = 1 .. at /\ longer[at] = e
      /\ \A n \in DOMAIN stream : longer[n] = stream[n]
  BY <1>1, StreamGrows
<1>7. l \in LineRec /\ l.type = "turn.completed" /\ l.at = at
  <2>1. PICK id : id = -1
    OBVIOUS
  <2>2. id \in Int /\ "turn.completed" \in LineKinds /\ "" \in Commands
    BY <2>1 DEF LineKinds, Commands
  <2>3. l = [type |-> "turn.completed", id |-> id, command |-> "", at |-> at]
    BY <1>2, <2>1 DEF Line
  <2> QED BY <1>6, <2>2, <2>3 DEF LineRec
<1>8. lines \in Seq(LineRec) /\ more \in Seq(LineRec) /\ GrowsBy(lines, more, l)
  BY <1>0, <1>2, <1>7, Grown DEF Ledger
<1>9. PICK N \in Nat : /\ DOMAIN lines = 1 .. N /\ DOMAIN more = 1 .. N + 1 /\ more[N + 1] = l
                       /\ \A i \in 1 .. N : more[i] = lines[i]
  BY <1>8 DEF GrowsBy
<1>10. Extends(lines, stream, more, longer) /\ Dated(more, longer) /\ Dated(lines, stream)
  BY <1>0, <1>1, <1>7, <1>8, BothGrow DEF Ledger
<1>11. /\ LinesOf(more, "item.started") = LinesOf(lines, "item.started")
       /\ LinesOf(more, "item.completed") = LinesOf(lines, "item.completed")
       /\ Numbers(more, next) /\ Tracks(more, open, {})
  BY <1>0, <1>7, <1>8, OtherLine DEF Ledger
<1>12. Balance(more, open, longer, {}, over)
  BY <1>0, <1>10, <1>11, BalanceStays DEF Ledger
<1>13. Completed(more, longer, over \cup {e.sub})
  <2>1. ASSUME NEW k \in LinesOf(more, "turn.completed"), k \in DOMAIN lines
        PROVE  /\ longer[more[k].at].sub \in over \cup {e.sub}
               /\ \A i \in LinesOf(more, "item.started") :
                    longer[more[i].at].sub = longer[more[k].at].sub => SettledBefore(more, longer, i, k)
    <3>1. /\ k \in LinesOf(lines, "turn.completed") /\ more[k] = lines[k] /\ lines[k].at \in DOMAIN stream
          /\ longer[lines[k].at] = stream[lines[k].at]
      BY <1>6, <1>9, <1>10, <2>1 DEF LinesOf, Dated
    <3>2. ASSUME NEW i \in LinesOf(more, "item.started"), longer[more[i].at].sub = longer[more[k].at].sub
          PROVE  SettledBefore(more, longer, i, k)
      <4>1. /\ i \in LinesOf(lines, "item.started") /\ i \in DOMAIN lines /\ more[i] = lines[i]
            /\ longer[lines[i].at] = stream[lines[i].at]
        BY <1>6, <1>9, <1>10, <1>11 DEF LinesOf, Dated
      <4>2. SettledBefore(lines, stream, i, k)
        BY <1>0, <3>1, <3>2, <4>1 DEF Ledger, Completed
      <4>3. DOMAIN stream \subseteq Nat /\ \A m, n \in DOMAIN stream : m .. n \subseteq DOMAIN stream
        BY <1>6
      <4> QED BY <1>8, <1>10, <2>1, <4>1, <4>2, <4>3, SettledBeforeStays
    <3> QED BY <1>0, <3>1, <3>2 DEF Ledger, Completed
  <2>2. ASSUME NEW i \in LinesOf(more, "item.started"), longer[more[i].at].sub = e.sub
        PROVE  SettledBefore(more, longer, i, N + 1)
    <3>1. i \in DOMAIN more /\ more[i].at \in 1 .. at
      BY <1>6, <1>10 DEF LinesOf, Dated
    <3>2. Settled(more, longer, i)
      BY <1>12, <2>2 DEF Balance
    <3>3. CASE \E j \in LinesOf(more, "item.completed") : more[i].id = more[j].id
      <4>1. PICK j \in LinesOf(more, "item.completed") : more[i].id = more[j].id
        BY <3>3
      <4>2. j < N + 1
        BY <1>9, <1>11 DEF LinesOf
      <4> QED BY <4>1, <4>2 DEF SettledBefore
    <3>4. ASSUME NEW n \in DOMAIN longer, n >= more[i].at, AskedSince(more, longer, i, n)
          PROVE  SettledBefore(more, longer, i, N + 1)
      <4>1. n \in more[i].at .. more[N + 1].at
        BY <1>6, <1>7, <1>9, <3>1, <3>4
      <4> QED BY <3>4, <4>1 DEF SettledBefore
    <3> QED BY <3>2, <3>3, <3>4 DEF Settled
  <2>3. longer[more[N + 1].at].sub = e.sub
    BY <1>6, <1>7, <1>9
  <2>4. \A k \in LinesOf(more, "turn.completed") : k \in DOMAIN lines \/ k = N + 1
    BY <1>9 DEF LinesOf
  <2> QED BY <2>1, <2>2, <2>3, <2>4 DEF Completed
<1>14. Balance(more, open, longer, {}, over \cup {e.sub})
  BY <1>12 DEF Balance
<1>15. next \in Nat /\ open \in [Calls -> OpenItem]
  BY <1>0 DEF Ledger
<1>16. Kept(longer, {}, over \cup {e.sub})
  BY <1>4, <1>5, <1>8, <1>10, <1>11, <1>13, <1>14, <1>15, KeptLedger
<1> QED BY <1>1, <1>16

\* The command begins: its item is the one that is open.
LEMMA KeptOpening ==
  ASSUME NEW stream \in Seq(Event), NEW e \in Event, NEW over, Kept(stream, {}, over),
         Opens(e), e.call \in Calls, e.sub \notin over
  PROVE  Kept(Append(stream, e), {<<e.sub, e.call>>}, over)
<1>0. PICK w, lines, next, open : Wrote(w, stream) /\ Ledger(w, lines, next, open, stream, {}, over)
  BY LedgerKept
<1>1. PICK longer, at : longer = Append(stream, e) /\ at = Len(stream) + 1
  OBVIOUS
<1>2. PICK t, c, cmd : t = e.sub /\ c = e.call /\ cmd = CmdOf[c]
  OBVIOUS
<1>3. PICK l, more, opened : /\ l = Line("item.started", next, cmd, at) /\ more = Append(lines, l)
                             /\ opened = [open EXCEPT ![c] = <<next, cmd>>]
  OBVIOUS
<1>4. PICK v : v = Translate(w, e, at)
  OBVIOUS
<1>5. Wrote(v, longer)
  BY <1>0, <1>1, <1>4, WritesOn
<1>6. v = [next |-> next + 1, open |-> opened, lines |-> more]
  BY <1>0, <1>2, <1>3, <1>4 DEF Translate, Began, Ledger, Opens
<1>7. /\ at \in Nat /\ at = Len(stream) + 1 /\ longer[at] = e
  BY <1>1, StreamGrows
<1>8. next \in Nat /\ next + 1 \in Nat /\ c \in Calls /\ cmd \in Commands /\ lines \in Seq(LineRec)
  <2>1. c \in Calls /\ cmd \in Cmds
    BY <1>2, ConfigAssumption
  <2>2. next \in Nat /\ lines \in Seq(LineRec)
    BY <1>0 DEF Ledger
  <2>3. next + 1 \in Nat
    BY <2>2
  <2> QED BY <2>1, <2>2, <2>3 DEF Commands
<1>9. l \in LineRec /\ l.type = "item.started" /\ l.at = at /\ l.id = next /\ l.command = cmd
  BY <1>3, <1>7, <1>8 DEF LineRec, Line, LineKinds
<1>10. opened \in [Calls -> OpenItem] /\ opened[c] = <<next, cmd>>
  BY <1>0, <1>3, <1>8 DEF Ledger, OpenItem
<1>11. more \in Seq(LineRec) /\ GrowsBy(lines, more, l)
  BY <1>3, <1>8, <1>9, Grown
<1>12. PICK N \in Nat : /\ DOMAIN lines = 1 .. N /\ DOMAIN more = 1 .. N + 1 /\ more[N + 1] = l
                        /\ \A i \in 1 .. N : more[i] = lines[i]
  BY <1>11 DEF GrowsBy
<1>13. Dated(lines, stream) /\ Extends(lines, stream, more, longer) /\ Dated(more, longer)
  <2>1. Dated(lines, stream)
    BY <1>0 DEF Ledger
  <2>2. l.at = Len(stream) + 1
    BY <1>7, <1>9
  <2> QED BY <1>1, <1>11, <2>1, <2>2, BothGrow
<1>14. /\ LinesOf(more, "item.started") = LinesOf(lines, "item.started") \cup {N + 1}
       /\ LinesOf(more, "item.completed") = LinesOf(lines, "item.completed")
       /\ LinesOf(more, "turn.completed") = LinesOf(lines, "turn.completed")
       /\ \A type : LinesOf(lines, type) \subseteq 1 .. N
  BY <1>9, <1>12 DEF LinesOf
<1>15. /\ \A i \in LinesOf(lines, "item.started") : lines[i].id < next /\ more[i] = lines[i] /\ i # N + 1 /\ i \in Nat
       /\ \A i \in LinesOf(lines, "item.started") : lines[i] \in LineRec /\ lines[i].id \in Int
  <2>1. ASSUME NEW i \in LinesOf(lines, "item.started") PROVE lines[i] \in LineRec /\ lines[i].id \in Int
    <3>1. lines[i] \in LineRec
      BY <1>8, ElementOfSeq DEF LinesOf
    <3> QED BY <3>1 DEF LineRec
  <2> QED BY <1>0, <1>12, <1>14, <2>1 DEF Ledger, Numbers
<1>16. \A j \in LinesOf(lines, "item.completed") :
         /\ more[j] = lines[j] /\ lines[j].id # next
         /\ \E i \in LinesOf(lines, "item.started") :
              i < j /\ lines[i].id = lines[j].id /\ lines[i].command = lines[j].command
  <2>1. ASSUME NEW j \in LinesOf(lines, "item.completed")
        PROVE  /\ lines[j].id # next
               /\ \E i \in LinesOf(lines, "item.started") :
                    i < j /\ lines[i].id = lines[j].id /\ lines[i].command = lines[j].command
    <3>1. PICK i \in LinesOf(lines, "item.started") :
            i < j /\ lines[i].id = lines[j].id /\ lines[i].command = lines[j].command
      BY <1>0 DEF Ledger, Numbers
    <3>2. lines[i].id < next /\ lines[i].id \in Int
      BY <1>15
    <3>3. lines[i].id # next
      BY <1>8, <3>2
    <3> QED BY <3>1, <3>3
  <2>2. \A j \in LinesOf(lines, "item.completed") : more[j] = lines[j]
    BY <1>12, <1>14
  <2> QED BY <2>1, <2>2
<1>17. Numbers(more, next + 1)
  <2>1. \A i \in LinesOf(more, "item.started") : more[i].id < next + 1
    BY <1>8, <1>9, <1>12, <1>14, <1>15
  <2>2. \A i, j \in LinesOf(more, "item.started") : more[i].id = more[j].id => i = j
    <3>1. \A i, j \in LinesOf(lines, "item.started") : more[i].id = more[j].id => i = j
      BY <1>0, <1>15 DEF Ledger, Numbers
    <3>2. \A i \in LinesOf(lines, "item.started") : more[i].id # more[N + 1].id
      BY <1>8, <1>9, <1>12, <1>15
    <3> QED BY <1>14, <3>1, <3>2
  <2>3. \A i, j \in LinesOf(more, "item.completed") : more[i].id = more[j].id => i = j
    BY <1>0, <1>14, <1>16 DEF Ledger, Numbers
  <2>4. ASSUME NEW j \in LinesOf(more, "item.completed")
        PROVE  \E i \in LinesOf(more, "item.started") :
                 i < j /\ more[i].id = more[j].id /\ more[i].command = more[j].command
    BY <1>14, <1>15, <1>16
  <2> QED BY <2>1, <2>2, <2>3, <2>4 DEF Numbers
<1>18. Tracks(more, opened, {<<t, c>>})
  <2>1. N + 1 \in LinesOf(more, "item.started") /\ IsOpen(more, opened, N + 1, c)
    BY <1>9, <1>10, <1>12, <1>14 DEF IsOpen
  <2>2. \A j \in LinesOf(more, "item.completed") : more[j].id # more[N + 1].id
    BY <1>9, <1>12, <1>14, <1>16
  <2>3. \A p \in {<<t, c>>} : p[2] = c
    OBVIOUS
  <2> QED BY <2>1, <2>2, <2>3 DEF Tracks
<1>19. Balance(more, opened, longer, {<<t, c>>}, over)
  <2>1. ASSUME NEW i \in LinesOf(lines, "item.started")
        PROVE  Settled(more, longer, i) \/ longer[more[i].at].sub \in over
    <3>1. Settled(lines, stream, i) \/ stream[lines[i].at].sub \in over
      BY <1>0 DEF Ledger, Balance
    <3>2. i \in DOMAIN lines /\ longer[lines[i].at] = stream[lines[i].at] /\ more[i] = lines[i]
      BY <1>13 DEF LinesOf, Extends, Dated
    <3>3. Settled(lines, stream, i) => Settled(more, longer, i)
      BY <1>13, <3>2, SettledStays
    <3> QED BY <3>1, <3>2, <3>3
  <2>2. /\ <<longer[more[N + 1].at].sub, longer[more[N + 1].at].call>> \in {<<t, c>>}
        /\ IsOpen(more, opened, N + 1, longer[more[N + 1].at].call)
    BY <1>2, <1>7, <1>9, <1>10, <1>12 DEF IsOpen
  <2> QED BY <1>14, <2>1, <2>2 DEF Balance
<1>20. Completed(more, longer, over)
  <2>1. \A i \in LinesOf(more, "item.started") : i \in DOMAIN lines \/ longer[more[i].at].sub \notin over
    BY <1>7, <1>9, <1>12, <1>14
  <2>2. LinesOf(more, "turn.completed") \subseteq DOMAIN lines /\ Completed(lines, stream, over)
    BY <1>0, <1>12, <1>14 DEF Ledger
  <2> QED BY <1>8, <1>13, <2>1, <2>2, CompletedStays
<1>21. Kept(longer, {<<t, c>>}, over)
  BY <1>5, <1>6, <1>8, <1>10, <1>11, <1>13, <1>17, <1>18, <1>19, <1>20, KeptLedger
<1> QED BY <1>1, <1>2, <1>21

\* The command ends: the item that is open is completed.
LEMMA KeptClosing ==
  ASSUME NEW stream \in Seq(Event), NEW e \in Event, NEW over, NEW t, NEW c \in Calls, Kept(stream, {<<t, c>>}, over),
         Closes(e), e.call = c
  PROVE  Kept(Append(stream, e), {}, over)
<1>0. PICK w, lines, next, open : Wrote(w, stream) /\ Ledger(w, lines, next, open, stream, {<<t, c>>}, over)
  BY LedgerKept
<1>1. PICK longer, at : longer = Append(stream, e) /\ at = Len(stream) + 1
  OBVIOUS
<1>2. PICK s \in LinesOf(lines, "item.started") :
        /\ IsOpen(lines, open, s, c)
        /\ \A j \in LinesOf(lines, "item.completed") : lines[j].id # lines[s].id
  <2>1. <<t, c>> \in {<<t, c>>} /\ <<t, c>>[2] = c
    OBVIOUS
  <2> QED BY <1>0, <2>1 DEF Ledger, Tracks
<1>3. PICK id, cmd : id = lines[s].id /\ cmd = lines[s].command
  OBVIOUS
<1>4. PICK l, more, opened : /\ l = Line("item.completed", id, cmd, at) /\ more = Append(lines, l)
                             /\ opened = [open EXCEPT ![c] = Absent]
  OBVIOUS
<1>5. PICK v : v = Translate(w, e, at)
  OBVIOUS
<1>6. Wrote(v, longer)
  BY <1>0, <1>1, <1>5, WritesOn
<1>7. open[c] = <<id, cmd>> /\ open[c] # Absent
  <2>1. Len(<<id, cmd>>) = 2 /\ Len(<<>>) = 0
    OBVIOUS
  <2>2. open[c] = <<id, cmd>>
    BY <1>2, <1>3 DEF IsOpen
  <2> QED BY <2>1, <2>2 DEF Absent
<1>8. next \in Nat /\ lines \in Seq(LineRec) /\ open \in [Calls -> OpenItem]
  BY <1>0 DEF Ledger
<1>9. v = [next |-> next, open |-> opened, lines |-> more]
  <2>1. v = Ended(w, c, at) /\ w = [next |-> next, open |-> open, lines |-> lines]
    BY <1>0, <1>5 DEF Translate, Closes, Ledger
  <2>2. w.next + 0 = next /\ w.open = open /\ w.lines = lines
    BY <1>8, <2>1
  <2>3. <<id, cmd>>[1] = id /\ <<id, cmd>>[2] = cmd
    OBVIOUS
  <2> QED BY <1>4, <1>7, <2>1, <2>2, <2>3 DEF Ended
<1>10. at \in Nat /\ at = Len(stream) + 1 /\ longer[at] = e
  BY <1>1, StreamGrows
<1>11. id \in Int /\ cmd \in Commands
  <2>1. lines[s] \in LineRec
    BY <1>8, ElementOfSeq DEF LinesOf
  <2> QED BY <1>3, <2>1 DEF LineRec
<1>12. l \in LineRec /\ l.type = "item.completed" /\ l.at = at /\ l.id = id /\ l.command = cmd
  BY <1>4, <1>10, <1>11 DEF LineRec, Line, LineKinds
<1>13. opened \in [Calls -> OpenItem]
  BY <1>4, <1>8 DEF OpenItem
<1>14. more \in Seq(LineRec) /\ GrowsBy(lines, more, l)
  BY <1>4, <1>8, <1>12, Grown
<1>15. PICK N \in Nat : /\ DOMAIN lines = 1 .. N /\ DOMAIN more = 1 .. N + 1 /\ more[N + 1] = l
                        /\ \A i \in 1 .. N : more[i] = lines[i]
  BY <1>14 DEF GrowsBy
<1>16. Dated(lines, stream) /\ Extends(lines, stream, more, longer) /\ Dated(more, longer)
  <2>1. Dated(lines, stream)
    BY <1>0 DEF Ledger
  <2>2. l.at = Len(stream) + 1
    BY <1>10, <1>12
  <2> QED BY <1>1, <1>14, <2>1, <2>2, BothGrow
<1>17. /\ LinesOf(more, "item.started") = LinesOf(lines, "item.started")
       /\ LinesOf(more, "item.completed") = LinesOf(lines, "item.completed") \cup {N + 1}
       /\ LinesOf(more, "turn.completed") = LinesOf(lines, "turn.completed")
       /\ \A type : LinesOf(lines, type) \subseteq 1 .. N
  BY <1>12, <1>15 DEF LinesOf
<1>18. /\ \A i \in LinesOf(lines, "item.started") : more[i] = lines[i] /\ i < N + 1
       /\ \A j \in LinesOf(lines, "item.completed") : more[j] = lines[j]
  BY <1>15, <1>17
<1>19. Numbers(more, next)
  <2>1. \A i, j \in LinesOf(more, "item.completed") : more[i].id = more[j].id => i = j
    <3>1. \A i, j \in LinesOf(lines, "item.completed") : more[i].id = more[j].id => i = j
      BY <1>0, <1>18 DEF Ledger, Numbers
    <3>2. \A i \in LinesOf(lines, "item.completed") : more[i].id # more[N + 1].id
      BY <1>2, <1>3, <1>12, <1>15, <1>18
    <3> QED BY <1>17, <3>1, <3>2
  <2>2. \A i \in LinesOf(more, "item.started") : more[i].id < next
    BY <1>0, <1>17, <1>18 DEF Ledger, Numbers
  <2>3. \A i, j \in LinesOf(more, "item.started") : more[i].id = more[j].id => i = j
    BY <1>0, <1>17, <1>18 DEF Ledger, Numbers
  <2>4. ASSUME NEW j \in LinesOf(more, "item.completed")
        PROVE  \E i \in LinesOf(more, "item.started") :
                 i < j /\ more[i].id = more[j].id /\ more[i].command = more[j].command
    <3>1. CASE j = N + 1
      BY <1>2, <1>3, <1>12, <1>15, <1>17, <1>18, <3>1
    <3>2. CASE j \in LinesOf(lines, "item.completed")
      BY <1>0, <1>17, <1>18, <3>2 DEF Ledger, Numbers
    <3> QED BY <1>17, <3>1, <3>2
  <2> QED BY <2>1, <2>2, <2>3, <2>4 DEF Numbers
<1>20. Tracks(more, opened, {})
  BY DEF Tracks
<1>21. Balance(more, opened, longer, {}, over)
  <2>1. ASSUME NEW i \in LinesOf(lines, "item.started")
        PROVE  Settled(more, longer, i) \/ longer[more[i].at].sub \in over
    <3>1. i \in DOMAIN lines /\ longer[lines[i].at] = stream[lines[i].at] /\ more[i] = lines[i]
      BY <1>16 DEF LinesOf, Extends, Dated
    <3>2. Settled(lines, stream, i) => Settled(more, longer, i)
      BY <1>16, <3>1, SettledStays
    <3>3. PICK a, b : a = stream[lines[i].at].sub /\ b = stream[lines[i].at].call
      OBVIOUS
    <3>4. CASE <<a, b>> \in {<<t, c>>} /\ IsOpen(lines, open, i, b)
      <4>1. b = c /\ open[c] = <<lines[i].id, lines[i].command>>
        BY <3>4 DEF IsOpen
      <4>2. lines[i].id = id
        BY <1>7, <4>1
      <4>3. N + 1 \in LinesOf(more, "item.completed") /\ more[i].id = more[N + 1].id
        BY <1>12, <1>15, <1>17, <3>1, <4>2
      <4> QED BY <4>3 DEF Settled
    <3>5. Settled(lines, stream, i) \/ a \in over \/ (<<a, b>> \in {<<t, c>>} /\ IsOpen(lines, open, i, b))
      BY <1>0, <3>3 DEF Ledger, Balance
    <3> QED BY <3>1, <3>2, <3>3, <3>4, <3>5
  <2> QED BY <1>17, <2>1 DEF Balance
<1>22. Completed(more, longer, over)
  <2>1. \A i \in LinesOf(more, "item.started") : i \in DOMAIN lines
    BY <1>15, <1>17
  <2>2. LinesOf(more, "turn.completed") \subseteq DOMAIN lines /\ Completed(lines, stream, over)
    BY <1>0, <1>15, <1>17 DEF Ledger
  <2> QED BY <1>8, <1>16, <2>1, <2>2, CompletedStays
<1>23. Kept(longer, {}, over)
  BY <1>6, <1>8, <1>9, <1>13, <1>14, <1>16, <1>19, <1>20, <1>21, <1>22, KeptLedger
<1> QED BY <1>1, <1>23

-----------------------------------------------------------------------------
(* The thread keeps the balance.                                           *)

Executing == {"exec", "execFull"}

\* The command that runs, with its turn, and the turns that are over.
Running == { <<t, Head(todo[t])>> : t \in { u \in Ids : pc[u] \in Executing } }
Over    == { t \in Ids : pc[t] = "done" }

ItemInv == Kept(events, Running, Over)

LEMMA RunsAlone ==
  ASSUME LiveIsActive, NEW t \in Ids, pc[t] \in Live
  PROVE  /\ pc[t] \in Executing => Running = {<<t, Head(todo[t])>>}
         /\ pc[t] \notin Executing => Running = {}
         /\ t \notin Over
<1>1. \A u \in Ids : pc[u] \in Executing => u = t
  BY DEF LiveIsActive, Live, Waiting, Executing
<1>2. t \notin Over
  BY DEF Over, Live, Waiting
<1> QED BY <1>1, <1>2 DEF Running

LEMMA RunsAfter ==
  ASSUME Typed, LiveIsActive, NEW t \in Ids, TurnStep(t)
  PROVE  /\ pc'[t] \in Executing => Running' = {<<t, Head(todo'[t])>>}
         /\ pc'[t] \notin Executing => Running' = {}
         /\ pc'[t] = "done" => Over' = Over \cup {t}
         /\ pc'[t] # "done" => Over' = Over
<1>1. pc[t] \in Live /\ \A u \in Ids \ {t} : pc'[u] = pc[u] /\ todo'[u] = todo[u]
  BY TurnFrame
<1>2. \A u \in Ids : pc'[u] \in Executing => u = t
  BY <1>1 DEF LiveIsActive, Live, Waiting, Executing
<1>3. pc[t] # "done"
  BY <1>1 DEF Live, Waiting
<1>4. /\ pc'[t] = "done" => Over' = Over \cup {t}
      /\ pc'[t] # "done" => Over' = Over
  BY <1>1, <1>3 DEF Over
<1> QED BY <1>2, <1>4 DEF Running

\* Events said one behind the other.
LEMMA SaidInTurn ==
  ASSUME NEW s \in Seq(Event), NEW a \in Event, NEW b \in Event, NEW c \in Event
  PROVE  /\ s \o <<a>> = Append(s, a)
         /\ s \o <<a, b>> = Append(Append(s, a), b)
         /\ s \o <<a, b, c>> = Append(Append(Append(s, a), b), c)
         /\ Append(s, a) \in Seq(Event) /\ Append(Append(s, a), b) \in Seq(Event)
<1>1. /\ <<a>> \in Seq(Event) /\ <<b>> \in Seq(Event) /\ <<c>> \in Seq(Event) /\ <<a, b>> \in Seq(Event)
      /\ <<a>> \o <<b>> = <<a, b>> /\ <<a, b>> \o <<c>> = <<a, b, c>>
  BY SpelledOut
<1>2. \A u \in Seq(Event), e \in Event : u \o <<e>> = Append(u, e) /\ Append(u, e) \in Seq(Event)
  BY AppendIsConcat, AppendProperties
<1>x. PICK x, y, z, u : x = <<a>> /\ y = <<b>> /\ z = <<c>> /\ u = <<a, b>>
  OBVIOUS
<1>y. x \in Seq(Event) /\ y \in Seq(Event) /\ z \in Seq(Event) /\ u \in Seq(Event)
  BY <1>1, <1>x
<1>z. \A p, q, r \in Seq(Event) : p \o (q \o r) = (p \o q) \o r
  BY ConcatAssociative
<1>3. s \o <<a, b>> = (s \o <<a>>) \o <<b>>
  <2>1. s \o (x \o y) = (s \o x) \o y
    BY <1>y, <1>z
  <2> QED BY <1>1, <1>x, <2>1
<1>4. s \o <<a, b, c>> = (s \o <<a, b>>) \o <<c>>
  <2>1. s \o (u \o z) = (s \o u) \o z
    BY <1>y, <1>z
  <2> QED BY <1>1, <1>x, <2>1
<1> QED BY <1>2, <1>3, <1>4

\* A failure is told after what the step had told before.
LEMMA FailSays ==
  ASSUME Typed, NEW t \in Ids
  PROVE  /\ Fail(t, <<>>) => events' = Append(events, Ev(t, "ErrorEvent"))
         /\ \A a \in Event : Fail(t, <<a>>) => events' = Append(Append(events, a), Ev(t, "ErrorEvent"))
         /\ \A a, b \in Event : Fail(t, <<a, b>>) =>
              events' = Append(Append(Append(events, a), b), Ev(t, "ErrorEvent"))
<1>1. PICK e : e = Ev(t, "ErrorEvent")
  OBVIOUS
<1>2. e \in Event /\ events \in Seq(Event)
  BY <1>1, TurnsEvents DEF Typed, TypeOK, Kinds, Terminal, OfTurn
<1>3. \A s \in Seq(Event), a \in Event : /\ s \o <<a>> = Append(s, a) /\ Append(s, a) \in Seq(Event)
                                         /\ <<a>> \in Seq(Event)
  BY AppendIsConcat, AppendProperties
<1>4. events \o <<>> = events
  BY <1>2, ConcatEmptySeq
<1>5. \A a, b \in Event : events \o <<a, b>> = Append(Append(events, a), b)
  BY <1>2, SaidInTurn
<1>6. \A before : Fail(t, before) => events' = (events \o before) \o <<e>>
  BY <1>1 DEF Fail
<1>7. Fail(t, <<>>) => events' = Append(events, e)
  BY <1>2, <1>3, <1>4, <1>6
<1>8. ASSUME NEW a \in Event, Fail(t, <<a>>) PROVE events' = Append(Append(events, a), e)
  <2>1. events' = (events \o <<a>>) \o <<e>> /\ events \o <<a>> = Append(events, a) /\ Append(events, a) \in Seq(Event)
    BY <1>2, <1>3, <1>6, <1>8
  <2> QED BY <1>2, <1>3, <2>1
<1>9. ASSUME NEW a \in Event, NEW b \in Event, Fail(t, <<a, b>>) PROVE events' = Append(Append(Append(events, a), b), e)
  <2>1. events' = (events \o <<a, b>>) \o <<e>> /\ events \o <<a, b>> = Append(Append(events, a), b)
    BY <1>5, <1>6, <1>9
  <2>2. Append(Append(events, a), b) \in Seq(Event)
    BY <1>2, <1>3
  <2> QED BY <1>2, <1>3, <2>1, <2>2
<1> QED BY <1>1, <1>7, <1>8, <1>9

\* Whose each event is, and which of them are items'.
LEMMA ItemEvents ==
  ASSUME NEW t \in Ids
  PROVE  /\ \A m \in {"TaskStarted", "ErrorEvent", "TaskComplete", "ContextCompacted", "TurnDiff", "TurnAborted"} :
              LET e == Ev(t, m) IN e \in Event /\ ~Opens(e) /\ ~Closes(e) /\ e.msg = m /\ e.sub = t
         /\ \A c \in Calls :
              /\ LET e == CallEv(t, "ExecApprovalRequest", c)
                 IN  e \in Event /\ ~Opens(e) /\ ~Closes(e) /\ e.msg # "TaskComplete"
              /\ LET e == CallEv(t, "ExecCommandEnd", c) IN e \in Event /\ Closes(e) /\ e.call = c
              /\ \A m \in {"BeginSandboxed", "BeginUnsandboxed"} :
                   LET e == CallEv(t, m, c) IN e \in Event /\ Opens(e) /\ e.sub = t /\ e.call = c
<1>1. \A m \in Kinds : Ev(t, m) \in Event /\ Ev(t, m).msg = m /\ Ev(t, m).sub = t
  BY TurnsEvents DEF OfTurn
<1>2. \A m \in Kinds, c \in Calls : CallEv(t, m, c) \in Event /\ CallEv(t, m, c).msg = m
  BY TurnsEvents DEF OfTurn
<1>3. \A m, c : CallEv(t, m, c).sub = t /\ CallEv(t, m, c).call = c
  BY DEF CallEv
<1>4. {"TaskStarted", "ErrorEvent", "TaskComplete", "ContextCompacted", "TurnDiff", "TurnAborted",
       "ExecApprovalRequest", "ExecCommandEnd", "BeginSandboxed", "BeginUnsandboxed"} \subseteq Kinds
  BY DEF Kinds, Terminal
<1>5. ASSUME NEW m \in {"TaskStarted", "ErrorEvent", "TaskComplete", "ContextCompacted", "TurnDiff", "TurnAborted"}
      PROVE  LET e == Ev(t, m) IN e \in Event /\ ~Opens(e) /\ ~Closes(e) /\ e.msg = m /\ e.sub = t
  <2>1. Ev(t, m) \in Event /\ Ev(t, m).msg = m /\ Ev(t, m).sub = t
    BY <1>1, <1>4
  <2> QED BY <2>1 DEF Opens, Closes
<1>6. ASSUME NEW c \in Calls
      PROVE  /\ LET e == CallEv(t, "ExecApprovalRequest", c)
                IN  e \in Event /\ ~Opens(e) /\ ~Closes(e) /\ e.msg # "TaskComplete"
             /\ LET e == CallEv(t, "ExecCommandEnd", c) IN e \in Event /\ Closes(e) /\ e.call = c
  BY <1>2, <1>3, <1>4 DEF Opens, Closes
<1>7. ASSUME NEW c \in Calls, NEW m \in {"BeginSandboxed", "BeginUnsandboxed"}
      PROVE  LET e == CallEv(t, m, c) IN e \in Event /\ Opens(e) /\ e.sub = t /\ e.call = c
  BY <1>2, <1>3, <1>4 DEF Opens
<1> QED BY <1>5, <1>6, <1>7

\* An append that fails: the turn's last words, whatever they are, keep the balance.
LEMMA BreakKeeps ==
  ASSUME Typed, LiveIsActive, ItemInv, NEW t \in Ids, AppendFails(t)
  PROVE  ItemInv'
<1>0. TypeOK /\ events \in Seq(Event) /\ pc[t] \in Live /\ pc'[t] = "done" /\ "done" \notin Executing
  BY BreakFrame DEF Typed, TypeOK, Executing
<1>1. PICK c, end, err : c = Head(todo[t]) /\ end = CallEv(t, "ExecCommandEnd", c) /\ err = Ev(t, "ErrorEvent")
  OBVIOUS
<1>2. t \notin Over /\ Kept(events, Running, Over)
      /\ (pc[t] \in Executing => Running = {<<t, c>>}) /\ (pc[t] \notin Executing => Running = {})
  BY <1>0, <1>1, RunsAlone DEF ItemInv
<1>3. Running' = {} /\ Over' = Over \cup {t}
  BY <1>0, RunsAfter DEF TurnStep
<1>c. pc[t] \in Calling => c \in Calls /\ end \in Event /\ Closes(end) /\ end.call = c
  BY <1>1, CallEventsTyped, ItemEvents
<1>e. err \in Event /\ ~Opens(err) /\ ~Closes(err) /\ err.msg # "TaskComplete"
  BY <1>1, ItemEvents
<1>over. ASSUME Kept(events', {}, Over \cup {t}) PROVE ItemInv'
  BY <1>3, <1>over DEF ItemInv
<1>ends. ASSUME NEW run, Kept(events', run, Over), \A p \in run : p[1] = t PROVE ItemInv'
  BY <1>ends, <1>over, KeptEnding
<1>mine. (\A p \in Running : p[1] = t) /\ (\A p \in {<<t, c>>} : p[1] = t)
  <2>1. (\A p \in {<<t, c>>} : p[1] = t) /\ \A p \in {} : p[1] = t
    OBVIOUS
  <2> QED BY <1>2, <2>1
<1>errs. ASSUME NEW s \in Seq(Event), NEW run, Kept(s, run, Over), \A p \in run : p[1] = t, events' = Append(s, err)
         PROVE  ItemInv'
  <2>1. Kept(Append(s, err), run, Over)
    BY <1>e, <1>errs, KeptAside
  <2> QED BY <1>ends, <1>errs, <2>1
<1>closed. ASSUME NEW s \in Seq(Event), Kept(s, {}, Over), events' = Append(s, err) PROVE ItemInv'
  <2>1. PICK none : none = {}
    OBVIOUS
  <2>2. Kept(s, none, Over) /\ \A p \in none : p[1] = t
    BY <1>closed, <2>1
  <2> QED BY <1>closed, <1>errs, <2>2
<1>4. CASE Dies(t, <<>>)
  <2>1. events' = events
    BY <1>0, <1>4, ConcatEmptySeq DEF Dies
  <2> QED BY <1>2, <1>ends, <1>mine, <2>1
<1>5. CASE Dies(t, <<err>>)
  <2>1. events' = Append(events, err)
    BY <1>0, <1>5, <1>e, SaidInTurn DEF Dies
  <2> QED BY <1>0, <1>2, <1>errs, <1>mine, <2>1
<1>6. CASE StartBreaks(t)
  <2>1. PICK start : start = Ev(t, "TaskStarted")
    OBVIOUS
  <2>2. start \in Event /\ ~Opens(start) /\ ~Closes(start) /\ start.msg # "TaskComplete"
    BY <2>1, ItemEvents
  <2>3. Kept(Append(events, start), Running, Over) /\ Append(events, start) \in Seq(Event)
    BY <1>0, <1>2, <2>2, KeptAside, AppendProperties
  <2>4. CASE Dies(t, <<start>>)
    <3>1. events' = Append(events, start)
      BY <1>0, <2>2, <2>4, SaidInTurn DEF Dies
    <3> QED BY <1>ends, <1>mine, <2>3, <3>1
  <2>5. CASE Dies(t, <<start, err>>)
    <3>1. events' = Append(Append(events, start), err)
      BY <1>0, <1>e, <2>2, <2>5, SaidInTurn DEF Dies
    <3> QED BY <1>errs, <1>mine, <2>3, <3>1
  <2> QED BY <1>1, <1>6, <2>1, <2>4, <2>5 DEF StartBreaks
<1>7. CASE StreamBreaks(t)
  <2>1. PICK full, diff, s : /\ full = Ev(t, "TaskComplete") /\ diff = Ev(t, "TurnDiff")
                             /\ s = IF turnDiffs # {} THEN <<diff>> ELSE <<>>
    OBVIOUS
  <2>2. /\ full \in Event /\ full.msg = "TaskComplete" /\ full.sub = t
        /\ diff \in Event /\ ~Opens(diff) /\ ~Closes(diff) /\ diff.msg # "TaskComplete"
    BY <2>1, ItemEvents
  <2>3. Kept(events, {}, Over)
    BY <1>2, <1>7 DEF StreamBreaks, Resume, Executing
  <2>4. CASE Dies(t, s \o <<full, err>>)
    <3>1. s \in Seq(Event) /\ <<full, err>> \in Seq(Event) /\ (s = <<diff>> \/ s = <<>>)
      <4>1. <<diff>> \in Seq(Event) /\ <<>> \in Seq(Event) /\ <<full, err>> \in Seq(Event)
        BY <1>e, <2>2
      <4> QED BY <2>1, <4>1
    <3>2. PICK a : a = events \o s
      OBVIOUS
    <3>3. a = Append(events, diff) \/ a = events
      BY <1>0, <2>2, <3>1, <3>2, SaidInTurn, ConcatEmptySeq
    <3>4. a \in Seq(Event) /\ Kept(a, {}, Over)
      <4>1. Append(events, diff) \in Seq(Event) /\ Kept(Append(events, diff), {}, Over)
        BY <1>0, <2>2, <2>3, KeptAside, AppendProperties
      <4> QED BY <1>0, <2>3, <3>3, <4>1
    <3>5. events' = a \o <<full, err>>
      BY <1>0, <2>4, <3>1, <3>2, ConcatAssociative DEF Dies
    <3>6. events' = Append(Append(a, full), err) /\ Append(a, full) \in Seq(Event)
      BY <1>e, <2>2, <3>4, <3>5, SaidInTurn
    <3>7. Kept(Append(a, full), {}, Over \cup {t})
      BY <1>2, <2>2, <3>4, KeptCompletion
    <3>8. Kept(Append(Append(a, full), err), {}, Over \cup {t})
      BY <1>e, <3>6, <3>7, KeptAside
    <3> QED BY <1>over, <3>6, <3>8
  <2> QED BY <1>1, <1>5, <1>7, <2>1, <2>4 DEF StreamBreaks
<1>8. ASSUME pc[t] \in Calling, pc[t] \notin Executing,
             NEW m \in {"BeginSandboxed", "BeginUnsandboxed"},
             \/ Dies(t, <<CallEv(t, m, c), err>>)
             \/ Dies(t, <<CallEv(t, m, c), end, err>>)
      PROVE  ItemInv'
  <2>1. PICK begin, a : begin = CallEv(t, m, c) /\ a = Append(events, begin)
    OBVIOUS
  <2>2. begin \in Event /\ Opens(begin) /\ begin.sub = t /\ begin.call = c
    BY <1>c, <1>8, <2>1, ItemEvents
  <2>3. a \in Seq(Event) /\ Kept(a, {<<t, c>>}, Over)
    BY <1>0, <1>2, <1>c, <1>8, <2>1, <2>2, KeptOpening, AppendProperties
  <2>4. CASE Dies(t, <<begin, err>>)
    <3>1. events' = Append(a, err)
      BY <1>0, <1>e, <2>1, <2>2, <2>4, SaidInTurn DEF Dies
    <3> QED BY <1>errs, <1>mine, <2>3, <3>1
  <2>5. CASE Dies(t, <<begin, end, err>>)
    <3>1. events' = Append(Append(a, end), err) /\ Append(a, end) \in Seq(Event)
      BY <1>0, <1>c, <1>e, <1>8, <2>1, <2>2, <2>5, SaidInTurn DEF Dies
    <3>2. Kept(Append(a, end), {}, Over)
      BY <1>c, <1>8, <2>3, KeptClosing
    <3> QED BY <1>closed, <3>1, <3>2
  <2> QED BY <1>8, <2>1, <2>4, <2>5
<1>9. CASE OutputBreaks(t)
  <2>1. CASE Dies(t, <<end, err>>) /\ pc[t] \in Executing
    <3>1. pc[t] \in Calling
      BY <2>1 DEF Executing, Calling
    <3>2. events' = Append(Append(events, end), err) /\ Append(events, end) \in Seq(Event)
      BY <1>0, <1>c, <1>e, <2>1, <3>1, SaidInTurn DEF Dies
    <3>3. Kept(Append(events, end), {}, Over)
      <4>1. end \in Event /\ Closes(end) /\ end.call = c /\ c \in Calls /\ Kept(events, {<<t, c>>}, Over)
        BY <1>2, <1>c, <2>1, <3>1
      <4> QED BY <1>0, <4>1, KeptClosing
    <3> QED BY <1>closed, <3>2, <3>3
  <2>2. CASE /\ pc[t] \in {"ask", "askEscalate"}
             /\ Dies(t, <<CallEv(t, "BeginUnsandboxed", c), end, err>>)
    BY <1>8, <2>2 DEF Calling, Executing
  <2>3. CASE Dies(t, <<err>>)
    BY <1>5, <2>3
  <2> QED BY <1>1, <1>9, <2>1, <2>2, <2>3 DEF OutputBreaks, Resume, Executing
<1>10. CASE BeginBreaks(t)
  <2>1. pc[t] \in Calling /\ pc[t] \notin Executing
    BY <1>10 DEF BeginBreaks, Calling, Executing
  <2>2. \E m \in {"BeginSandboxed", "BeginUnsandboxed"} : Dies(t, <<CallEv(t, m, c), err>>)
    BY <1>1, <1>10 DEF BeginBreaks
  <2> QED BY <1>8, <2>1, <2>2
<1>11. CASE CancelBreaks(t)
  BY <1>4, <1>11 DEF CancelBreaks
<1> QED BY <1>6, <1>7, <1>9, <1>10, <1>11 DEF AppendFails

LEMMA TurnKeeps ==
  ASSUME Typed, LiveIsActive, ItemInv, NEW t \in Ids, TurnStep(t)
  PROVE  ItemInv'
<1>0. TypeOK /\ pc \in [Ids -> Phases] /\ events \in Seq(Event)
  BY DEF Typed, TypeOK
<1>1. PICK c, end, ask, err : /\ c = Head(todo[t]) /\ end = CallEv(t, "ExecCommandEnd", c)
                              /\ ask = CallEv(t, "ExecApprovalRequest", c) /\ err = Ev(t, "ErrorEvent")
  OBVIOUS
<1>2. pc[t] \in Live /\ t \notin Over /\ Kept(events, Running, Over)
      /\ (pc[t] \in Executing => Running = {<<t, c>>}) /\ (pc[t] \notin Executing => Running = {})
  BY <1>1, TurnFrame, RunsAlone DEF ItemInv
<1>3. /\ pc'[t] \in Executing => Running' = {<<t, Head(todo'[t])>>}
      /\ pc'[t] \notin Executing => Running' = {}
      /\ pc'[t] = "done" => Over' = Over \cup {t}
      /\ pc'[t] # "done" => Over' = Over
  BY RunsAfter
<1>c. pc[t] \in Calling => /\ c \in Calls /\ end \in Event /\ Closes(end) /\ end.call = c
                           /\ ask \in Event /\ ~Opens(ask) /\ ~Closes(ask) /\ ask.msg # "TaskComplete"
  BY <1>1, CallEventsTyped, ItemEvents
<1>e. err \in Event /\ ~Opens(err) /\ ~Closes(err) /\ err.msg # "TaskComplete"
  BY <1>1, ItemEvents
\* What is left to show: the balance of the stream, the turn going on or over.
<1>goes. ASSUME pc'[t] \notin Executing, Kept(events', {}, Over) PROVE ItemInv'
  <2>1. Kept(events', {}, Over \cup {t})
    <3>1. PICK none : none = {}
      OBVIOUS
    <3>2. Kept(events', none, Over) /\ \A p \in none : p[1] = t
      BY <1>goes, <3>1
    <3> QED BY <3>1, <3>2, KeptEnding
  <2> QED BY <1>3, <1>goes, <2>1 DEF ItemInv
<1>ends. ASSUME pc'[t] = "done", NEW run, Kept(events', run, Over), \A p \in run : p[1] = t PROVE ItemInv'
  <2>1. Kept(events', {}, Over \cup {t}) /\ pc'[t] \notin Executing
    BY <1>ends, KeptEnding DEF Executing
  <2> QED BY <1>3, <1>ends, <2>1 DEF ItemInv
<1>mine. \A p \in Running : p[1] = t
  <2>1. \A p \in {<<t, c>>} : p[1] = t
    OBVIOUS
  <2> QED BY <1>2, <2>1
<1>quiet. ASSUME pc[t] \notin Executing, pc'[t] \notin Executing, UNCHANGED events PROVE ItemInv'
  BY <1>2, <1>goes, <1>quiet
<1>one. ASSUME pc[t] \notin Executing, pc'[t] \notin Executing,
               NEW m \in {"TaskStarted", "ErrorEvent", "ContextCompacted", "TurnDiff", "TurnAborted"}, Emit(Ev(t, m))
        PROVE  ItemInv'
  <2>1. PICK e : e = Ev(t, m)
    OBVIOUS
  <2>2. e \in Event /\ ~Opens(e) /\ ~Closes(e) /\ e.msg # "TaskComplete"
    BY <2>1, ItemEvents
  <2>3. Kept(Append(events, e), {}, Over)
    BY <1>0, <1>2, <1>one, <2>2, KeptAside
  <2> QED BY <1>goes, <1>one, <2>1, <2>3 DEF Emit
<1>fail. ASSUME Fail(t, <<>>) PROVE ItemInv'
  <2>1. pc'[t] = "done" /\ events' = Append(events, err)
    BY <1>0, <1>1, <1>fail, FailSays DEF Fail, Go
  <2>2. Kept(Append(events, err), Running, Over)
    BY <1>0, <1>2, <1>e, KeptAside
  <2> QED BY <1>ends, <1>mine, <2>1, <2>2
<1>out. ASSUME pc[t] \in Calling, RecordOutput(t) PROVE pc'[t] \notin Executing
  <2>1. pc'[t] \in {"streaming", "compacting", "dispatch"}
    BY <1>out, RecordOutputTyped DEF Typed, CallInHand
  <2> QED BY <2>1 DEF Executing
<1>ended. ASSUME pc[t] \in Executing, Emit(end), RecordOutput(t) PROVE ItemInv'
  <2>1. pc[t] \in Calling
    BY <1>ended DEF Executing, Calling
  <2>2. end \in Event /\ Closes(end) /\ end.call = c /\ c \in Calls /\ Kept(events, {<<t, c>>}, Over)
    BY <1>2, <1>c, <1>ended, <2>1
  <2>3. Kept(Append(events, end), {}, Over)
    BY <1>0, <2>2, KeptClosing
  <2> QED BY <1>out, <1>goes, <1>ended, <2>1, <2>3 DEF Emit
<1>4. CASE TurnStart(t)
  <2>1. pc[t] \notin Executing
    BY <1>4 DEF TurnStart, Resume, Executing
  <2>2. pc'[t] \notin Executing
    BY <1>0, <1>4 DEF TurnStart, StepBoundary, Go, Executing
  <2>3. CASE Emit(Ev(t, "TaskStarted"))
    BY <1>one, <2>1, <2>2, <2>3
  <2>4. CASE /\ Go(t, "done")
             /\ events' = Append(Append(Append(events, Ev(t, "TaskStarted")), Ev(t, "ErrorEvent")), Ev(t, "TaskComplete"))
    <3>1. PICK start, full : start = Ev(t, "TaskStarted") /\ full = Ev(t, "TaskComplete")
      OBVIOUS
    <3>2. /\ start \in Event /\ ~Opens(start) /\ ~Closes(start) /\ start.msg # "TaskComplete"
          /\ full \in Event /\ full.msg = "TaskComplete" /\ full.sub = t
      BY <3>1, ItemEvents
    <3>3. PICK a, b : a = Append(events, start) /\ b = Append(a, err)
      OBVIOUS
    <3>4. a \in Seq(Event) /\ b \in Seq(Event)
      BY <1>0, <1>e, <3>2, <3>3, AppendProperties
    <3>5. Kept(a, {}, Over)
      BY <1>0, <1>2, <2>1, <3>2, <3>3, KeptAside
    <3>6. Kept(b, {}, Over)
      BY <1>e, <3>3, <3>4, <3>5, KeptAside
    <3>7. Kept(Append(b, full), {}, Over \cup {t})
      BY <1>2, <3>2, <3>4, <3>6, KeptCompletion
    <3>8. pc'[t] = "done" /\ events' = Append(b, full)
      BY <1>0, <1>1, <2>4, <3>1, <3>3 DEF Go
    <3> QED BY <1>3, <3>7, <3>8 DEF ItemInv, Executing
  <2> QED BY <1>4, <2>3, <2>4 DEF TurnStart
<1>5. CASE TurnCompacted(t)
  BY <1>0, <1>5, <1>one DEF TurnCompacted, Resume, Go, Executing
<1>6. CASE StreamCall(t)
  BY <1>0, <1>6, <1>quiet DEF StreamCall, Resume, Executing
<1>7. CASE StreamEnd(t)
  <2>1. pc[t] \notin Executing
    BY <1>7 DEF StreamEnd, Resume, Executing
  <2>2. pc'[t] \notin Executing
    BY <1>0, <1>7 DEF StreamEnd, StepBoundary, Go, Executing
  <2>3. CASE UNCHANGED events
    BY <1>quiet, <2>1, <2>2, <2>3
  <2>4. PICK full, diff : full = Ev(t, "TaskComplete") /\ diff = Ev(t, "TurnDiff")
    OBVIOUS
  <2>5. /\ full \in Event /\ full.msg = "TaskComplete" /\ full.sub = t
        /\ diff \in Event /\ ~Opens(diff) /\ ~Closes(diff) /\ diff.msg # "TaskComplete"
    BY <2>4, ItemEvents
  <2>6. ASSUME Go(t, "done"), NEW s \in Seq(Event), Kept(s, {}, Over), events' = Append(s, full) PROVE ItemInv'
    <3>1. Kept(Append(s, full), {}, Over \cup {t})
      BY <1>2, <2>5, <2>6, KeptCompletion
    <3>2. pc'[t] = "done"
      BY <1>0, <2>6 DEF Go
    <3> QED BY <1>3, <2>6, <3>1, <3>2 DEF ItemInv, Executing
  <2>7. Kept(events, {}, Over)
    BY <1>2, <2>1
  <2>8. CASE Go(t, "done") /\ Emit2(diff, full)
    <3>1. PICK s : s = Append(events, diff)
      OBVIOUS
    <3>2. s \in Seq(Event)
      BY <1>0, <2>5, <3>1, AppendProperties
    <3>3. Kept(s, {}, Over)
      BY <1>0, <2>5, <2>7, <3>1, KeptAside
    <3> QED BY <2>6, <2>8, <3>1, <3>2, <3>3 DEF Emit2
  <2>9. CASE Go(t, "done") /\ Emit(full)
    BY <1>0, <2>6, <2>7, <2>9 DEF Emit
  <2> QED BY <1>7, <2>3, <2>4, <2>8, <2>9 DEF StreamEnd
<1>8. CASE TurnCancelled(t)
  <2>1. pc'[t] = "done"
    BY <1>0, <1>8 DEF TurnCancelled, Go
  <2>2. CASE UNCHANGED events
    BY <1>2, <1>ends, <1>mine, <2>1, <2>2
  <2>3. CASE Emit(Ev(t, "TurnAborted"))
    <3>1. PICK e : e = Ev(t, "TurnAborted")
      OBVIOUS
    <3>2. e \in Event /\ ~Opens(e) /\ ~Closes(e) /\ e.msg # "TaskComplete"
      BY <3>1, ItemEvents
    <3>3. Kept(Append(events, e), Running, Over)
      BY <1>0, <1>2, <3>2, KeptAside
    <3> QED BY <1>ends, <1>mine, <2>1, <2>3, <3>1, <3>3 DEF Emit
  <2> QED BY <1>8, <2>2, <2>3 DEF TurnCancelled
<1>9. CASE TurnError(t)
  <2>1. CASE pc[t] \in Executing /\ Fail(t, <<end>>)
    <3>1. pc[t] \in Calling
      BY <2>1 DEF Executing, Calling
    <3>2. Kept(Append(events, end), {}, Over) /\ Append(events, end) \in Seq(Event)
      <4>1. end \in Event /\ Closes(end) /\ end.call = c /\ c \in Calls /\ Kept(events, {<<t, c>>}, Over)
        BY <1>2, <1>c, <2>1, <3>1
      <4>2. Append(events, end) \in Seq(Event)
        BY <1>0, <4>1, AppendProperties
      <4> QED BY <1>0, <4>1, <4>2, KeptClosing
    <3>3. Kept(Append(Append(events, end), err), {}, Over)
      BY <1>e, <3>2, KeptAside
    <3>4. pc'[t] = "done" /\ events' = Append(Append(events, end), err)
      BY <1>0, <1>1, <1>c, <2>1, <3>1, FailSays DEF Fail, Go
    <3> QED BY <1>ends, <3>3, <3>4
  <2> QED BY <1>1, <1>9, <1>fail, <2>1 DEF TurnError, Executing
<1>10. CASE DispatchInline(t) \/ McpDone(t)
  <2>1. pc[t] \in {"dispatch", "mcp"} /\ RecordOutput(t) /\ UNCHANGED events
    BY <1>10 DEF DispatchInline, McpDone, Resume
  <2> QED BY <1>out, <1>quiet, <2>1 DEF Executing, Calling
<1>11. CASE DispatchMcp(t)
  BY <1>0, <1>11, <1>quiet DEF DispatchMcp, Go, Executing
<1>12. CASE DispatchExec(t)
  <2>1. pc[t] = "dispatch" /\ todo' = todo /\ pc[t] \in Calling /\ pc[t] \notin Executing
    BY <1>12 DEF DispatchExec, Calling, Executing
  <2>2. CASE Ask(t, "ask")
    <3>1. Kept(Append(events, ask), {}, Over)
      BY <1>0, <1>2, <1>c, <2>1, KeptAside
    <3>2. events' = Append(events, ask) /\ pc'[t] \notin Executing
      BY <1>0, <1>1, <2>2 DEF Ask, Emit, Go, Executing
    <3> QED BY <1>goes, <3>1, <3>2
  <2>3. ASSUME NEW m \in {"BeginSandboxed", "BeginUnsandboxed"}, NEW phase \in Executing, Emit(CallEv(t, m, c)), Go(t, phase)
        PROVE  ItemInv'
    <3>1. PICK e : e = CallEv(t, m, c)
      OBVIOUS
    <3>2. e \in Event /\ Opens(e) /\ e.sub = t /\ e.call = c /\ c \in Calls
      BY <1>c, <2>1, <3>1, ItemEvents
    <3>3. Kept(Append(events, e), {<<t, c>>}, Over)
      BY <1>0, <1>2, <2>1, <3>2, KeptOpening
    <3>4. pc'[t] \in Executing /\ pc'[t] # "done" /\ Head(todo'[t]) = c
      BY <1>0, <1>1, <2>1, <2>3 DEF Go, Executing
    <3> QED BY <1>3, <2>3, <3>1, <3>3, <3>4 DEF Emit, ItemInv
  <2> QED BY <1>1, <1>12, <2>2, <2>3 DEF DispatchExec, Executing
<1>13. CASE ExecDone(t)
  <2>1. pc[t] \in Executing /\ Emit(end) /\ RecordOutput(t)
    BY <1>1, <1>13 DEF ExecDone, Resume, Executing
  <2> QED BY <1>ended, <2>1
<1>14. CASE ExecDenied(t)
  <2>1. pc[t] \in Executing /\ pc[t] \in Calling
    BY <1>14 DEF ExecDenied, Resume, Executing, Calling
  <2>2. CASE Emit(end) /\ RecordOutput(t)
    BY <1>ended, <2>1, <2>2
  <2>3. CASE Ask(t, "askEscalate")
    <3>1. Kept(events, {<<t, c>>}, Over) /\ c \in Calls /\ ask \in Event
      BY <1>2, <1>c, <2>1
    <3>2. Kept(Append(events, ask), {}, Over)
      BY <1>0, <1>1, <3>1, KeptAsking
    <3>3. events' = Append(events, ask) /\ pc'[t] \notin Executing
      BY <1>0, <1>1, <2>3 DEF Ask, Emit, Go, Executing
    <3> QED BY <1>goes, <3>2, <3>3
  <2> QED BY <1>1, <1>14, <2>2, <2>3 DEF ExecDenied
<1>15. CASE Decided(t)
  <2>1. pc[t] \in Calling /\ pc[t] \notin Executing /\ c \in Calls
    BY <1>15, <1>c DEF Decided, Resume, Calling, Executing
  <2>2. CASE RecordOutput(t) /\ UNCHANGED events
    BY <1>out, <1>quiet, <2>1, <2>2
  <2>3. PICK begin, a, b : begin = CallEv(t, "BeginUnsandboxed", c) /\ a = Append(events, begin) /\ b = Append(a, end)
    OBVIOUS
  <2>4. begin \in Event /\ Opens(begin) /\ begin.sub = t /\ begin.call = c
    BY <2>1, <2>3, ItemEvents
  <2>5. a \in Seq(Event) /\ b \in Seq(Event)
    BY <1>0, <1>c, <2>1, <2>3, <2>4, AppendProperties
  <2>6. Kept(a, {<<t, c>>}, Over)
    BY <1>0, <1>2, <2>1, <2>3, <2>4, KeptOpening
  <2>7. Kept(b, {}, Over)
    BY <1>c, <2>1, <2>3, <2>5, <2>6, KeptClosing
  <2>8. CASE Emit2(begin, end) /\ RecordOutput(t)
    BY <1>out, <1>goes, <2>1, <2>3, <2>7, <2>8 DEF Emit2
  <2>9. CASE Fail(t, <<begin>>)
    <3>1. Kept(Append(a, err), {<<t, c>>}, Over)
      BY <1>e, <2>5, <2>6, KeptAside
    <3>2. pc'[t] = "done" /\ events' = Append(a, err)
      BY <1>0, <1>1, <2>3, <2>4, <2>9, FailSays DEF Fail, Go
    <3>3. \A p \in {<<t, c>>} : p[1] = t
      OBVIOUS
    <3> QED BY <1>ends, <3>1, <3>2, <3>3
  <2>10. CASE Fail(t, <<begin, end>>)
    <3>1. Kept(Append(b, err), {}, Over)
      BY <1>e, <2>5, <2>7, KeptAside
    <3>2. pc'[t] = "done" /\ events' = Append(b, err)
      <4>1. begin \in Event /\ end \in Event
        BY <1>c, <2>1, <2>4
      <4>2. events' = Append(Append(Append(events, begin), end), Ev(t, "ErrorEvent"))
        BY <2>10, <4>1, FailSays
      <4>3. pc'[t] = "done"
        BY <1>0, <2>10 DEF Fail, Go
      <4> QED BY <1>1, <2>3, <4>2, <4>3
    <3> QED BY <1>ends, <3>1, <3>2
  <2> QED BY <1>1, <1>15, <1>fail, <2>2, <2>3, <2>8, <2>9, <2>10 DEF Decided
<1>16. CASE AppendFails(t)
  BY <1>16, BreakKeeps
<1> QED BY <1>4, <1>5, <1>6, <1>7, <1>8, <1>9, <1>10, <1>11, <1>12, <1>13, <1>14, <1>15, <1>16 DEF TurnStep

\* The submission loop says what is no item's, and completes no turn.
LEMMA LoopSays ==
  ASSUME Typed, LoopStep
  PROVE  \/ UNCHANGED events
         \/ \E e \in Event : Emit(e) /\ ~Opens(e) /\ ~Closes(e) /\ e.msg # "TaskComplete"
<1>1. ASSUME NEW id \in 0 .. MaxSubs,
             NEW m \in {"BackgroundNotice", "ErrorEvent", "TurnAborted", "ShutdownComplete", "ContextCompacted"},
             Emit(Ev(id, m))
      PROVE  \E e \in Event : Emit(e) /\ ~Opens(e) /\ ~Closes(e) /\ e.msg # "TaskComplete"
  <2>1. Ev(id, m) \in Event
    <3>1. m \in Kinds
      BY DEF Kinds, Terminal
    <3>2. 0 \in 0 .. MaxCalls
      BY BoundsAssumption
    <3> QED BY <3>1, <3>2 DEF Ev, Event
  <2>2. Ev(id, m).msg = m
    BY DEF Ev
  <2> QED BY <1>1, <2>1, <2>2 DEF Opens, Closes
<1>2. loopSub \in 0 .. MaxSubs /\ 0 \in 0 .. MaxSubs
  <2>1. loopSub \in 0 .. MaxSubs
    BY DEF Typed, TypeOK
  <2>2. 0 \in 0 .. MaxSubs
    BY BoundsAssumption
  <2> QED BY <2>1, <2>2
<1>3. \A op : Receive(op) /\ op # "ExecApproval" => Head(submissions).id \in 0 .. MaxSubs
  BY ReceiveTyped DEF Typed
<1>4. CASE LoopUserTurn
  BY <1>1, <1>3, <1>4 DEF LoopUserTurn
<1>5. CASE LoopExecApproval
  BY <1>1, <1>2, <1>5 DEF LoopExecApproval
<1>6. CASE LoopInterrupt \/ LoopShutdown
  BY <1>1, <1>3, <1>6 DEF LoopInterrupt, LoopShutdown
<1>7. CASE LoopCompact \/ LoopCompactRaises
  BY <1>7 DEF LoopCompact, LoopCompactRaises
<1>8. CASE LoopCompactDone
  BY <1>1, <1>2, <1>8 DEF LoopCompactDone
<1> QED BY <1>4, <1>5, <1>6, <1>7, <1>8 DEF LoopStep

LEMMA OthersKeep ==
  ASSUME IndInv, SteerInv, StoryInv, ItemInv, OthersStep
  PROVE  ItemInv'
<1>1. Hears /\ Numbering /\ Apart /\ Typed
  BY OthersHear DEF IndInv, StoryInv
<1>2. Running' = Running /\ Over' = Over
  <2>1. todo' = todo
    BY <1>1 DEF Hears
  <2>2. CASE pc' = pc
    BY <2>1, <2>2 DEF Running, Over
  <2>3. ASSUME NEW h \in Ids, Newest(h), pc' = [pc EXCEPT ![h] = "created"]
        PROVE  Running' = Running /\ Over' = Over
    <3>1. pc[h] = "none"
      BY <1>1, <2>3, ComingUnknown DEF Newest, Unknown
    <3>2. pc'[h] = "created" /\ \A u \in Ids \ {h} : pc'[u] = pc[u]
      BY <1>1, <2>3 DEF Typed, TypeOK
    <3>3. { u \in Ids : pc'[u] \in Executing } = { u \in Ids : pc[u] \in Executing }
      BY <3>1, <3>2 DEF Executing
    <3>4. Over' = Over
      BY <3>1, <3>2 DEF Over
    <3> QED BY <2>1, <3>3, <3>4 DEF Running
  <2> QED BY <1>1, <2>2, <2>3 DEF Hears
<1>3. CASE UNCHANGED events
  BY <1>2, <1>3 DEF ItemInv
<1>4. ASSUME NEW e \in Event, Emit(e), ~Opens(e), ~Closes(e), e.msg # "TaskComplete" PROVE ItemInv'
  <2>1. Kept(Append(events, e), Running, Over)
    BY <1>1, <1>4, KeptAside DEF ItemInv, Typed, TypeOK
  <2> QED BY <1>2, <1>4, <2>1 DEF ItemInv, Emit
<1>5. \/ UNCHANGED events
      \/ \E e \in Event : Emit(e) /\ ~Opens(e) /\ ~Closes(e) /\ e.msg # "TaskComplete"
  <2>1. CASE LoopStep
    BY <1>1, <2>1, LoopSays
  <2>2. CASE ~LoopStep
    BY <2>2 DEF OthersStep, Submit, Render, AnswerApproval, vars
  <2> QED BY <2>1, <2>2
<1> QED BY <1>3, <1>4, <1>5

\* The public lines balance at every moment: the item of the command that runs is open under its own number,
\* and every other item has completed, was asked about or is of a turn that is over.
THEOREM ItemsInductive == Spec => []ItemInv
<1>1. ASSUME Init PROVE ItemInv
  <2>1. events = <<>> /\ (\A t \in Ids : pc[t] = "none") /\ <<>> \in Seq(Event)
    BY <1>1, EmptySeq DEF Init
  <2>2. PICK lines, open : lines = <<>> /\ open = [c \in Calls |-> Absent]
    OBVIOUS
  <2>3. NewWriter = [next |-> 0, open |-> open, lines |-> lines] /\ open \in [Calls -> OpenItem]
    BY <2>2 DEF NewWriter, OpenItem
  <2>4. lines \in Seq(LineRec) /\ DOMAIN lines = {} /\ \A type : LinesOf(lines, type) = {}
    <3>1. lines \in Seq(LineRec) /\ Len(lines) = 0
      BY <2>2, EmptySeq
    <3>2. DOMAIN lines = {}
      BY <3>1, LenProperties
    <3> QED BY <3>1, <3>2 DEF LinesOf
  <2>5. PICK none : none = {}
    OBVIOUS
  <2>6. /\ Dated(lines, <<>>) /\ Numbers(lines, 0) /\ Tracks(lines, open, none)
        /\ Balance(lines, open, <<>>, none, none) /\ Completed(lines, <<>>, none)
    BY <2>4, <2>5 DEF Dated, Numbers, Tracks, Balance, Completed
  <2>7. Kept(<<>>, none, none)
    BY <2>3, <2>4, <2>6, NothingWritten, KeptLedger
  <2>8. Running = none /\ Over = none
    BY <2>1, <2>5 DEF Running, Over, Executing
  <2> QED BY <2>1, <2>7, <2>8 DEF ItemInv
<1>2. IndInv /\ SteerInv /\ StoryInv /\ ItemInv /\ [Next]_vars => ItemInv'
  <2> SUFFICES ASSUME IndInv, SteerInv, StoryInv, ItemInv, [Next]_vars PROVE ItemInv'
    OBVIOUS
  <2>1. ASSUME NEW t \in Ids, TurnStep(t) PROVE ItemInv'
    BY <2>1, TurnKeeps DEF IndInv
  <2>2. CASE OthersStep
    BY <2>2, OthersKeep
  <2> QED BY <2>1, <2>2 DEF Next, OthersStep
<1> QED BY <1>1, <1>2, Inductive, SteeringInductive, StoryInductive, PTL DEF Spec

\* Whoever reads the lines of `codex exec --json' can pair them: an item is started once, completed at most
\* once and after that, and with its turn unless its command was asked about (ThreadEventWriter.translate).
THEOREM ItemsAreCompleted == Spec => []ItemsComplete
<1>1. ASSUME TypeOK, ItemInv PROVE ItemsComplete
  <2>1. PICK w : Wrote(w, events) /\ Balanced(w, events, Running, Over)
    BY <1>1 DEF ItemInv, Kept
  <2>2. PICK lines : lines = w.lines
    OBVIOUS
  <2>3. Printed = lines
    BY <1>1, <2>1, <2>2, PrintedIsWritten DEF TypeOK
  <2>4. Numbers(lines, w.next) /\ Completed(lines, events, Over)
    BY <2>1, <2>2 DEF Balanced
  <2>5. ASSUME NEW k \in LinesOf(lines, "turn.completed"), NEW i \in LinesOf(lines, "item.started"),
               events[lines[i].at].sub = events[lines[k].at].sub
        PROVE  \/ \E j \in LinesOf(lines, "item.completed") : lines[i].id = lines[j].id /\ j < k
               \/ \E n \in lines[i].at .. lines[k].at :
                    events[n] = CallEv(events[lines[i].at].sub, "ExecApprovalRequest", events[lines[i].at].call)
    BY <2>4, <2>5 DEF Completed, SettledBefore, AskedSince
  <2> QED BY <2>3, <2>4, <2>5 DEF ItemsComplete, Numbers, LinesOf
<1>2. TypeOK /\ ItemInv => ItemsComplete
  BY <1>1
<1> QED BY <1>2, ItemsInductive, TypeCorrect, PTL
=============================================================================
