--------------------------- MODULE ChapterProofs ---------------------------
(* The four chapters.  That the thread of s02 implements module Steering, for *)
(* any number of turns and calls: every step is one of Steering's, or none    *)
(* that Steering sees.  That in s08 a command leaves the sandbox by the       *)
(* user's word only.  That the model knows its turn's context (s03), and that *)
(* every call it makes is answered once (s04).                                *)
EXTENDS Chapters, SequenceLemmas, Functions, FiniteSetTheorems

(***************************************************************************)
(* s02 and s08: a queue and a task per turn                                *)
(***************************************************************************)
Phases == {"none", "created", "streaming", "tools", "done"}
Begun  == {"streaming", "tools"}
Live   == Begun \cup {"created"}

TypeOK ==
  /\ submissions \in Seq([op : {"UserTurn", "Interrupt", "Shutdown"}, id : Queues!Ids \cup {Queues!Mark}])
  /\ sent \in 0 .. MaxSubs
  /\ newest \in Queues!Ids \cup {Queues!Mark}
  /\ phases \in [Queues!Ids -> Phases]
  /\ cancelled \subseteq Queues!Ids
  /\ pending \in Seq(Queues!Ids) /\ said \in Seq(Queues!Ids \cup {Queues!Mark})

\* The messages that the thread knows nothing of yet.
Unheard == { t \in Queues!Ids : phases[t] = "none" /\ t \notin Queues!Range(pending) /\ t \notin Queues!Range(said) }

\* What waits in the queue is known to nobody, and is there once; so is what has not been sent.
Numbered ==
  /\ \A i \in 1 .. Len(submissions) : submissions[i].op = "UserTurn" =>
       submissions[i].id \in 1 .. sent /\ submissions[i].id \in Unheard
  /\ \A i, j \in 1 .. Len(submissions) :
       /\ submissions[i].op = "UserTurn" /\ submissions[j].op = "UserTurn"
       /\ submissions[i].id = submissions[j].id
       => i = j
  /\ \A t \in Queues!Ids : t > sent => t \in Unheard

\* A message that steers waits once, has not been said, and opens no turn.
Queued ==
  /\ IsInjective(pending)
  /\ \A t \in Queues!Range(pending) : phases[t] = "none" /\ t \notin Queues!Range(said)

\* Only the active turn is alive, it alone can be cancelled, and it has said its message once it has begun.
Placed ==
  /\ \A t \in Queues!Ids : phases[t] \in Live => t = newest
  /\ \A t \in cancelled : phases[t] \in Live
  /\ \A t \in Queues!Ids : phases[t] = "created" => t \notin Queues!Range(said)
  /\ \A t \in Queues!Ids : phases[t] \in Begun => t \in Queues!Range(said)
  /\ newest # Queues!Mark => phases[newest] # "none"

IInv == TypeOK /\ Numbered /\ Queued /\ Placed

-----------------------------------------------------------------------------
(* Sequences in which nothing is twice.                                    *)

LEMMA SameRange == ASSUME NEW s PROVE Queues!Range(s) = Range(s)
  BY DEF Queues!Range, Range

LEMMA RangeAppend ==
  ASSUME NEW S, NEW s \in Seq(S), NEW x \in S
  PROVE  Queues!Range(Append(s, x)) = Queues!Range(s) \cup {x}
<1> DEFINE one == <<x>>
<1>1. one \in Seq(S) /\ Queues!Range(one) = {x} /\ Append(s, x) = s \o one
  BY AppendIsConcat DEF Queues!Range
<1> HIDE DEF one
<1>2. Queues!Range(s \o one) = Queues!Range(s) \cup Queues!Range(one)
  BY <1>1, RangeConcatenation, SameRange
<1> QED BY <1>1, <1>2

LEMMA AppendInjection ==
  ASSUME NEW S, NEW s \in Seq(S), NEW x \in S, IsInjective(s), x \notin Queues!Range(s)
  PROVE  IsInjective(Append(s, x))
  BY AppendProperties DEF IsInjective, Queues!Range

\* The same, from the other end.
LEMMA ConsInjection ==
  ASSUME NEW S, NEW s \in Seq(S), NEW x \in S, IsInjective(s), x \notin Queues!Range(s)
  PROVE  /\ <<x>> \o s \in Seq(S) /\ <<x>> \o s # <<>>
         /\ IsInjective(<<x>> \o s)
         /\ Queues!Range(<<x>> \o s) = {x} \cup Queues!Range(s)
<1> DEFINE one == <<x>>
<1>1. one \in Seq(S) /\ Len(one) = 1 /\ one[1] = x /\ Queues!Range(one) = {x}
  BY DEF Queues!Range
<1> HIDE DEF one
<1>2. /\ one \o s \in Seq(S) /\ Len(one \o s) = 1 + Len(s) /\ Len(s) \in Nat
      /\ \A i \in 1 .. 1 + Len(s) : (one \o s)[i] = IF i <= 1 THEN one[i] ELSE s[i - 1]
  <2>1. /\ one \o s \in Seq(S) /\ Len(one \o s) = Len(one) + Len(s)
        /\ \A i \in 1 .. Len(one) + Len(s) : (one \o s)[i] = IF i <= Len(one) THEN one[i] ELSE s[i - Len(one)]
    BY <1>1, ConcatProperties
  <2> QED BY <1>1, <2>1
<1>3. Queues!Range(one \o s) = Queues!Range(one) \cup Queues!Range(s)
  BY <1>1, RangeConcatenation, SameRange
<1>4. IsInjective(one \o s)
  BY <1>1, <1>2 DEF IsInjective, Queues!Range
<1>5. one \o s # <<>>
  BY <1>2
<1> QED BY <1>1, <1>2, <1>3, <1>4, <1>5 DEF one

LEMMA EmptyRange == Queues!Range(<<>>) = {} /\ IsInjective(<<>>)
  BY DEF Queues!Range, IsInjective

-----------------------------------------------------------------------------
\* Steering has copies of these two operators.
LEMMA SameOperators ==
  ASSUME NEW s
  PROVE  Queues!Thread!Range(s) = Queues!Range(s) /\ (Queues!Thread!IsInjective(s) <=> IsInjective(s))
  BY DEF Queues!Thread!Range, Queues!Range, Queues!Thread!IsInjective, IsInjective

-----------------------------------------------------------------------------
(* The invariant.                                                          *)

LEMMA InvariantStarts == ASSUME MaxSubs \in Nat PROVE Queues!Init => IInv
  BY EmptyRange DEF Queues!Init, IInv, TypeOK, Numbered, Queued, Placed, Unheard, Queues!Ids, Queues!Mark, Phases, Live, Begun

LEMMA SubmitTurnKeeps == ASSUME MaxSubs \in Nat, IInv, Queues!SubmitTurn PROVE IInv'
<1> DEFINE new == [op |-> "UserTurn", id |-> sent + 1]
<1>1. /\ new \in [op : {"UserTurn", "Interrupt", "Shutdown"}, id : Queues!Ids \cup {Queues!Mark}]
      /\ new.op = "UserTurn" /\ new.id = sent + 1 /\ sent + 1 \in Queues!Ids
      /\ submissions' = Append(submissions, new) /\ sent' = sent + 1 /\ sent \in Nat
  BY DEF Queues!SubmitTurn, IInv, TypeOK, Queues!Ids
<1> HIDE DEF new
<1>2. /\ submissions' \in Seq([op : {"UserTurn", "Interrupt", "Shutdown"}, id : Queues!Ids \cup {Queues!Mark}])
      /\ Len(submissions') = Len(submissions) + 1 /\ Len(submissions) \in Nat
      /\ \A i \in 1 .. Len(submissions) : submissions'[i] = submissions[i]
      /\ submissions'[Len(submissions) + 1] = new
  BY <1>1, AppendProperties DEF IInv, TypeOK
<1>3. UNCHANGED <<newest, phases, cancelled, pending, said>>
  BY DEF Queues!SubmitTurn
<1>4. TypeOK'
  BY <1>1, <1>2, <1>3 DEF IInv, TypeOK, Queues!Ids
<1>5. Unheard' = Unheard
  BY <1>3 DEF Unheard
<1>6. Numbered'
  <2>1. /\ sent + 1 \in Unheard /\ \A t \in Queues!Ids : t > sent + 1 => t \in Unheard
    BY <1>1 DEF IInv, Numbered, Queues!Ids
  <2>2. \A i \in 1 .. Len(submissions) : submissions[i].op = "UserTurn" =>
          submissions[i].id \in 1 .. sent /\ submissions[i].id # sent + 1 /\ submissions[i].id \in Unheard
    BY <1>1 DEF IInv, Numbered
  <2>3. \A i \in 1 .. Len(submissions') : i \in 1 .. Len(submissions) \/ i = Len(submissions) + 1
    BY <1>2
  <2>4. ASSUME NEW i \in 1 .. Len(submissions'), submissions'[i].op = "UserTurn"
        PROVE  submissions'[i].id \in 1 .. sent + 1 /\ submissions'[i].id \in Unheard
    <3>1. CASE i \in 1 .. Len(submissions)
      BY <1>1, <1>2, <2>2, <2>4, <3>1
    <3>2. CASE i = Len(submissions) + 1
      BY <1>1, <1>2, <2>1, <3>2
    <3> QED BY <2>3, <3>1, <3>2
  <2>5. ASSUME NEW i \in 1 .. Len(submissions'), NEW j \in 1 .. Len(submissions'),
               submissions'[i].op = "UserTurn", submissions'[j].op = "UserTurn",
               submissions'[i].id = submissions'[j].id
        PROVE  i = j
    <3>1. CASE i \in 1 .. Len(submissions) /\ j \in 1 .. Len(submissions)
      BY <1>2, <2>5, <3>1 DEF IInv, Numbered
    <3>2. \A k \in 1 .. Len(submissions') : submissions'[k].op = "UserTurn" =>
            (submissions'[k].id = sent + 1 <=> k = Len(submissions) + 1)
      BY <1>1, <1>2, <2>2, <2>3
    <3> QED BY <2>3, <2>5, <3>1, <3>2
  <2> QED BY <1>1, <1>5, <2>1, <2>4, <2>5 DEF Numbered
<1>7. Queued' /\ Placed'
  BY <1>3 DEF IInv, Queued, Placed
<1> QED BY <1>4, <1>6, <1>7 DEF IInv

LEMMA SubmitOpKeeps ==
  ASSUME MaxSubs \in Nat, IInv, NEW op \in {"Interrupt", "Shutdown"}, Queues!SubmitOp(op) PROVE IInv'
<1> DEFINE new == [op |-> op, id |-> Queues!Mark]
<1>1. /\ new \in [op : {"UserTurn", "Interrupt", "Shutdown"}, id : Queues!Ids \cup {Queues!Mark}]
      /\ new.op # "UserTurn" /\ submissions' = Append(submissions, new)
  BY DEF Queues!SubmitOp
<1> HIDE DEF new
<1>2. /\ submissions' \in Seq([op : {"UserTurn", "Interrupt", "Shutdown"}, id : Queues!Ids \cup {Queues!Mark}])
      /\ Len(submissions') = Len(submissions) + 1 /\ Len(submissions) \in Nat
      /\ \A i \in 1 .. Len(submissions) : submissions'[i] = submissions[i]
      /\ submissions'[Len(submissions) + 1] = new
  BY <1>1, AppendProperties DEF IInv, TypeOK
<1>3. UNCHANGED <<sent, newest, phases, cancelled, pending, said>>
  BY DEF Queues!SubmitOp
<1>4. TypeOK'
  BY <1>2, <1>3 DEF IInv, TypeOK
<1>5. Unheard' = Unheard
  BY <1>3 DEF Unheard
<1>6. Numbered'
  <2>1. \A i \in 1 .. Len(submissions') : submissions'[i].op = "UserTurn" =>
          i \in 1 .. Len(submissions) /\ submissions'[i] = submissions[i]
    BY <1>1, <1>2
  <2> QED BY <1>3, <1>5, <2>1 DEF IInv, Numbered
<1>7. Queued' /\ Placed'
  BY <1>3 DEF IInv, Queued, Placed
<1> QED BY <1>4, <1>6, <1>7 DEF IInv

\* The queue without its first entry.
LEMMA Received ==
  ASSUME IInv, NEW op, Queues!Receive(op)
  PROVE  /\ submissions' \in Seq([op : {"UserTurn", "Interrupt", "Shutdown"}, id : Queues!Ids \cup {Queues!Mark}])
         /\ Len(submissions') = Len(submissions) - 1 /\ Len(submissions) \in Nat \ {0}
         /\ \A i \in 1 .. Len(submissions') : submissions'[i] = submissions[i + 1]
         /\ Head(submissions) = submissions[1] /\ submissions[1].op = op
         /\ sent' = sent
  BY HeadTailProperties DEF IInv, TypeOK, Queues!Receive

\* The rest of the queue is still unknown once its first message is known.
LEMMA StillNumbered ==
  ASSUME MaxSubs \in Nat, IInv, NEW op, Queues!Receive(op),
         \/ Unheard' = Unheard
         \/ op = "UserTurn" /\ Unheard' = Unheard \ {Head(submissions).id}
  PROVE  Numbered'
<1>1. /\ Head(submissions) = submissions[1] /\ submissions[1].op = op /\ sent' = sent
      /\ 1 \in 1 .. Len(submissions)
      /\ \A i \in 1 .. Len(submissions') :
           i + 1 \in 1 .. Len(submissions) /\ i + 1 # 1 /\ submissions'[i] = submissions[i + 1]
  BY Received
<1>2. /\ \A i \in 1 .. Len(submissions) : submissions[i].op = "UserTurn" =>
           submissions[i].id \in 1 .. sent /\ submissions[i].id \in Unheard
      /\ \A i, j \in 1 .. Len(submissions) :
           /\ submissions[i].op = "UserTurn" /\ submissions[j].op = "UserTurn"
           /\ submissions[i].id = submissions[j].id
           => i = j
      /\ \A t \in Queues!Ids : t > sent => t \in Unheard
  BY DEF IInv, Numbered
<1>3. ASSUME NEW i \in 1 .. Len(submissions'), submissions'[i].op = "UserTurn"
      PROVE  submissions'[i].id \in 1 .. sent' /\ submissions'[i].id \in Unheard'
  <2>1. submissions[i + 1].id \in 1 .. sent /\ submissions[i + 1].id \in Unheard
    BY <1>1, <1>2, <1>3
  <2>2. op = "UserTurn" => submissions[i + 1].id # Head(submissions).id
    BY <1>1, <1>2, <1>3
  <2> QED BY <1>1, <2>1, <2>2
<1>4. ASSUME NEW i \in 1 .. Len(submissions'), NEW j \in 1 .. Len(submissions'),
             submissions'[i].op = "UserTurn", submissions'[j].op = "UserTurn",
             submissions'[i].id = submissions'[j].id
      PROVE  i = j
  <2>1. i + 1 = j + 1
    BY <1>1, <1>2, <1>4
  <2> QED BY <2>1
<1>5. ASSUME NEW t \in Queues!Ids, t > sent' PROVE t \in Unheard'
  <2>1. t \in Unheard /\ t \notin 1 .. sent
    BY <1>1, <1>2, <1>5 DEF IInv, TypeOK, Queues!Ids
  <2>2. op = "UserTurn" => Head(submissions).id \in 1 .. sent
    BY <1>1, <1>2
  <2> QED BY <2>1, <2>2
<1> QED BY <1>3, <1>4, <1>5 DEF Numbered

LEMMA CancelKeeps ==
  ASSUME MaxSubs \in Nat, IInv, NEW op, Queues!Receive(op), Queues!Cancel, UNCHANGED <<newest, phases, pending, said>>
  PROVE  IInv'
<1>1. Unheard' = Unheard
  BY DEF Unheard
<1>2. Numbered'
  BY <1>1, StillNumbered
<1>3. \A t \in cancelled' : t \in Queues!Ids /\ phases[t] \in Live
  BY DEF IInv, TypeOK, Placed, Queues!Cancel, Queues!TurnRunning, Live, Begun, Phases, Queues!Ids, Queues!Mark
<1>4. TypeOK'
  BY <1>3, Received DEF IInv, TypeOK
<1>5. Queued' /\ Placed'
  BY <1>3 DEF IInv, Queued, Placed
<1> QED BY <1>2, <1>4, <1>5 DEF IInv

\* A message that comes while a turn runs waits for it; any other opens a turn.
LEMMA LoopUserTurnKeeps == ASSUME MaxSubs \in Nat, IInv, Queues!LoopUserTurn PROVE IInv'
<1> DEFINE m == Head(submissions)
<1> DEFINE id == m.id
<1>1. Queues!Receive("UserTurn") /\ UNCHANGED <<listening, todo, cancelled, said>>
  BY DEF Queues!LoopUserTurn
<1>2. /\ m = submissions[1] /\ m.op = "UserTurn" /\ sent' = sent /\ 1 \in 1 .. Len(submissions)
      /\ submissions' \in Seq([op : {"UserTurn", "Interrupt", "Shutdown"}, id : Queues!Ids \cup {Queues!Mark}])
  <2>1. /\ submissions' \in Seq([op : {"UserTurn", "Interrupt", "Shutdown"}, id : Queues!Ids \cup {Queues!Mark}])
        /\ Len(submissions) \in Nat \ {0} /\ sent' = sent
        /\ Head(submissions) = submissions[1] /\ submissions[1].op = "UserTurn"
    BY <1>1, Received
  <2> QED BY <2>1
<1>3. id \in Unheard
  BY <1>2 DEF IInv, Numbered
<1>4. /\ id \in Queues!Ids /\ id # Queues!Mark /\ phases[id] = "none" /\ id \notin Queues!Range(pending) /\ id \notin Queues!Range(said)
  BY <1>3 DEF Unheard, Queues!Ids, Queues!Mark
<1>5. \/ /\ Queues!TurnRunning /\ pending' = Append(pending, id) /\ UNCHANGED <<newest, phases>>
      \/ /\ ~Queues!TurnRunning /\ newest' = id /\ phases' = [phases EXCEPT ![id] = "created"] /\ UNCHANGED pending
  BY DEF Queues!LoopUserTurn
<1> HIDE DEF m, id
<1>6. CASE Queues!TurnRunning /\ pending' = Append(pending, id) /\ UNCHANGED <<newest, phases>>
  <2>1. Queues!Range(pending') = Queues!Range(pending) \cup {id} /\ pending' \in Seq(Queues!Ids) /\ IsInjective(pending')
    BY <1>4, <1>6, RangeAppend, AppendInjection, AppendProperties DEF IInv, TypeOK, Queued
  <2>2. Unheard' = Unheard \ {id}
    BY <1>1, <1>6, <2>1 DEF Unheard
  <2>3. TypeOK'
    BY <1>1, <1>2, <1>6, <2>1 DEF IInv, TypeOK
  <2>4. Queued' /\ Placed'
    BY <1>1, <1>4, <1>6, <2>1 DEF IInv, Queued, Placed
  <2>5. Numbered'
    BY <1>1, <1>2, <2>2, StillNumbered DEF id, m
  <2> QED BY <2>3, <2>4, <2>5 DEF IInv
<1>7. CASE ~Queues!TurnRunning /\ newest' = id /\ phases' = [phases EXCEPT ![id] = "created"] /\ UNCHANGED pending
  <2>1. Unheard' = Unheard \ {id}
    BY <1>1, <1>4, <1>7 DEF Unheard, IInv, TypeOK
  <2>2. TypeOK'
    BY <1>1, <1>2, <1>4, <1>7 DEF IInv, TypeOK, Phases
  <2>3. \A t \in Queues!Ids : phases[t] \notin Live
    BY <1>7 DEF IInv, TypeOK, Placed, Queues!TurnRunning, Live, Begun, Queues!Ids, Queues!Mark
  <2>4. Queued'
    BY <1>1, <1>4, <1>7 DEF IInv, TypeOK, Queued
  <2>5. Placed'
    BY <1>1, <1>4, <1>7, <2>3 DEF IInv, TypeOK, Placed, Live, Begun, Queues!Mark
  <2>6. Numbered'
    BY <1>1, <1>2, <2>1, StillNumbered DEF id, m
  <2> QED BY <2>2, <2>4, <2>5, <2>6 DEF IInv
<1> QED BY <1>5, <1>6, <1>7

-----------------------------------------------------------------------------
(* The steps of a turn, and what Steering sees of them.                    *)

Waiting == Queues!Range(pending) \cup { t \in Queues!Ids : phases[t] = "created" }
Refused == { t \in Queues!Ids : phases[t] = "done" /\ t \notin Queues!Range(said) }
Open    == IF Queues!TurnRunning THEN newest ELSE Queues!Mark

LEMMA NumberedStays ==
  ASSUME IInv, UNCHANGED Queues!queueVars, Unheard' = Unheard PROVE Numbered'
  BY DEF IInv, Numbered, Queues!queueVars

\* While turn t is alive it is the open one, and only it may be waiting to begin.
LEMMA OpenIsAlive ==
  ASSUME MaxSubs \in Nat, IInv, NEW t \in Queues!Ids, phases[t] \in Live
  PROVE  /\ newest = t /\ Open = t /\ t # Queues!Mark /\ Queues!TurnRunning
         /\ \A u \in Queues!Ids : phases[u] = "created" => u = t
         /\ t \notin Queues!Range(pending)
<1>1. newest = t /\ t # Queues!Mark
  BY DEF IInv, Placed, Queues!Ids, Queues!Mark
<1>2. phases[t] # "done" /\ phases[t] # "none"
  BY DEF Live, Begun
<1>3. Queues!TurnRunning /\ Open = t
  BY <1>1, <1>2 DEF Queues!TurnRunning, Queues!Mark, Open
<1>4. \A u \in Queues!Ids : phases[u] = "created" => u = t
  BY <1>1 DEF IInv, Placed, Live
<1> QED BY <1>1, <1>2, <1>3, <1>4 DEF IInv, Queued

\* A step between two awaits that says nothing and ends nothing.
LEMMA WorksOn ==
  ASSUME MaxSubs \in Nat, IInv, NEW t \in Queues!Ids, phases[t] \in Begun, NEW next \in Begun,
         phases' = [phases EXCEPT ![t] = next], UNCHANGED <<Queues!queueVars, newest, cancelled, pending, said>>
  PROVE  IInv' /\ UNCHANGED Queues!Thread!vars
<1>1. /\ phases' \in [Queues!Ids -> Phases] /\ phases'[t] \in Begun
      /\ \A u \in Queues!Ids : phases'[u] # phases[u] => u = t
  BY DEF IInv, TypeOK, Begun, Phases
<1>2. Unheard' = Unheard
  BY <1>1 DEF Unheard, Begun
<1>3. TypeOK'
  BY <1>1 DEF IInv, TypeOK, Queues!queueVars
<1>4. Queued'
  BY <1>1 DEF IInv, Queued, Begun, TypeOK
<1>5. Placed'
  BY <1>1 DEF IInv, Placed, Live, Begun, TypeOK
<1>6. Waiting' = Waiting /\ Refused' = Refused
  BY <1>1 DEF Waiting, Refused, Begun
<1>7. Open' = Open
  BY <1>1, OpenIsAlive DEF Open, Queues!TurnRunning, Live, Begun
<1> QED BY <1>2, <1>3, <1>4, <1>5, <1>6, <1>7, NumberedStays
        DEF IInv, Queues!Thread!vars, Waiting, Refused, Open

\* A step boundary: the turn says what has been queued, after its own message if it had not begun.
LEMMA Speaks ==
  ASSUME MaxSubs \in Nat, IInv, NEW t \in Queues!Ids, NEW new,
         \/ phases[t] = "created" /\ new = <<t>> \o pending
         \/ phases[t] \in Begun /\ new = pending,
         said' = said \o new, pending' = <<>>, phases' = [phases EXCEPT ![t] = "streaming"],
         UNCHANGED <<Queues!queueVars, newest, cancelled>>
  PROVE  IInv' /\ (Queues!Thread!Say \/ UNCHANGED Queues!Thread!vars)
<1>0. /\ pending \in Seq(Queues!Ids) /\ said \in Seq(Queues!Ids \cup {Queues!Mark}) /\ phases \in [Queues!Ids -> Phases] /\ phases[t] \in Live
      /\ IsInjective(pending)
  BY DEF IInv, TypeOK, Queued, Live
<1>1. /\ newest = t /\ Open = t /\ t # Queues!Mark /\ Queues!TurnRunning /\ t \notin Queues!Range(pending)
      /\ \A u \in Queues!Ids : phases[u] = "created" => u = t
  BY <1>0, OpenIsAlive
<1>2. new \in Seq(Queues!Ids) /\ IsInjective(new) /\ Queues!Range(new) = Waiting
  <2>1. CASE phases[t] = "created" /\ new = <<t>> \o pending
    <3>1. Waiting = {t} \cup Queues!Range(pending)
      BY <1>1, <2>1 DEF Waiting
    <3> QED BY <1>0, <1>1, <2>1, <3>1, ConsInjection
  <2>2. CASE phases[t] \in Begun /\ new = pending
    BY <1>0, <1>1, <2>2 DEF Waiting, Begun
  <2> QED BY <2>1, <2>2
<1>3. new \in Seq(Queues!Ids \cup {Queues!Mark})
  BY <1>2
<1>4. said' \in Seq(Queues!Ids \cup {Queues!Mark}) /\ Queues!Range(said') = Queues!Range(said) \cup Waiting
  BY <1>0, <1>2, <1>3, ConcatProperties, RangeConcatenation, SameRange
<1>5. t \in Queues!Range(said')
  BY <1>4 DEF IInv, Placed, Waiting, Begun
<1>6. /\ phases' \in [Queues!Ids -> Phases] /\ phases'[t] = "streaming"
      /\ \A u \in Queues!Ids : u # t => phases'[u] = phases[u]
  BY <1>0 DEF Phases
<1>7. Queues!Range(pending') = {} /\ IsInjective(pending') /\ pending' \in Seq(Queues!Ids)
  BY EmptyRange
<1>8. IInv'
  <2>1. \A u \in Queues!Ids : u \in Waiting => u = t \/ u \in Queues!Range(pending)
    BY <1>1 DEF Waiting
  <2>2. Unheard' = Unheard
    BY <1>0, <1>1, <1>4, <1>6, <1>7, <2>1 DEF Unheard, Live, Begun, Waiting
  <2>3. TypeOK'
    BY <1>4, <1>6, <1>7 DEF IInv, TypeOK, Queues!queueVars
  <2>4. Placed'
    BY <1>0, <1>1, <1>4, <1>5, <1>6 DEF IInv, TypeOK, Placed, Live, Begun
  <2> QED BY <1>7, <2>2, <2>3, <2>4, NumberedStays DEF IInv, Queued
<1>9. Waiting' = {}
  BY <1>1, <1>6, <1>7 DEF Waiting
<1>10. Refused' = Refused
  <2>1. \A u \in Queues!Ids : u \in Waiting => phases[u] # "done"
    BY DEF Waiting, IInv, TypeOK, Queued
  <2> QED BY <1>0, <1>4, <1>6, <2>1 DEF Refused, Live, Begun
<1>11. Open' = t
  BY <1>1, <1>6 DEF Open, Queues!TurnRunning
<1>12. CASE new = <<>>
  <2>1. said' = said
    BY <1>0, <1>12, ConcatEmptySeq
  <2>2. Waiting = {}
    BY <1>2, <1>12, EmptyRange
  <2> QED BY <1>1, <1>8, <1>9, <1>10, <1>11, <2>1, <2>2 DEF Queues!Thread!vars, Waiting, Refused, Open
<1>13. CASE new # <<>>
  <2>1. /\ Len(said') = Len(said) + Len(new) /\ Len(said) \in Nat /\ Len(new) \in Nat \ {0}
    BY <1>0, <1>3, <1>13, ConcatProperties, EmptySeq
  <2>2. SubSeq(said', Len(said) + 1, Len(said')) = new
    <3>1. SubSeq(said', Len(said) + 1, Len(said')) = SubSeq(new, Len(said) + 1 - Len(said), Len(said') - Len(said))
      BY <1>0, <1>3, <2>1, SubSeqOfConcat2
    <3>2. Len(said) + 1 - Len(said) = 1 /\ Len(said') - Len(said) = Len(new)
      BY <2>1
    <3> QED BY <1>3, <3>1, <3>2, SubSeqFull
  <2>3. /\ Queues!Thread!Range(new) = Waiting /\ Queues!Thread!IsInjective(new) /\ t \in Queues!Thread!Range(said')
    BY <1>2, <1>5, SameOperators
  <2>4. Len(said') > Len(said)
    BY <2>1
  <2>5. Waiting' = Waiting \ Waiting
    BY <1>9
  <2>6. Queues!Thread!Say
    BY <1>1, <1>10, <1>11, <2>2, <2>3, <2>4, <2>5 DEF Queues!Thread!Say, Waiting, Refused, Open
  <2> QED BY <1>8, <2>6
<1> QED BY <1>12, <1>13

\* A turn ends: completed, failed, or cancelled, with a note if it had begun.
LEMMA Ends ==
  ASSUME MaxSubs \in Nat, IInv, NEW t \in Queues!Ids, phases[t] \in Live,
         phases' = [phases EXCEPT ![t] = "done"], cancelled' = cancelled \ {t},
         \/ said' = said
         \/ phases[t] \in Begun /\ said' = Append(said, Queues!Mark),
         UNCHANGED <<Queues!queueVars, newest, pending>>
  PROVE  IInv' /\ (Queues!Thread!Close \/ Queues!Thread!Refuse)
<1>0. said \in Seq(Queues!Ids \cup {Queues!Mark}) /\ phases \in [Queues!Ids -> Phases] /\ pending \in Seq(Queues!Ids)
  BY DEF IInv, TypeOK
<1>1. /\ newest = t /\ Open = t /\ t # Queues!Mark /\ Queues!TurnRunning /\ t \notin Queues!Range(pending)
      /\ \A u \in Queues!Ids : phases[u] = "created" => u = t
  BY OpenIsAlive
<1>2. said' \in Seq(Queues!Ids \cup {Queues!Mark}) /\ \A u \in Queues!Ids : u \in Queues!Range(said') <=> u \in Queues!Range(said)
  <2>1. CASE said' = said
    BY <1>0, <2>1
  <2>2. CASE said' = Append(said, Queues!Mark)
    <3>1. Queues!Range(said') = Queues!Range(said) \cup {Queues!Mark}
      BY <1>0, <2>2, RangeAppend
    <3>2. Queues!Mark \notin Queues!Ids
      BY DEF Queues!Mark, Queues!Ids
    <3> QED BY <1>0, <2>2, <3>1, <3>2, AppendProperties
  <2> QED BY <2>1, <2>2
<1>3. /\ phases' \in [Queues!Ids -> Phases] /\ phases'[t] = "done"
      /\ \A u \in Queues!Ids : u # t => phases'[u] = phases[u]
  BY <1>0 DEF Phases
<1>4. IInv'
  <2>1. Unheard' = Unheard
    BY <1>2, <1>3 DEF Unheard, Live, Begun
  <2>2. TypeOK'
    BY <1>2, <1>3 DEF IInv, TypeOK, Queues!queueVars
  <2>3. Queued'
    <3>1. \A u \in Queues!Range(pending) : u \in Queues!Ids
      BY <1>0, RangeOfSeq, SameRange
    <3> QED BY <1>1, <1>2, <1>3, <3>1 DEF IInv, Queued
  <2>4. Placed'
    BY <1>1, <1>2, <1>3 DEF IInv, TypeOK, Placed, Live, Begun
  <2> QED BY <2>1, <2>2, <2>3, <2>4, NumberedStays DEF IInv
<1>5. Open' = Queues!Mark
  BY <1>1, <1>3 DEF Open, Queues!TurnRunning
<1>6. Waiting' = Waiting \ {t}
  BY <1>1, <1>3 DEF Waiting
<1>7. CASE phases[t] = "created"
  <2>1. said' = said /\ t \notin Queues!Range(said) /\ t \in Waiting
    BY <1>7 DEF Begun, IInv, Placed, Waiting
  <2>2. Refused' = Refused \cup {t}
    BY <1>2, <1>3, <2>1 DEF Refused
  <2>3. Queues!Thread!Refuse
    BY <1>1, <1>5, <1>6, <2>1, <2>2 DEF Queues!Thread!Refuse, Waiting, Refused, Open
  <2> QED BY <1>4, <2>3
<1>8. CASE phases[t] \in Begun
  <2>1. t \in Queues!Range(said) /\ t \notin Waiting
    BY <1>1, <1>8 DEF Begun, IInv, Placed, Waiting
  <2>2. Refused' = Refused /\ Waiting' = Waiting
    BY <1>2, <1>3, <1>6, <1>8, <2>1 DEF Refused, Begun
  <2>3. Queues!Thread!Close
    BY <1>1, <1>5, <2>1, <2>2 DEF Queues!Thread!Close, Waiting, Refused, Open
  <2> QED BY <1>4, <2>3
<1> QED BY <1>7, <1>8 DEF Live

LEMMA LoopUserTurnAccepts ==
  ASSUME MaxSubs \in Nat, IInv, Queues!LoopUserTurn PROVE \E m \in Queues!Ids : Queues!Thread!Accept(m)
<1> DEFINE id == Head(submissions).id
<1>1. /\ Queues!Receive("UserTurn") /\ UNCHANGED <<listening, todo, cancelled, said>>
      /\ \/ /\ Queues!TurnRunning /\ pending' = Append(pending, id) /\ UNCHANGED <<newest, phases>>
         \/ /\ ~Queues!TurnRunning /\ newest' = id /\ phases' = [phases EXCEPT ![id] = "created"] /\ UNCHANGED pending
  BY DEF Queues!LoopUserTurn
<1>2. id \in Unheard
  <2>1. /\ Len(submissions) \in Nat \ {0}
        /\ Head(submissions) = submissions[1] /\ submissions[1].op = "UserTurn"
    BY <1>1, Received
  <2> QED BY <2>1 DEF IInv, Numbered
<1> HIDE DEF id
<1>3. /\ id \in Queues!Ids /\ id # Queues!Mark /\ phases[id] = "none" /\ id \notin Queues!Range(pending) /\ id \notin Queues!Range(said)
      /\ pending \in Seq(Queues!Ids) /\ phases \in [Queues!Ids -> Phases]
  BY <1>2 DEF Unheard, Queues!Ids, Queues!Mark, IInv, TypeOK
<1>4. Waiting' = Waiting \cup {id} /\ Refused' = Refused
  <2>1. CASE pending' = Append(pending, id) /\ UNCHANGED <<newest, phases>>
    <3>1. Queues!Range(pending') = Queues!Range(pending) \cup {id}
      BY <1>3, <2>1, RangeAppend
    <3> QED BY <1>1, <2>1, <3>1 DEF Waiting, Refused
  <2>2. CASE phases' = [phases EXCEPT ![id] = "created"] /\ UNCHANGED pending
    BY <1>1, <1>3, <2>2 DEF Waiting, Refused
  <2> QED BY <1>1, <2>1, <2>2
<1>5. Open' = IF Open = Queues!Mark THEN id ELSE Open
  BY <1>1, <1>3 DEF Open, Queues!TurnRunning, Queues!Mark
<1>6. id \notin Queues!Thread!Range(said) \cup Waiting \cup Refused
  BY <1>3, SameOperators DEF Waiting, Refused
<1>7. PICK m \in Queues!Ids : m = id
  BY <1>3
<1>8. Queues!Thread!Accept(m)
  BY <1>1, <1>4, <1>5, <1>6, <1>7 DEF Queues!Thread!Accept, Queues!Thread!Fresh, Waiting, Refused, Open
<1> QED BY <1>8

\* Nothing that Steering sees changes.
LEMMA Unseen ==
  ASSUME UNCHANGED <<newest, phases, pending, said>> PROVE UNCHANGED Queues!Thread!vars
  BY DEF Queues!Thread!vars, Queues!TurnRunning

LEMMA QueueSteps ==
  ASSUME MaxSubs \in Nat, IInv,
         \/ Queues!SubmitTurn \/ \E op \in {"Interrupt", "Shutdown"} : Queues!SubmitOp(op)
         \/ Queues!LoopUserTurn \/ Queues!LoopInterrupt \/ Queues!LoopShutdown
  PROVE  IInv' /\ (Queues!Thread!Next \/ UNCHANGED Queues!Thread!vars)
<1>1. CASE Queues!SubmitTurn
  BY <1>1, SubmitTurnKeeps, Unseen DEF Queues!SubmitTurn
<1>2. ASSUME NEW op \in {"Interrupt", "Shutdown"}, Queues!SubmitOp(op) PROVE IInv' /\ UNCHANGED Queues!Thread!vars
  BY <1>2, SubmitOpKeeps, Unseen DEF Queues!SubmitOp
<1>3. CASE Queues!LoopUserTurn
  BY <1>3, LoopUserTurnKeeps, LoopUserTurnAccepts DEF Queues!Thread!Next
<1>4. CASE Queues!LoopInterrupt
  BY <1>4, CancelKeeps, Unseen DEF Queues!LoopInterrupt
<1>5. CASE Queues!LoopShutdown
  BY <1>5, CancelKeeps, Unseen DEF Queues!LoopShutdown
<1> QED BY <1>1, <1>2, <1>3, <1>4, <1>5

\* What does not run is not cancelled, and what is cancelled is alive.
LEMMA TurnSteps ==
  ASSUME MaxSubs \in Nat, IInv, NEW t \in Queues!Ids,
         \/ Queues!TurnStart(t) \/ Queues!StreamCall(t) \/ Queues!StreamEnd(t) \/ Queues!ToolAnswers(t)
         \/ Queues!TurnCancelled(t) \/ Queues!TurnError(t)
  PROVE  IInv' /\ (Queues!Thread!Next \/ UNCHANGED Queues!Thread!vars)
<1>1. CASE Queues!TurnStart(t)
  <2>1. /\ phases[t] = "created" /\ said' = Append(said, t) \o pending /\ pending' = <<>>
        /\ phases' = [phases EXCEPT ![t] = "streaming"] /\ UNCHANGED <<Queues!queueVars, newest, cancelled>>
    BY <1>1 DEF Queues!TurnStart, Queues!Resume, Queues!Request
  <2>2. said' = said \o (<<t>> \o pending)
    <3> DEFINE one == <<t>>
    <3>1. /\ one \in Seq(Queues!Ids \cup {Queues!Mark}) /\ pending \in Seq(Queues!Ids \cup {Queues!Mark}) /\ said \in Seq(Queues!Ids \cup {Queues!Mark})
      BY DEF IInv, TypeOK
    <3>2. Append(said, t) = said \o one
      BY <3>1, AppendIsConcat
    <3> HIDE DEF one
    <3>3. (said \o one) \o pending = said \o (one \o pending)
      BY <3>1, ConcatAssociative
    <3> QED BY <2>1, <3>2, <3>3 DEF one
  <2> QED BY <2>1, <2>2, Speaks DEF Queues!Thread!Next
<1>2. CASE Queues!StreamCall(t)
  <2>1. phases[t] = "streaming" /\ UNCHANGED <<Queues!queueVars, newest, phases, cancelled, pending, said>>
    BY <1>2 DEF Queues!StreamCall, Queues!Resume
  <2>2. phases' = [phases EXCEPT ![t] = "streaming"]
    BY <2>1 DEF IInv, TypeOK
  <2> QED BY <2>1, <2>2, WorksOn DEF Begun
<1>3. CASE Queues!StreamEnd(t)
  <2>1. /\ phases[t] = "streaming" /\ t \notin cancelled /\ UNCHANGED <<Queues!queueVars, newest, cancelled>>
    BY <1>3 DEF Queues!StreamEnd, Queues!Resume
  <2>2. CASE phases' = [phases EXCEPT ![t] = "tools"] /\ UNCHANGED <<pending, said>>
    BY <2>1, <2>2, WorksOn DEF Begun
  <2>3. CASE Queues!Request(t, said)
    BY <2>1, <2>3, Speaks DEF Queues!Request, Begun, Queues!Thread!Next
  <2>4. CASE phases' = [phases EXCEPT ![t] = "done"] /\ UNCHANGED <<pending, said>>
    <3>1. cancelled' = cancelled \ {t}
      BY <2>1
    <3> QED BY <2>1, <2>4, <3>1, Ends DEF Live, Begun, Queues!Thread!Next
  <2> QED BY <1>3, <2>2, <2>3, <2>4 DEF Queues!StreamEnd
<1>4. CASE Queues!ToolAnswers(t)
  <2>1. /\ phases[t] = "tools" /\ UNCHANGED <<Queues!queueVars, newest, cancelled>>
    BY <1>4 DEF Queues!ToolAnswers, Queues!Resume
  <2>2. CASE Queues!Request(t, said)
    BY <2>1, <2>2, Speaks DEF Queues!Request, Begun, Queues!Thread!Next
  <2>3. CASE UNCHANGED <<phases, pending, said>>
    <3>1. phases' = [phases EXCEPT ![t] = "tools"]
      BY <2>1, <2>3 DEF IInv, TypeOK
    <3> QED BY <2>1, <2>3, <3>1, WorksOn DEF Begun
  <2> QED BY <1>4, <2>2, <2>3 DEF Queues!ToolAnswers
<1>5. CASE Queues!TurnCancelled(t)
  <2>1. phases[t] \in Live
    BY <1>5 DEF Queues!TurnCancelled, IInv, Placed
  <2>2. said' = said \/ (phases[t] \in Begun /\ said' = Append(said, Queues!Mark))
    BY <1>5, <2>1 DEF Queues!TurnCancelled, Live
  <2> QED BY <1>5, <2>1, <2>2, Ends DEF Queues!TurnCancelled, Queues!Thread!Next
<1>6. CASE Queues!TurnError(t)
  <2>1. /\ phases[t] \in Live /\ cancelled' = cancelled \ {t} /\ phases' = [phases EXCEPT ![t] = "done"]
        /\ said' = said /\ UNCHANGED <<Queues!queueVars, newest, pending>>
    BY <1>6 DEF Queues!TurnError, Queues!Resume, Live, Begun
  <2> QED BY <2>1, Ends DEF Queues!Thread!Next
<1> QED BY <1>1, <1>2, <1>3, <1>4, <1>5, <1>6

\* What the refinement rests on: every number is in one place, and only the active turn is alive.
THEOREM Inductive == ASSUME MaxSubs \in Nat PROVE Queues!Spec => []IInv
<1>1. IInv /\ [Queues!Next]_(Queues!vars) => IInv'
  <2>1. CASE Queues!Next
    BY <2>1, QueueSteps, TurnSteps DEF Queues!Next
  <2>2. CASE UNCHANGED Queues!vars
    BY <2>2 DEF Queues!vars, Queues!queueVars, IInv, TypeOK, Numbered, Unheard, Queued, Placed
  <2> QED BY <2>1, <2>2
<1> QED BY <1>1, InvariantStarts, PTL DEF Queues!Spec

THEOREM Refinement == ASSUME MaxSubs \in Nat PROVE Queues!Spec => Queues!ThreadSteers
<1>1. Queues!Init => Queues!Thread!Init
  BY EmptyRange DEF Queues!Init, Queues!Thread!Init, Queues!TurnRunning, Queues!Mark, Queues!Ids
<1>2. IInv /\ [Queues!Next]_(Queues!vars) => [Queues!Thread!Next]_(Queues!Thread!vars)
  <2>1. CASE Queues!Next
    BY <2>1, QueueSteps, TurnSteps DEF Queues!Next
  <2>2. CASE UNCHANGED Queues!vars
    BY <2>2, Unseen DEF Queues!vars, Queues!queueVars
  <2> QED BY <2>1, <2>2
<1> QED BY <1>1, <1>2, Inductive, PTL DEF Queues!Spec, Queues!ThreadSteers, Queues!Thread!Spec

\* For any number of turns, calls and waiting submissions, the thread does what Steering promises: a message that
\* is accepted waits, and is said once or refused, and one that comes while a turn runs opens no other
\* (_submission_loop, drain_pending_input, run_turn).  The other chapters leave what Steering sees alone.
THEOREM ThreadRefines == ASSUME MaxSubs \in Nat PROVE ChaptersSpec => ThreadSteers
<1>1. ChaptersInit /\ chapter = "s02" => Queues!Init
  BY DEF ChaptersInit
<1>2. chapter = "s02" /\ [ChaptersNext]_chapterVars => (chapter = "s02")' /\ [Queues!Next]_(Queues!vars)
  BY DEF ChaptersNext, chapterVars, threadVars, protocolVars, Queues!vars, Queues!queueVars
<1>3. ChaptersInit /\ ~(chapter = "s02") => Queues!Thread!Init
  <2>1. ChaptersInit /\ ~(chapter = "s02") => NoProtocol
    BY DEF ChaptersInit
  <2> QED BY <2>1, EmptyRange
        DEF NoProtocol, None, Queues!Thread!Init, Queues!TurnRunning, Queues!Mark, Queues!Ids
<1>4. ~(chapter = "s02") /\ [ChaptersNext]_chapterVars => (~(chapter = "s02"))' /\ UNCHANGED Queues!Thread!vars
  <2> SUFFICES ASSUME ~(chapter = "s02"), [ChaptersNext]_chapterVars PROVE (~(chapter = "s02"))' /\ UNCHANGED Queues!Thread!vars
    OBVIOUS
  <2>1. UNCHANGED <<chapter, protocolVars>>
    BY DEF ChaptersNext, chapterVars
  <2> QED BY <2>1, Unseen DEF protocolVars
<1>5. ChaptersSpec /\ chapter = "s02" => Queues!Spec
  BY <1>1, <1>2, PTL DEF ChaptersSpec, Queues!Spec
<1>6. ChaptersSpec /\ ~(chapter = "s02") => Queues!Thread!Spec
  BY <1>3, <1>4, PTL DEF ChaptersSpec, Queues!Thread!Spec
<1>7. Queues!Spec => Queues!ThreadSteers
  BY Refinement
<1> QED BY <1>5, <1>6, <1>7, PTL DEF ThreadSteers, Queues!ThreadSteers, Queues!Thread!Spec

-----------------------------------------------------------------------------
(* The approvals of s08.                                                   *)


TurnPhases   == Approvals!Waiting \cup {"none", "created", "calls", "done"}
Handling == {"calls", "ask", "exec", "escalate", "retry"}
Granting == {"approved", "approved_for_session"}

Ops == [op : {"UserTurn", "Interrupt", "Shutdown"}]
         \cup [op : {"ExecApproval"}, call : CallIds, decision : Approvals!Decisions]

ApprovalTypes ==
  /\ approval_policy \in Approvals!Policies /\ sandboxes \in BOOLEAN
  /\ submissions \in Seq(Ops) /\ active \in Turns \cup {0}
  /\ pc \in [Turns -> TurnPhases] /\ todo \in [Turns -> Seq(CallIds)] /\ made \in Nat
  /\ futures \in [CallIds -> {"absent", "open", "cancelled"} \cup Approvals!Decisions]
  /\ asked \subseteq CallIds /\ ran \subseteq CallIds
  /\ answers \in [CallIds -> Approvals!Decisions \cup {"none"}]

\* A turn that handles a call has one, and no two turns have a call in common, nor one twice.
CallsApart ==
  /\ \A t \in Turns : pc[t] \in Handling => todo[t] # <<>>
  /\ \A t \in Turns : \A i \in 1 .. Len(todo[t]) : todo[t][i] \in Nat /\ todo[t][i] <= made
  /\ \A t, u \in Turns : \A i \in 1 .. Len(todo[t]), j \in 1 .. Len(todo[u]) :
       todo[t][i] = todo[u][j] => t = u /\ i = j

\* What is queued, waits to be read, or is remembered was answered.
AnswersKept ==
  /\ \A i \in 1 .. Len(submissions) : submissions[i].op = "ExecApproval" =>
       submissions[i].call \in asked /\ answers[submissions[i].call] = submissions[i].decision
  /\ \A c \in CallIds : futures[c] \in Approvals!Decisions => c \in asked /\ answers[c] = futures[c]
  /\ \A cmd \in approved : \E d \in asked : answers[d] = "approved_for_session" /\ CmdOf[d] = cmd

\* The three claims of ConsentIsTheUsers.
Allowed(c) == Approvals!Granted(c) \/ \E d \in asked : answers[d] = "approved_for_session" /\ CmdOf[d] = CmdOf[c]
RunsAllowed   == \A c \in ran : Allowed(c)
NobodyIsAsked == approval_policy = "never" => asked = {} /\ ran = {}
AwaitedBy(t, c)  == pc[t] \in {"ask", "escalate"} /\ c = Head(todo[t])
OpenIsAwaited == \A c \in CallIds : futures[c] # "absent" <=> \E t \in Turns : AwaitedBy(t, c)

ApprovalInv ==
  ApprovalTypes /\ CallsApart /\ AnswersKept /\ RunsAllowed /\ NobodyIsAsked /\ OpenIsAwaited

LEMMA Consents == ApprovalInv => Approvals!ConsentIsTheUsers
BY DEF ApprovalInv, RunsAllowed, Allowed, NobodyIsAsked, OpenIsAwaited, AwaitedBy, Approvals!ConsentIsTheUsers

LEMMA ApprovalStarts == Approvals!Init => ApprovalInv
<1> SUFFICES ASSUME Approvals!Init PROVE ApprovalInv
  OBVIOUS
<1>1. <<>> \in Seq(Ops) /\ <<>> \in Seq(CallIds) /\ Len(<<>>) = 0
  BY EmptySeq
<1>2. ApprovalTypes
  BY <1>1 DEF Approvals!Init, ApprovalTypes, TurnPhases
<1>3. CallsApart
  BY <1>1 DEF Approvals!Init, CallsApart, Handling
<1>4. AnswersKept /\ RunsAllowed /\ NobodyIsAsked
  BY <1>1 DEF Approvals!Init, AnswersKept, RunsAllowed, NobodyIsAsked, Approvals!Decisions
<1>5. OpenIsAwaited
  BY DEF Approvals!Init, OpenIsAwaited, AwaitedBy
<1> QED BY <1>2, <1>3, <1>4, <1>5 DEF ApprovalInv

\* The calls in hand are what they were, or fewer, or one turn has a new one.
LEMMA LessInHand ==
  ASSUME ApprovalInv, UNCHANGED made, todo' \in [Turns -> Seq(CallIds)],
         \A t \in Turns : todo'[t] = todo[t] \/ todo'[t] = <<>> \/ (todo[t] # <<>> /\ todo'[t] = Tail(todo[t])),
         \A t \in Turns : pc'[t] \in Handling => todo'[t] # <<>>
  PROVE  CallsApart'
<1>1. ASSUME NEW t \in Turns
      PROVE  \/ todo'[t] = todo[t]
             \/ Len(todo'[t]) = 0
             \/ Len(todo'[t]) + 1 = Len(todo[t]) /\ \A i \in 1 .. Len(todo'[t]) : todo'[t][i] = todo[t][i + 1]
  <2>1. CASE todo[t] # <<>> /\ todo'[t] = Tail(todo[t])
    <3>1. todo[t] \in Seq(CallIds)
      BY DEF ApprovalInv, ApprovalTypes
    <3> QED BY <2>1, <3>1, HeadTailProperties
  <2> QED BY <1>1, <2>1, EmptySeq
<1> DEFINE from(t) == IF todo'[t] = todo[t] THEN 0 ELSE 1
<1>2. \A t \in Turns : Len(todo[t]) \in Nat /\ Len(todo'[t]) \in Nat
  BY LenProperties DEF ApprovalInv, ApprovalTypes
<1>3. \A t \in Turns : \A i \in 1 .. Len(todo'[t]) :
        i + from(t) \in 1 .. Len(todo[t]) /\ todo'[t][i] = todo[t][i + from(t)]
  <2> TAKE t \in Turns
  <2> TAKE i \in 1 .. Len(todo'[t])
  <2> QED BY <1>1, <1>2
<1> HIDE DEF from
<1>4. \A t \in Turns : from(t) \in Nat
  BY DEF from
<1>5. \A t, u \in Turns : \A i \in 1 .. Len(todo'[t]), j \in 1 .. Len(todo'[u]) :
        todo'[t][i] = todo'[u][j] => t = u /\ i = j
  <2> TAKE t, u \in Turns
  <2> TAKE i \in 1 .. Len(todo'[t]), j \in 1 .. Len(todo'[u])
  <2> HAVE todo'[t][i] = todo'[u][j]
  <2>1. /\ i + from(t) \in 1 .. Len(todo[t]) /\ j + from(u) \in 1 .. Len(todo[u])
        /\ todo[t][i + from(t)] = todo[u][j + from(u)]
    BY <1>3
  <2>2. t = u /\ i + from(t) = j + from(u)
    BY <2>1 DEF ApprovalInv, CallsApart
  <2> QED BY <2>2, <1>2, <1>4
<1>6. \A t \in Turns : \A i \in 1 .. Len(todo'[t]) : todo'[t][i] \in Nat /\ todo'[t][i] <= made'
  BY <1>3 DEF ApprovalInv, CallsApart
<1> QED BY <1>5, <1>6 DEF CallsApart

\* A call is awaited by one turn only.
LEMMA OneAwaits ==
  ASSUME ApprovalInv, NEW t \in Turns, NEW u \in Turns, todo[t] # <<>>, todo[u] # <<>>, Head(todo[t]) = Head(todo[u])
  PROVE  t = u
<1>1. todo[t] \in Seq(CallIds) /\ todo[u] \in Seq(CallIds)
  BY DEF ApprovalInv, ApprovalTypes
<1>2. 1 \in 1 .. Len(todo[t]) /\ 1 \in 1 .. Len(todo[u]) /\ todo[t][1] = todo[u][1]
  BY <1>1, HeadTailProperties, LenProperties
<1> QED BY <1>2 DEF ApprovalInv, CallsApart

\* The call in hand is one.
LEMMA InHandIsCall ==
  ASSUME ApprovalInv, NEW t \in Turns, pc[t] \in Handling
  PROVE  /\ todo[t] # <<>> /\ Head(todo[t]) \in CallIds
         /\ Tail(todo[t]) \in Seq(CallIds)
<1>1. todo[t] \in Seq(CallIds) /\ todo[t] # <<>>
  BY DEF ApprovalInv, ApprovalTypes, CallsApart
<1> QED BY <1>1, HeadTailProperties

\* What of the queue a step leaves.
LEMMA QueueKept ==
  ASSUME ApprovalInv, UNCHANGED answers, asked \subseteq asked',
         submissions # <<>>, submissions' = Tail(submissions)
  PROVE  /\ submissions' \in Seq(Ops)
         /\ \A i \in 1 .. Len(submissions') : submissions'[i].op = "ExecApproval" =>
              submissions'[i].call \in asked' /\ answers'[submissions'[i].call] = submissions'[i].decision
         /\ Head(submissions) \in Ops
         /\ Head(submissions).op = "ExecApproval" =>
              Head(submissions).call \in asked /\ answers[Head(submissions).call] = Head(submissions).decision
<1>1. submissions \in Seq(Ops)
  BY DEF ApprovalInv, ApprovalTypes
<1>2. /\ submissions' \in Seq(Ops) /\ Len(submissions) \in Nat /\ Len(submissions) > 0
      /\ Head(submissions) = submissions[1]
      /\ Len(submissions') = Len(submissions) - 1 /\ Head(submissions) \in Ops
      /\ \A i \in 1 .. Len(submissions') : submissions'[i] = submissions[i + 1]
  BY <1>1, HeadTailProperties, LenProperties
<1>3. \A i \in 1 .. Len(submissions) : submissions[i].op = "ExecApproval" =>
        submissions[i].call \in asked /\ answers[submissions[i].call] = submissions[i].decision
  BY DEF ApprovalInv, AnswersKept
<1>4. 1 \in 1 .. Len(submissions) /\ \A i \in 1 .. Len(submissions') : i + 1 \in 1 .. Len(submissions)
  BY <1>2
<1> QED BY <1>2, <1>3, <1>4

-----------------------------------------------------------------------------
\* Between the questions nothing that the user is asked or has said changes.
Settled == UNCHANGED <<approval_policy, approved, asked, answers, ran>>

LEMMA SettledKeeps ==
  ASSUME ApprovalInv, Settled
  PROVE  /\ RunsAllowed' /\ NobodyIsAsked'
         /\ \A cmd \in approved' : \E d \in asked' : answers'[d] = "approved_for_session" /\ CmdOf[d] = cmd
<1>1. \A c : Allowed(c) <=> Allowed(c)'
  BY DEF Settled, Allowed, Approvals!Granted
<1> QED BY <1>1 DEF Settled, ApprovalInv, RunsAllowed, NobodyIsAsked, AnswersKept

\* A turn that waits for no answer goes on, and waits for none.
LEMMA QuietKeeps ==
  ASSUME ApprovalInv, ApprovalTypes', CallsApart', Settled, UNCHANGED <<submissions, futures>>,
         NEW t \in Turns, pc[t] \notin {"ask", "escalate"}, pc'[t] \notin {"ask", "escalate"},
         \A u \in Turns \ {t} : pc'[u] = pc[u] /\ todo'[u] = todo[u]
  PROVE  ApprovalInv'
<1>1. AnswersKept'
  BY SettledKeeps DEF ApprovalInv, AnswersKept, Settled
<1>2. \A u \in Turns, c \in CallIds : AwaitedBy(u, c)' <=> AwaitedBy(u, c)
  BY DEF AwaitedBy
<1>3. OpenIsAwaited'
  BY <1>2 DEF ApprovalInv, OpenIsAwaited
<1> QED BY <1>1, <1>3, SettledKeeps DEF ApprovalInv

LEMMA SubmitKeeps ==
  ASSUME ApprovalInv, NEW sub \in Ops, Approvals!Submit(sub),
         answers' \in [CallIds -> Approvals!Decisions \cup {"none"}],
         \A c \in CallIds : answers[c] # "none" => answers'[c] = answers[c],
         sub.op = "ExecApproval" => sub.call \in asked /\ answers'[sub.call] = sub.decision
  PROVE  ApprovalInv'
<1>1. /\ submissions \in Seq(Ops) /\ submissions' = Append(submissions, sub)
      /\ UNCHANGED <<Approvals!sessionVars, listening, active, Approvals!turnVars, futures, approved, asked, ran>>
  BY DEF ApprovalInv, ApprovalTypes, Approvals!Submit
<1>2. /\ submissions' \in Seq(Ops) /\ Len(submissions) \in Nat /\ Len(submissions') = Len(submissions) + 1
      /\ submissions'[Len(submissions) + 1] = sub
      /\ \A i \in 1 .. Len(submissions) : submissions'[i] = submissions[i]
  BY <1>1, AppendProperties, LenProperties
<1>3. ApprovalTypes' /\ CallsApart'
  BY <1>1, <1>2 DEF ApprovalInv, ApprovalTypes, CallsApart, Approvals!sessionVars, Approvals!turnVars
<1>4. \A c \in CallIds, d \in Approvals!Decisions : answers[c] = d => answers'[c] = d
  BY DEF Approvals!Decisions
<1>5. \A i \in 1 .. Len(submissions) : submissions[i] \in Ops
  BY <1>1, ElementOfSeq
<1>6. AnswersKept'
  <2>1. ASSUME NEW i \in 1 .. Len(submissions'), submissions'[i].op = "ExecApproval"
        PROVE  submissions'[i].call \in asked' /\ answers'[submissions'[i].call] = submissions'[i].decision
    <3>1. CASE i = Len(submissions) + 1
      BY <3>1, <2>1, <1>1, <1>2
    <3>2. CASE i \in 1 .. Len(submissions)
      <4>1. submissions[i] \in Ops /\ submissions[i].op = "ExecApproval"
        BY <3>2, <2>1, <1>2, <1>5
      <4>2. submissions[i].call \in CallIds /\ submissions[i].decision \in Approvals!Decisions
        BY <4>1 DEF Ops
      <4> QED BY <3>2, <4>1, <4>2, <1>1, <1>2, <1>4 DEF ApprovalInv, AnswersKept
    <3> QED BY <3>1, <3>2, <1>2
  <2>2. \A c \in CallIds : futures'[c] \in Approvals!Decisions => c \in asked' /\ answers'[c] = futures'[c]
    BY <1>1, <1>4 DEF ApprovalInv, AnswersKept
  <2>3. \A cmd \in approved' : \E d \in asked' : answers'[d] = "approved_for_session" /\ CmdOf[d] = cmd
    <3>1. asked \subseteq CallIds /\ "approved_for_session" \in Approvals!Decisions
      BY DEF ApprovalInv, ApprovalTypes, Approvals!Decisions
    <3> QED BY <3>1, <1>1, <1>4 DEF ApprovalInv, AnswersKept
  <2> QED BY <2>1, <2>2, <2>3 DEF AnswersKept
<1>7. RunsAllowed' /\ NobodyIsAsked'
  <2>1. /\ asked \subseteq CallIds /\ ran \subseteq CallIds
        /\ {"approved", "approved_for_session"} \subseteq Approvals!Decisions
    BY DEF ApprovalInv, ApprovalTypes, Approvals!Decisions
  <2>2. \A c \in ran : Allowed(c) => Allowed(c)'
    BY <2>1, <1>1, <1>4 DEF Allowed, Approvals!Granted
  <2> QED BY <2>2, <1>1 DEF ApprovalInv, RunsAllowed, NobodyIsAsked, Approvals!sessionVars
<1>8. OpenIsAwaited'
  BY <1>1 DEF ApprovalInv, OpenIsAwaited, AwaitedBy, Approvals!turnVars
<1> QED BY <1>3, <1>6, <1>7, <1>8 DEF ApprovalInv

LEMMA ClientKeeps ==
  ASSUME ApprovalInv,
         \/ \E op \in {"UserTurn", "Interrupt", "Shutdown"} : Approvals!SubmitOp(op)
         \/ \E c \in CallIds, decision \in Approvals!Decisions : Approvals!Answer(c, decision)
  PROVE  ApprovalInv'
<1>1. ASSUME NEW op \in {"UserTurn", "Interrupt", "Shutdown"}, Approvals!SubmitOp(op) PROVE ApprovalInv'
  <2>1. [op |-> op] \in Ops /\ [op |-> op].op # "ExecApproval"
    BY DEF Ops
  <2> QED BY <1>1, <2>1, SubmitKeeps DEF Approvals!SubmitOp, ApprovalInv, ApprovalTypes
<1>2. ASSUME NEW c \in CallIds, NEW decision \in Approvals!Decisions, Approvals!Answer(c, decision) PROVE ApprovalInv'
  <2> DEFINE sub == [op |-> "ExecApproval", call |-> c, decision |-> decision]
  <2>1. sub \in Ops /\ sub.call = c /\ sub.decision = decision
    BY DEF Ops
  <2>2. /\ c \in asked /\ answers[c] = "none" /\ Approvals!Submit(sub)
        /\ answers' = [answers EXCEPT ![c] = decision]
    BY <1>2 DEF Approvals!Answer
  <2>3. /\ answers' \in [CallIds -> Approvals!Decisions \cup {"none"}] /\ answers'[c] = decision
        /\ \A d \in CallIds : answers[d] # "none" => answers'[d] = answers[d]
    BY <2>2 DEF ApprovalInv, ApprovalTypes
  <2> HIDE DEF sub
  <2> QED BY <2>1, <2>2, <2>3, SubmitKeeps
<1> QED BY <1>1, <1>2

LEMMA UserTurnKeeps ==
  ASSUME ApprovalInv, Approvals!LoopUserTurn
  PROVE  ApprovalInv'
<1>1. PICK t \in Turns : pc[t] = "none" /\ active' = t /\ pc' = [pc EXCEPT ![t] = "created"]
  BY DEF Approvals!LoopUserTurn
<1>2. /\ submissions # <<>> /\ submissions' = Tail(submissions) /\ Settled
      /\ UNCHANGED <<sandboxes, todo, made, futures>>
  BY DEF Approvals!LoopUserTurn, Approvals!Receive, Settled, Approvals!sessionVars, Approvals!consentVars
<1>3. ApprovalTypes'
  BY <1>1, <1>2, QueueKept DEF ApprovalInv, ApprovalTypes, Settled, TurnPhases
<1>4. \A u \in Turns : /\ pc'[u] \in Handling => pc[u] \in Handling
                       /\ pc'[u] \in {"ask", "escalate"} <=> pc[u] \in {"ask", "escalate"}
  BY <1>1 DEF ApprovalInv, ApprovalTypes, Handling
<1>5. CallsApart'
  BY <1>2, <1>4 DEF ApprovalInv, CallsApart
<1>6. AnswersKept'
  BY <1>2, QueueKept, SettledKeeps DEF ApprovalInv, AnswersKept, Settled
<1>7. OpenIsAwaited'
  BY <1>2, <1>4 DEF ApprovalInv, OpenIsAwaited, AwaitedBy
<1> QED BY <1>2, <1>3, <1>5, <1>6, <1>7, SettledKeeps DEF ApprovalInv

\* An answer that is read, or a wait that is called off, leaves the futures open that were.
LEMMA LoopKeeps ==
  ASSUME ApprovalInv, Settled, UNCHANGED <<sandboxes, active, pc, todo, made>>,
         submissions # <<>>, submissions' = Tail(submissions),
         futures' \in [CallIds -> {"absent", "open", "cancelled"} \cup Approvals!Decisions],
         \A c \in CallIds : \/ futures'[c] = futures[c]
                            \/ futures[c] = "open" /\ futures'[c] = "cancelled"
                            \/ /\ futures[c] = "open" /\ futures'[c] \in Approvals!Decisions
                               /\ c \in asked /\ answers[c] = futures'[c]
  PROVE  ApprovalInv'
<1>1. ApprovalTypes'
  BY QueueKept DEF ApprovalInv, ApprovalTypes, Settled
<1>2. CallsApart'
  BY DEF ApprovalInv, CallsApart
<1>3. \A c \in CallIds : futures'[c] \in Approvals!Decisions => c \in asked' /\ answers'[c] = futures'[c]
  BY DEF ApprovalInv, AnswersKept, Settled, Approvals!Decisions
<1>4. AnswersKept'
  BY <1>3, QueueKept, SettledKeeps DEF AnswersKept, Settled
<1>5. OpenIsAwaited'
  BY DEF ApprovalInv, OpenIsAwaited, AwaitedBy, Approvals!Decisions
<1> QED BY <1>1, <1>2, <1>4, <1>5, SettledKeeps DEF ApprovalInv

LEMMA ReadingKeeps ==
  ASSUME ApprovalInv, Approvals!LoopExecApproval \/ Approvals!LoopInterrupt \/ Approvals!LoopShutdown
  PROVE  ApprovalInv'
<1>1. /\ submissions # <<>> /\ submissions' = Tail(submissions) /\ Settled
      /\ UNCHANGED <<sandboxes, active, pc, todo, made>>
  BY DEF Approvals!LoopExecApproval, Approvals!LoopInterrupt, Approvals!LoopShutdown, Approvals!Receive,
       Settled, Approvals!sessionVars, Approvals!turnVars
<1>2. CASE Approvals!LoopExecApproval
  <2> DEFINE sub == Head(submissions)
  <2>1. sub \in Ops /\ sub.op = "ExecApproval" /\ sub.call \in asked /\ answers[sub.call] = sub.decision
    BY <1>1, <1>2, QueueKept DEF Approvals!LoopExecApproval, Approvals!Receive, Settled
  <2>2. sub.call \in CallIds /\ sub.decision \in Approvals!Decisions
    BY <2>1 DEF Ops
  <2>3. futures' = IF futures[sub.call] = "open" THEN [futures EXCEPT ![sub.call] = sub.decision] ELSE futures
    BY <1>2 DEF Approvals!LoopExecApproval, Approvals!Resolve
  <2> HIDE DEF sub
  <2>4. futures' \in [CallIds -> {"absent", "open", "cancelled"} \cup Approvals!Decisions]
    BY <2>2, <2>3 DEF ApprovalInv, ApprovalTypes
  <2>5. \A c \in CallIds : \/ futures'[c] = futures[c]
                           \/ /\ futures[c] = "open" /\ futures'[c] \in Approvals!Decisions
                              /\ c \in asked /\ answers[c] = futures'[c]
    BY <2>1, <2>2, <2>3 DEF ApprovalInv, ApprovalTypes
  <2> QED BY <1>1, <2>4, <2>5, LoopKeeps
<1>3. CASE Approvals!LoopInterrupt \/ Approvals!LoopShutdown
  <2>1. Approvals!Cancel
    BY <1>3 DEF Approvals!LoopInterrupt, Approvals!LoopShutdown
  <2>2. futures' \in [CallIds -> {"absent", "open", "cancelled"} \cup Approvals!Decisions]
    BY <2>1 DEF Approvals!Cancel, ApprovalInv, ApprovalTypes
  <2>3. \A c \in CallIds : futures'[c] = futures[c] \/ (futures[c] = "open" /\ futures'[c] = "cancelled")
    BY <2>1 DEF Approvals!Cancel
  <2> QED BY <1>1, <2>2, <2>3, LoopKeeps
<1> QED BY <1>2, <1>3

-----------------------------------------------------------------------------
\* A call is answered, and leaves the hand.
LEMMA AnsweredLeaves ==
  ASSUME ApprovalInv, NEW t \in Turns, pc[t] \in Handling, Approvals!Answered(t)
  PROVE  /\ todo' \in [Turns -> Seq(CallIds)] /\ pc' \in [Turns -> TurnPhases]
         /\ pc'[t] \in {"streaming", "calls"} /\ UNCHANGED made /\ CallsApart'
         /\ \A u \in Turns \ {t} : pc'[u] = pc[u] /\ todo'[u] = todo[u]
<1>1. /\ todo' = [todo EXCEPT ![t] = Tail(@)] /\ UNCHANGED made
      /\ pc' = [pc EXCEPT ![t] = IF Tail(todo[t]) = <<>> THEN "streaming" ELSE "calls"]
  BY DEF Approvals!Answered
<1>2. todo' \in [Turns -> Seq(CallIds)] /\ todo'[t] = Tail(todo[t]) /\ todo[t] # <<>>
  BY <1>1, InHandIsCall DEF ApprovalInv, ApprovalTypes
<1>3. /\ pc' \in [Turns -> TurnPhases] /\ pc'[t] \in {"streaming", "calls"}
      /\ \A u \in Turns \ {t} : pc'[u] = pc[u] /\ todo'[u] = todo[u]
      /\ pc'[t] = "calls" => todo'[t] # <<>>
  BY <1>1, <1>2 DEF ApprovalInv, ApprovalTypes, TurnPhases, Approvals!Waiting
<1>4. CallsApart'
  <2>1. \A u \in Turns : pc'[u] \in Handling => todo'[u] # <<>>
    BY <1>3 DEF ApprovalInv, CallsApart, Handling
  <2>2. \A u \in Turns : todo'[u] = todo[u] \/ todo'[u] = <<>> \/ (todo[u] # <<>> /\ todo'[u] = Tail(todo[u]))
    BY <1>2, <1>3
  <2> QED BY <1>1, <1>2, <2>1, <2>2, LessInHand
<1> QED BY <1>1, <1>2, <1>3, <1>4

\* A call goes on to another next and stays in hand.
LEMMA GoesOn ==
  ASSUME ApprovalInv, NEW t \in Turns, NEW next \in TurnPhases,
         next \in Handling => pc[t] \in Handling \/ todo[t] # <<>>,
         Approvals!Go(t, next)
  PROVE  /\ pc' \in [Turns -> TurnPhases] /\ pc'[t] = next /\ UNCHANGED <<todo, made>> /\ CallsApart'
         /\ \A u \in Turns \ {t} : pc'[u] = pc[u] /\ todo'[u] = todo[u]
<1>1. /\ pc' = [pc EXCEPT ![t] = next] /\ UNCHANGED <<todo, made>>
  BY DEF Approvals!Go
<1>2. /\ pc' \in [Turns -> TurnPhases] /\ pc'[t] = next
      /\ \A u \in Turns \ {t} : pc'[u] = pc[u] /\ todo'[u] = todo[u]
  BY <1>1 DEF ApprovalInv, ApprovalTypes
<1>3. \A u \in Turns : pc'[u] \in Handling => todo'[u] # <<>>
  BY <1>1, <1>2 DEF ApprovalInv, CallsApart
<1> QED BY <1>1, <1>2, <1>3 DEF ApprovalInv, CallsApart

\* The turn is over, and has nothing in hand.
LEMMA EndsTurn ==
  ASSUME ApprovalInv, NEW t \in Turns, UNCHANGED made,
         pc' = [pc EXCEPT ![t] = "done"], todo' = [todo EXCEPT ![t] = <<>>]
  PROVE  /\ todo' \in [Turns -> Seq(CallIds)] /\ pc' \in [Turns -> TurnPhases] /\ pc'[t] = "done" /\ CallsApart'
         /\ \A u \in Turns \ {t} : pc'[u] = pc[u] /\ todo'[u] = todo[u]
<1>1. /\ todo' \in [Turns -> Seq(CallIds)] /\ todo'[t] = <<>> /\ pc' \in [Turns -> TurnPhases] /\ pc'[t] = "done"
      /\ \A u \in Turns \ {t} : pc'[u] = pc[u] /\ todo'[u] = todo[u]
  BY EmptySeq DEF ApprovalInv, ApprovalTypes, TurnPhases
<1>2. \A u \in Turns : pc'[u] \in Handling => todo'[u] # <<>>
  BY <1>1 DEF ApprovalInv, CallsApart, Handling
<1>3. CallsApart'
  BY <1>1, <1>2, LessInHand
<1> QED BY <1>1, <1>3

\* One more call.
LEMMA StreamKeeps ==
  ASSUME ApprovalInv, NEW t \in Turns, Approvals!StreamCall(t)
  PROVE  ApprovalInv'
<1>1. /\ pc[t] = "streaming" /\ made + 1 \in CallIds /\ made' = made + 1
      /\ todo' = [todo EXCEPT ![t] = Append(@, made + 1)]
      /\ Settled /\ UNCHANGED <<sandboxes, submissions, active, pc, futures>>
  BY DEF Approvals!StreamCall, Approvals!Resume, Settled, Approvals!sessionVars, Approvals!queueVars,
       Approvals!consentVars
<1>2. /\ made \in Nat /\ todo[t] \in Seq(CallIds) /\ pc \in [Turns -> TurnPhases] /\ todo \in [Turns -> Seq(CallIds)]
      /\ \A u \in Turns : Len(todo[u]) \in Nat
  BY LenProperties DEF ApprovalInv, ApprovalTypes
<1>3. /\ todo'[t] \in Seq(CallIds) /\ Len(todo'[t]) = Len(todo[t]) + 1 /\ todo'[t] # <<>>
      /\ todo'[t][Len(todo[t]) + 1] = made + 1 /\ \A i \in 1 .. Len(todo[t]) : todo'[t][i] = todo[t][i]
      /\ \A u \in Turns \ {t} : todo'[u] = todo[u]
  BY <1>1, <1>2, AppendProperties
<1>4. ApprovalTypes'
  BY <1>1, <1>2, <1>3 DEF ApprovalInv, ApprovalTypes, Settled
<1>5. CallsApart'
  <2>1. \A u \in Turns : pc'[u] \in Handling => todo'[u] # <<>>
    BY <1>1, <1>3 DEF ApprovalInv, CallsApart
  <2>2. \A u \in Turns : \A i \in 1 .. Len(todo'[u]) :
          \/ u = t /\ i = Len(todo[t]) + 1 /\ todo'[u][i] = made + 1
          \/ /\ i \in 1 .. Len(todo[u]) /\ todo'[u][i] = todo[u][i] /\ todo[u][i] \in Nat /\ todo[u][i] <= made
             /\ todo'[u][i] # made + 1
    <3> TAKE u \in Turns
    <3> TAKE i \in 1 .. Len(todo'[u])
    <3>1. CASE u = t /\ i = Len(todo[t]) + 1
      BY <3>1, <1>3
    <3>2. CASE ~(u = t /\ i = Len(todo[t]) + 1)
      <4>1. i \in 1 .. Len(todo[u]) /\ todo'[u][i] = todo[u][i]
        BY <3>2, <1>2, <1>3
      <4>2. todo[u][i] \in Nat /\ todo[u][i] <= made
        BY <4>1 DEF ApprovalInv, CallsApart
      <4> QED BY <4>1, <4>2, <1>2
    <3> QED BY <3>1, <3>2
  <2>3. \A u \in Turns : \A i \in 1 .. Len(todo'[u]) : todo'[u][i] \in Nat /\ todo'[u][i] <= made'
    BY <1>1, <1>2, <2>2
  <2>4. \A u, v \in Turns : \A i \in 1 .. Len(todo'[u]), j \in 1 .. Len(todo'[v]) :
          todo'[u][i] = todo'[v][j] => u = v /\ i = j
    <3> TAKE u, v \in Turns
    <3> TAKE i \in 1 .. Len(todo'[u]), j \in 1 .. Len(todo'[v])
    <3> HAVE todo'[u][i] = todo'[v][j]
    <3>1. CASE todo'[u][i] = made + 1
      <4>1. u = t /\ i = Len(todo[t]) + 1
        BY <3>1, <2>2, <1>2
      <4>2. v = t /\ j = Len(todo[t]) + 1
        <5>1. todo'[v][j] = made + 1
          BY <3>1
        <5> QED BY <5>1, <2>2, <1>2
      <4> QED BY <4>1, <4>2
    <3>2. CASE todo'[u][i] # made + 1
      <4>1. /\ i \in 1 .. Len(todo[u]) /\ j \in 1 .. Len(todo[v])
            /\ todo[u][i] = todo[v][j]
        BY <3>2, <2>2
      <4> QED BY <4>1 DEF ApprovalInv, CallsApart
    <3> QED BY <3>1, <3>2
  <2> QED BY <2>1, <2>3, <2>4 DEF CallsApart
<1> QED BY <1>1, <1>3, <1>4, <1>5, QuietKeeps

\* The user is asked about the call in hand.
LEMMA AskKeeps ==
  ASSUME ApprovalInv, NEW t \in Turns, pc[t] \in {"calls", "exec"},
         NEW next \in {"ask", "escalate"}, Approvals!Ask(t, next),
         approval_policy # "never", UNCHANGED <<Approvals!sessionVars, Approvals!queueVars, approved, answers, ran>>
  PROVE  ApprovalInv'
<1>2. pc[t] \in Handling /\ next \in Handling /\ next \in TurnPhases /\ Head(todo[t]) \in CallIds /\ todo[t] # <<>>
  BY InHandIsCall DEF Handling, TurnPhases, Approvals!Waiting
<1>0. PICK c \in CallIds : c = Head(todo[t])
  BY <1>2
<1>1. /\ Approvals!Go(t, next) /\ futures' = [futures EXCEPT ![c] = "open"] /\ asked' = asked \cup {c}
  BY <1>0 DEF Approvals!Ask
<1>3. /\ pc' \in [Turns -> TurnPhases] /\ pc'[t] = next /\ UNCHANGED <<todo, made>> /\ CallsApart'
      /\ \A u \in Turns \ {t} : pc'[u] = pc[u] /\ todo'[u] = todo[u]
  BY <1>1, <1>2, GoesOn
<1>4. /\ futures'[c] = "open" /\ \A d \in CallIds \ {c} : futures'[d] = futures[d]
  BY <1>1, <1>2 DEF ApprovalInv, ApprovalTypes
<1>5. ApprovalTypes'
  BY <1>1, <1>2, <1>3 DEF ApprovalInv, ApprovalTypes, Approvals!sessionVars, Approvals!queueVars
<1>6. AnswersKept'
  <2>1. \A d \in CallIds : futures'[d] \in Approvals!Decisions => d \in asked' /\ answers'[d] = futures'[d]
    BY <1>1, <1>4 DEF ApprovalInv, AnswersKept, Approvals!Decisions
  <2> QED BY <1>1, <2>1 DEF ApprovalInv, AnswersKept, Approvals!queueVars
<1>7. RunsAllowed' /\ NobodyIsAsked'
  <2>1. \A d : Allowed(d) => Allowed(d)'
    BY <1>1 DEF Allowed, Approvals!Granted
  <2> QED BY <2>1 DEF ApprovalInv, RunsAllowed, NobodyIsAsked, Approvals!sessionVars
<1>8. OpenIsAwaited'
  <2>1. AwaitedBy(t, c)'
    BY <1>0, <1>3 DEF AwaitedBy
  <2>2. ASSUME NEW d \in CallIds \ {c} PROVE (\E u \in Turns : AwaitedBy(u, d)') <=> \E u \in Turns : AwaitedBy(u, d)
    <3>1. ~AwaitedBy(t, d)' /\ ~AwaitedBy(t, d)
      BY <1>0, <1>3 DEF AwaitedBy
    <3>2. \A u \in Turns \ {t} : AwaitedBy(u, d)' <=> AwaitedBy(u, d)
      BY <1>3 DEF AwaitedBy
    <3> QED BY <3>1, <3>2
  <2>3. ASSUME NEW d \in CallIds PROVE futures'[d] # "absent" <=> \E u \in Turns : AwaitedBy(u, d)'
    <3>1. CASE d = c
      BY <3>1, <1>4, <2>1
    <3>2. CASE d # c
      BY <3>2, <1>4, <2>2 DEF ApprovalInv, OpenIsAwaited
    <3> QED BY <3>1, <3>2
  <2> QED BY <2>3 DEF OpenIsAwaited
<1> QED BY <1>3, <1>5, <1>6, <1>7, <1>8 DEF ApprovalInv

\* The wait of turn t is over: its answer is taken, and the call has left or goes on.
LEMMA WaitEnds ==
  ASSUME ApprovalInv, ApprovalTypes', CallsApart', NEW t \in Turns, pc[t] \in {"ask", "escalate"},
         pc'[t] \notin {"ask", "escalate"},
         \A u \in Turns \ {t} : pc'[u] = pc[u] /\ todo'[u] = todo[u],
         futures' = [futures EXCEPT ![Head(todo[t])] = "absent"],
         UNCHANGED <<submissions, approval_policy, asked, answers>>,
         approved \subseteq approved',
         \A cmd \in approved' \ approved :
           CmdOf[Head(todo[t])] = cmd /\ futures[Head(todo[t])] = "approved_for_session",
         ran \subseteq ran',
         \A c \in ran' \ ran : c = Head(todo[t]) /\ futures[c] \in Granting
  PROVE  ApprovalInv'
<1>1. Head(todo[t]) \in CallIds /\ todo[t] # <<>>
  BY InHandIsCall DEF Handling
<1>0. PICK c \in CallIds : c = Head(todo[t])
  BY <1>1
<1>2. futures'[c] = "absent" /\ \A d \in CallIds \ {c} : futures'[d] = futures[d]
  BY <1>0 DEF ApprovalInv, ApprovalTypes
<1>3. futures[c] \in Approvals!Decisions => c \in asked /\ answers[c] = futures[c]
  BY <1>1 DEF ApprovalInv, AnswersKept
<1>4. AnswersKept'
  <2>1. \A d \in CallIds : futures'[d] \in Approvals!Decisions => d \in asked' /\ answers'[d] = futures'[d]
    BY <1>2 DEF ApprovalInv, AnswersKept, Approvals!Decisions
  <2>2. \A cmd \in approved' : \E d \in asked' : answers'[d] = "approved_for_session" /\ CmdOf[d] = cmd
    <3> TAKE cmd \in approved'
    <3>1. CASE cmd \in approved
      BY <3>1 DEF ApprovalInv, AnswersKept
    <3>2. CASE cmd \notin approved
      BY <3>2, <1>0, <1>3 DEF Approvals!Decisions
    <3> QED BY <3>1, <3>2
  <2> QED BY <2>1, <2>2 DEF ApprovalInv, AnswersKept
<1>5. RunsAllowed' /\ NobodyIsAsked'
  <2>1. \A d : Allowed(d) => Allowed(d)'
    BY DEF Allowed, Approvals!Granted
  <2>2. \A d \in ran' \ ran : d \in asked /\ Allowed(d)'
    BY <1>0, <1>3 DEF Granting, Approvals!Decisions, Allowed, Approvals!Granted
  <2> QED BY <2>1, <2>2 DEF ApprovalInv, RunsAllowed, NobodyIsAsked
<1>6. OpenIsAwaited'
  <2>1. \A u \in Turns : ~AwaitedBy(u, c)'
    <3> TAKE u \in Turns
    <3>1. CASE u = t
      BY <3>1 DEF AwaitedBy
    <3>2. CASE u # t
      <4>0. pc'[u] = pc[u] /\ todo'[u] = todo[u]
        BY <3>2
      <4>1. SUFFICES ASSUME AwaitedBy(u, c) PROVE FALSE
        BY <4>0 DEF AwaitedBy
      <4>2. pc[u] \in Handling /\ Head(todo[u]) = Head(todo[t])
        BY <1>0, <4>1 DEF AwaitedBy, Handling
      <4>3. todo[u] # <<>>
        BY <4>2, InHandIsCall
      <4> QED BY <1>1, <3>2, <4>2, <4>3, OneAwaits
    <3> QED BY <3>1, <3>2
  <2>2. ASSUME NEW d \in CallIds \ {c} PROVE (\E u \in Turns : AwaitedBy(u, d)') <=> \E u \in Turns : AwaitedBy(u, d)
    <3>1. ~AwaitedBy(t, d)' /\ ~AwaitedBy(t, d)
      BY <1>0 DEF AwaitedBy
    <3>2. \A u \in Turns \ {t} : AwaitedBy(u, d)' <=> AwaitedBy(u, d)
      BY DEF AwaitedBy
    <3> QED BY <3>1, <3>2
  <2>3. ASSUME NEW d \in CallIds PROVE futures'[d] # "absent" <=> \E u \in Turns : AwaitedBy(u, d)'
    <3>1. CASE d = c
      BY <3>1, <1>2, <2>1
    <3>2. CASE d # c
      BY <3>2, <1>2, <2>2 DEF ApprovalInv, OpenIsAwaited
    <3> QED BY <3>1, <3>2
  <2> QED BY <2>3 DEF OpenIsAwaited
<1> QED BY <1>4, <1>5, <1>6 DEF ApprovalInv

-----------------------------------------------------------------------------
(* One lemma for each kind of step of a turn.                              *)

\* The steps that neither ask nor read an answer.
LEMMA PlainStepKeeps ==
  ASSUME ApprovalInv, NEW t \in Turns,
         Approvals!TurnStart(t) \/ Approvals!StreamEnd(t) \/ Approvals!RetryEnds(t) \/ Approvals!TurnError(t)
  PROVE  ApprovalInv'
<1>1. Settled /\ UNCHANGED <<sandboxes, submissions, active, futures>>
  BY DEF Approvals!TurnStart, Approvals!StreamEnd, Approvals!RetryEnds, Approvals!TurnError, Settled,
       Approvals!sessionVars, Approvals!queueVars, Approvals!consentVars
<1>2. CASE Approvals!TurnStart(t)
  <2>1. pc[t] = "created" /\ Approvals!Go(t, "streaming") /\ "streaming" \in TurnPhases \ Handling
    BY <1>2 DEF Approvals!TurnStart, Approvals!Resume, TurnPhases, Approvals!Waiting, Handling
  <2>2. /\ pc' \in [Turns -> TurnPhases] /\ pc'[t] = "streaming" /\ UNCHANGED <<todo, made>> /\ CallsApart'
        /\ \A u \in Turns \ {t} : pc'[u] = pc[u] /\ todo'[u] = todo[u]
    BY <2>1, GoesOn
  <2>3. ApprovalTypes'
    BY <1>1, <2>2 DEF ApprovalInv, ApprovalTypes, Settled
  <2> QED BY <1>1, <2>1, <2>2, <2>3, QuietKeeps
<1>3. CASE Approvals!StreamEnd(t)
  <2> DEFINE next == IF todo[t] = <<>> THEN "done" ELSE "calls"
  <2>1. /\ pc[t] = "streaming" /\ Approvals!Go(t, next) /\ next \in TurnPhases /\ next \notin {"ask", "escalate"}
        /\ next \in Handling => todo[t] # <<>>
    BY <1>3 DEF Approvals!StreamEnd, Approvals!Resume, TurnPhases, Approvals!Waiting, Handling
  <2> HIDE DEF next
  <2>2. /\ pc' \in [Turns -> TurnPhases] /\ pc'[t] = next /\ UNCHANGED <<todo, made>> /\ CallsApart'
        /\ \A u \in Turns \ {t} : pc'[u] = pc[u] /\ todo'[u] = todo[u]
    BY <2>1, GoesOn
  <2>3. ApprovalTypes'
    BY <1>1, <2>2 DEF ApprovalInv, ApprovalTypes, Settled
  <2> QED BY <1>1, <2>1, <2>2, <2>3, QuietKeeps
<1>4. CASE Approvals!RetryEnds(t)
  <2>1. pc[t] = "retry" /\ Approvals!Answered(t) /\ pc[t] \in Handling
    BY <1>4 DEF Approvals!RetryEnds, Approvals!Resume, Handling
  <2>2. ApprovalTypes' /\ CallsApart'
    BY <1>1, <2>1, AnsweredLeaves DEF ApprovalInv, ApprovalTypes, Settled
  <2>3. pc'[t] \notin {"ask", "escalate"} /\ \A u \in Turns \ {t} : pc'[u] = pc[u] /\ todo'[u] = todo[u]
    BY <2>1, AnsweredLeaves
  <2> QED BY <1>1, <2>1, <2>2, <2>3, QuietKeeps
<1>5. CASE Approvals!TurnError(t)
  <2>1. /\ pc[t] \notin {"ask", "escalate"} /\ UNCHANGED made
        /\ pc' = [pc EXCEPT ![t] = "done"] /\ todo' = [todo EXCEPT ![t] = <<>>]
    BY <1>5 DEF Approvals!TurnError, Approvals!Resume
  <2>2. /\ todo' \in [Turns -> Seq(CallIds)] /\ pc' \in [Turns -> TurnPhases] /\ pc'[t] = "done" /\ CallsApart'
        /\ \A u \in Turns \ {t} : pc'[u] = pc[u] /\ todo'[u] = todo[u]
    BY <2>1, EndsTurn
  <2>3. ApprovalTypes'
    BY <1>1, <2>1, <2>2 DEF ApprovalInv, ApprovalTypes, Settled
  <2> QED BY <1>1, <2>1, <2>2, <2>3, QuietKeeps
<1> QED BY <1>2, <1>3, <1>4, <1>5

\* A command that is approved for the session was so by an answer, and then somebody may be asked.
LEMMA ApprovedRuns ==
  ASSUME ApprovalInv, NEW c \in CallIds, CmdOf[c] \in approved, ran' = ran \cup {c},
         UNCHANGED <<approval_policy, asked, answers>>
  PROVE  RunsAllowed' /\ NobodyIsAsked'
<1>1. \E d \in asked : answers[d] = "approved_for_session" /\ CmdOf[d] = CmdOf[c]
  BY DEF ApprovalInv, AnswersKept
<1>2. \A d : Allowed(d) => Allowed(d)'
  BY DEF Allowed, Approvals!Granted
<1>3. Allowed(c)'
  BY <1>1 DEF Allowed
<1> QED BY <1>1, <1>2, <1>3 DEF ApprovalInv, RunsAllowed, NobodyIsAsked

LEMMA BeginKeeps ==
  ASSUME ApprovalInv, NEW t \in Turns, Approvals!Begin(t)
  PROVE  ApprovalInv'
<1>0. pc[t] = "calls" /\ pc[t] \in Handling /\ pc[t] \notin {"ask", "escalate"}
  BY DEF Approvals!Begin, Handling
<1>1. UNCHANGED <<Approvals!sessionVars, Approvals!queueVars, approved, answers>>
  BY DEF Approvals!Begin
<1>2. CASE Approvals!Answered(t) /\ UNCHANGED <<futures, asked, ran>>
  <2>1. Settled /\ UNCHANGED <<sandboxes, submissions, active, futures>>
    BY <1>1, <1>2 DEF Settled, Approvals!sessionVars, Approvals!queueVars
  <2>2. ApprovalTypes' /\ CallsApart'
    BY <1>0, <1>2, <2>1, AnsweredLeaves DEF ApprovalInv, ApprovalTypes, Settled
  <2>3. pc'[t] \notin {"ask", "escalate"} /\ \A u \in Turns \ {t} : pc'[u] = pc[u] /\ todo'[u] = todo[u]
    BY <1>0, <1>2, AnsweredLeaves
  <2> QED BY <1>0, <2>1, <2>2, <2>3, QuietKeeps
<1>3. CASE Approvals!Assess(CmdOf[Head(todo[t])]) = "ask" /\ Approvals!Ask(t, "ask") /\ UNCHANGED ran
  <2>1. approval_policy # "never"
    BY <1>3 DEF Approvals!Assess
  <2> QED BY <1>0, <1>1, <1>3, <2>1, AskKeeps
<1>4. CASE /\ Approvals!Go(t, "exec") /\ UNCHANGED <<futures, asked>>
           /\ ran' = IF Approvals!Assess(CmdOf[Head(todo[t])]) = "unsandboxed" THEN ran \cup {Head(todo[t])} ELSE ran
  <2>1. "exec" \in TurnPhases /\ "exec" \in Handling /\ Head(todo[t]) \in CallIds
    BY <1>0, InHandIsCall DEF TurnPhases, Approvals!Waiting, Handling
  <2>2. /\ pc' \in [Turns -> TurnPhases] /\ pc'[t] = "exec" /\ UNCHANGED <<todo, made>> /\ CallsApart'
        /\ \A u \in Turns \ {t} : pc'[u] = pc[u] /\ todo'[u] = todo[u]
    BY <1>0, <1>4, <2>1, GoesOn
  <2>3. ApprovalTypes'
    BY <1>1, <1>4, <2>1, <2>2 DEF ApprovalInv, ApprovalTypes, Approvals!sessionVars, Approvals!queueVars
  <2>4. AnswersKept'
    BY <1>1, <1>4 DEF ApprovalInv, AnswersKept, Approvals!queueVars
  <2>5. RunsAllowed' /\ NobodyIsAsked'
    <3>1. CASE Approvals!Assess(CmdOf[Head(todo[t])]) = "unsandboxed"
      <4>1. CmdOf[Head(todo[t])] \in approved
        BY <3>1 DEF Approvals!Assess
      <4> QED BY <1>1, <1>4, <2>1, <3>1, <4>1, ApprovedRuns DEF Approvals!sessionVars
    <3>2. CASE Approvals!Assess(CmdOf[Head(todo[t])]) # "unsandboxed"
      BY <1>1, <1>4, <3>2, SettledKeeps DEF Settled, Approvals!sessionVars
    <3> QED BY <3>1, <3>2
  <2>6. OpenIsAwaited'
    <3>1. \A u \in Turns, c \in CallIds : AwaitedBy(u, c)' <=> AwaitedBy(u, c)
      BY <1>0, <2>2 DEF AwaitedBy
    <3> QED BY <1>4, <3>1 DEF ApprovalInv, OpenIsAwaited
  <2> QED BY <2>2, <2>3, <2>4, <2>5, <2>6 DEF ApprovalInv
<1> QED BY <1>2, <1>3, <1>4 DEF Approvals!Begin

LEMMA ExecEndsKeeps ==
  ASSUME ApprovalInv, NEW t \in Turns, Approvals!ExecEnds(t)
  PROVE  ApprovalInv'
<1>0. pc[t] = "exec" /\ pc[t] \in Handling
  BY DEF Approvals!ExecEnds, Approvals!Resume, Handling
<1>1. UNCHANGED <<Approvals!sessionVars, Approvals!queueVars, approved, answers, ran>>
  BY DEF Approvals!ExecEnds
<1>2. CASE Approvals!Answered(t) /\ UNCHANGED <<futures, asked>>
  <2>1. Settled /\ UNCHANGED <<sandboxes, submissions, active, futures>>
    BY <1>1, <1>2 DEF Settled, Approvals!sessionVars, Approvals!queueVars
  <2>2. ApprovalTypes' /\ CallsApart'
    BY <1>0, <1>2, <2>1, AnsweredLeaves DEF ApprovalInv, ApprovalTypes, Settled
  <2>3. pc'[t] \notin {"ask", "escalate"} /\ \A u \in Turns \ {t} : pc'[u] = pc[u] /\ todo'[u] = todo[u]
    BY <1>0, <1>2, AnsweredLeaves
  <2> QED BY <1>0, <2>1, <2>2, <2>3, QuietKeeps
<1>3. CASE approval_policy # "never" /\ Approvals!Ask(t, "escalate")
  BY <1>0, <1>1, <1>3, AskKeeps
<1> QED BY <1>2, <1>3 DEF Approvals!ExecEnds

\* What an answer is remembered as.
LEMMA RemembersAnswer ==
  ASSUME NEW c, approved' = Approvals!Remembered(c)
  PROVE  /\ approved \subseteq approved'
         /\ \A cmd \in approved' \ approved : CmdOf[c] = cmd /\ futures[c] = "approved_for_session"
BY DEF Approvals!Remembered

LEMMA AskAnsweredKeeps ==
  ASSUME ApprovalInv, NEW t \in Turns, Approvals!AskAnswered(t)
  PROVE  ApprovalInv'
<1>0. pc[t] \in {"ask", "escalate"} /\ pc[t] \in Handling
  BY DEF Approvals!AskAnswered, Approvals!Resume, Handling
<1>1. /\ futures' = [futures EXCEPT ![Head(todo[t])] = "absent"]
      /\ UNCHANGED <<Approvals!sessionVars, Approvals!queueVars, asked, answers>>
  BY DEF Approvals!AskAnswered
<1>2. /\ approved \subseteq approved'
      /\ \A cmd \in approved' \ approved :
           CmdOf[Head(todo[t])] = cmd /\ futures[Head(todo[t])] = "approved_for_session"
      /\ ran \subseteq ran'
      /\ \A c \in ran' \ ran : c = Head(todo[t]) /\ futures[c] \in Granting
  BY RemembersAnswer DEF Approvals!AskAnswered, Granting, Approvals!Decisions, Approvals!Refusals
<1>3. Approvals!Answered(t) \/ Approvals!Go(t, "retry")
  BY DEF Approvals!AskAnswered
<1>4. /\ todo' \in [Turns -> Seq(CallIds)] /\ pc' \in [Turns -> TurnPhases] /\ UNCHANGED made /\ CallsApart'
      /\ pc'[t] \notin {"ask", "escalate"}
      /\ \A u \in Turns \ {t} : pc'[u] = pc[u] /\ todo'[u] = todo[u]
  <2>1. CASE Approvals!Answered(t)
    BY <1>0, <2>1, AnsweredLeaves
  <2>2. CASE Approvals!Go(t, "retry")
    <3>1. "retry" \in TurnPhases
      BY DEF TurnPhases, Approvals!Waiting
    <3> QED BY <1>0, <2>2, <3>1, GoesOn DEF ApprovalInv, ApprovalTypes
  <2> QED BY <1>3, <2>1, <2>2
<1>5. ran' \subseteq CallIds /\ futures' \in [CallIds -> {"absent", "open", "cancelled"} \cup Approvals!Decisions]
  BY <1>0, <1>1, <1>2, InHandIsCall DEF ApprovalInv, ApprovalTypes
<1>6. ApprovalTypes'
  BY <1>1, <1>4, <1>5 DEF ApprovalInv, ApprovalTypes, Approvals!sessionVars, Approvals!queueVars
<1>7. UNCHANGED <<submissions, approval_policy, asked, answers>>
  BY <1>1 DEF Approvals!sessionVars, Approvals!queueVars
<1> QED BY <1>0, <1>1, <1>2, <1>4, <1>6, <1>7, WaitEnds

\* A turn that ends with a question open takes the question away.
LEMMA AskingTurnEnds ==
  ASSUME ApprovalInv, NEW t \in Turns, pc[t] \in {"ask", "escalate"},
         futures' = [futures EXCEPT ![Head(todo[t])] = "absent"],
         pc' = [pc EXCEPT ![t] = "done"], todo' = [todo EXCEPT ![t] = <<>>],
         approved' = approved \/ approved' = Approvals!Remembered(Head(todo[t])),
         UNCHANGED <<Approvals!sessionVars, Approvals!queueVars, made, asked, answers, ran>>
  PROVE  ApprovalInv'
<1>1. /\ todo' \in [Turns -> Seq(CallIds)] /\ pc' \in [Turns -> TurnPhases] /\ pc'[t] = "done" /\ CallsApart'
      /\ \A u \in Turns \ {t} : pc'[u] = pc[u] /\ todo'[u] = todo[u]
  BY EndsTurn
<1>2. /\ approved \subseteq approved'
      /\ \A cmd \in approved' \ approved :
           CmdOf[Head(todo[t])] = cmd /\ futures[Head(todo[t])] = "approved_for_session"
  BY RemembersAnswer
<1>3. pc[t] \in Handling
  BY DEF Handling
<1>4. ApprovalTypes'
  BY <1>1, <1>3, InHandIsCall DEF ApprovalInv, ApprovalTypes, Approvals!sessionVars, Approvals!queueVars
<1>5. UNCHANGED <<submissions, approval_policy, asked, answers>>
  BY DEF Approvals!sessionVars, Approvals!queueVars
<1> QED BY <1>1, <1>2, <1>4, <1>5, WaitEnds

LEMMA CancelledKeeps ==
  ASSUME ApprovalInv, NEW t \in Turns, Approvals!TurnCancelled(t) \/ Approvals!AskedCommandFails(t)
  PROVE  ApprovalInv'
<1>1. /\ pc' = [pc EXCEPT ![t] = "done"] /\ todo' = [todo EXCEPT ![t] = <<>>]
      /\ UNCHANGED <<Approvals!sessionVars, Approvals!queueVars, made, asked, answers, ran>>
  BY DEF Approvals!TurnCancelled, Approvals!AskedCommandFails
<1>2. approved' = approved \/ approved' = Approvals!Remembered(Head(todo[t]))
  BY DEF Approvals!TurnCancelled, Approvals!AskedCommandFails
<1>3. CASE pc[t] \in {"ask", "escalate"}
  <2>1. futures' = [futures EXCEPT ![Head(todo[t])] = "absent"]
    BY <1>3 DEF Approvals!TurnCancelled, Approvals!AskedCommandFails
  <2> QED BY <1>1, <1>2, <1>3, <2>1, AskingTurnEnds
<1>4. CASE pc[t] \notin {"ask", "escalate"}
  <2>1. Settled /\ UNCHANGED <<sandboxes, submissions, active, futures>>
    BY <1>1, <1>4 DEF Approvals!TurnCancelled, Approvals!AskedCommandFails, Approvals!Resume, Settled,
         Approvals!sessionVars, Approvals!queueVars
  <2>2. /\ todo' \in [Turns -> Seq(CallIds)] /\ pc' \in [Turns -> TurnPhases] /\ pc'[t] = "done" /\ CallsApart'
        /\ \A u \in Turns \ {t} : pc'[u] = pc[u] /\ todo'[u] = todo[u]
    BY <1>1, EndsTurn
  <2>3. ApprovalTypes'
    BY <1>1, <2>1, <2>2 DEF ApprovalInv, ApprovalTypes, Settled
  <2> QED BY <1>4, <2>1, <2>2, <2>3, QuietKeeps
<1> QED BY <1>3, <1>4

LEMMA ApprovalStep == ApprovalInv /\ [Approvals!Next]_(Approvals!vars) => ApprovalInv'
<1> SUFFICES ASSUME ApprovalInv, [Approvals!Next]_(Approvals!vars) PROVE ApprovalInv'
  OBVIOUS
<1>1. ASSUME NEW t \in Turns, Approvals!Turn(t) PROVE ApprovalInv'
  BY <1>1, PlainStepKeeps, StreamKeeps, BeginKeeps, ExecEndsKeeps, AskAnsweredKeeps, CancelledKeeps DEF Approvals!Turn
<1>2. CASE UNCHANGED Approvals!vars
  <2>1. /\ UNCHANGED <<approval_policy, sandboxes, submissions, listening, active, pc, todo, made, cancelled>>
        /\ UNCHANGED <<futures, approved, asked, answers, ran>>
    BY <1>2 DEF Approvals!vars, Approvals!sessionVars, Approvals!queueVars, Approvals!turnVars, Approvals!consentVars
  <2>2. Settled
    BY <2>1 DEF Settled
  <2>3. ApprovalTypes'
    BY <2>1 DEF ApprovalInv, ApprovalTypes
  <2>4. CallsApart'
    BY <2>1 DEF ApprovalInv, CallsApart
  <2>5. AnswersKept' /\ OpenIsAwaited'
    BY <2>1 DEF ApprovalInv, AnswersKept, OpenIsAwaited, AwaitedBy
  <2> QED BY <2>2, <2>3, <2>4, <2>5, SettledKeeps DEF ApprovalInv
<1> QED BY <1>1, <1>2, ClientKeeps, UserTurnKeeps, ReadingKeeps DEF Approvals!Next

\* Whatever turns run, ask and are interrupted at once: a call is in one turn's hands only, and an answer that
\* waits, in the queue or in a future, is the one the user gave to that question (Session.resolve_approval,
\* Session._ask).
THEOREM ApprovalInductive == Approvals!Spec => []ApprovalInv
<1>1. Approvals!Init => ApprovalInv
  BY ApprovalStarts
<1>2. ApprovalInv /\ [Approvals!Next]_(Approvals!vars) => ApprovalInv'
  BY ApprovalStep
<1> QED BY <1>1, <1>2, PTL DEF Approvals!Spec

THEOREM Consent == Approvals!Spec => []Approvals!ConsentIsTheUsers
<1>1. Approvals!Spec => []ApprovalInv
  BY ApprovalInductive
<1>2. ApprovalInv => Approvals!ConsentIsTheUsers
  BY Consents
<1> QED BY <1>1, <1>2, PTL

\* For any number of turns and calls: a command leaves the sandbox only by the user's word, nobody is asked where
\* nobody is to be, and a question is open exactly while its turn waits (_exec_with_approval, resolve_approval).
THEOREM AlwaysConsent == ChaptersSpec => []ConsentIsTheUsers
<1>1. ChaptersInit /\ chapter = "s08" => Approvals!Init
  BY DEF ChaptersInit
<1>2. chapter = "s08" /\ [ChaptersNext]_chapterVars => (chapter = "s08")' /\ [Approvals!Next]_(Approvals!vars)
  BY DEF ChaptersNext, chapterVars, approvalVars, threadVars,
         Approvals!vars, Approvals!sessionVars, Approvals!queueVars, Approvals!turnVars, Approvals!consentVars
<1>3. ChaptersSpec /\ chapter = "s08" => Approvals!Spec
  BY <1>1, <1>2, PTL DEF ChaptersSpec, Approvals!Spec
<1>4. ~(chapter = "s08") /\ [ChaptersNext]_chapterVars => (~(chapter = "s08"))'
  BY DEF ChaptersNext, chapterVars
<1>5. ChaptersSpec /\ ~(chapter = "s08") => [](~(chapter = "s08"))
  BY <1>4, PTL DEF ChaptersSpec
<1>6. (~(chapter = "s08") => ConsentIsTheUsers) /\ (Approvals!ConsentIsTheUsers => ConsentIsTheUsers)
  BY DEF ConsentIsTheUsers
<1>7. Approvals!Spec => []Approvals!ConsentIsTheUsers
  BY Consent
<1> QED BY <1>3, <1>5, <1>6, <1>7, PTL

(***************************************************************************)
(* s03 and s04: around one turn                                            *)
(***************************************************************************)
Texts == (Dirs \X BOOLEAN \X Dates) \cup (Modes \X BOOLEAN \X {"any day"})

Items ==
  [kind : Sections \cup {"user", "message", "function_call", "function_call_output"}, about : Nat \cup Texts]

WTyped ==
  /\ history \in Seq(Items) /\ calls \in Seq(Nat)
  /\ phase \in {"idle", "request", "tools", "crashed"}
  /\ phase = "tools" => calls # <<>>
  /\ today \in Dates /\ defaults \in Settings
  /\ last \in [Sections -> Texts \cup {Nothing}]

\* h says what is remembered of the section, or nothing if nothing is.
Remembered(h, section, text) ==
  \/ text = Nothing /\ \A i \in DOMAIN h : h[i].kind # section
  \/ Tells(h, section, text)

\* Until an exception ends the program, what is remembered has been told; in a turn it is the turn's.
LastIsTold ==
  phase # "crashed" =>
    /\ \A section \in Sections : Remembered(history, section, last[section])
    /\ phase \in {"request", "tools"} =>
         \A section \in Sections : last[section] = Render(section, turn.ctx, turn.day)

WInv == WTyped /\ LastIsTold /\ TellsOnlyChanges(history)

-----------------------------------------------------------------------------
(* What one more item does to a history.                                   *)

LEMMA AppendLast ==
  ASSUME NEW h \in Seq(Items), NEW x \in Items
  PROVE  /\ Append(h, x) \in Seq(Items)
         /\ DOMAIN h = 1 .. Len(h) /\ Len(h) \in Nat
         /\ DOMAIN Append(h, x) = 1 .. Len(h) + 1
         /\ Append(h, x)[Len(h) + 1] = x
         /\ \A i \in 1 .. Len(h) : Append(h, x)[i] = h[i]
  OBVIOUS

\* An item of another kind takes nothing back.
LEMMA AppendKeeps ==
  ASSUME NEW h \in Seq(Items), NEW x \in Items, NEW section, NEW text,
         x.kind # section, Remembered(h, section, text)
  PROVE  Remembered(Append(h, x), section, text)
<1>1. CASE text = Nothing /\ \A i \in DOMAIN h : h[i].kind # section
  BY <1>1, AppendLast DEF Remembered
<1>2. CASE Tells(h, section, text)
  <2>1. PICK i \in DOMAIN h : h[i] = Item(section, text) /\ \A j \in DOMAIN h : j > i => h[j].kind # section
    BY <1>2 DEF Tells
  <2>2. i \in DOMAIN Append(h, x) /\ Append(h, x)[i] = Item(section, text)
    BY <2>1, AppendLast
  <2>3. \A j \in DOMAIN Append(h, x) : j > i => Append(h, x)[j].kind # section
    BY <2>1, AppendLast
  <2> QED BY <2>2, <2>3 DEF Remembered, Tells
<1> QED BY <1>1, <1>2 DEF Remembered

LEMMA AppendTells ==
  ASSUME NEW h \in Seq(Items), NEW section, NEW text, Item(section, text) \in Items
  PROVE  Tells(Append(h, Item(section, text)), section, text)
  BY AppendLast DEF Tells

\* An item that is no section, or that says something else than what is remembered of its section.
LEMMA AppendChanges ==
  ASSUME NEW h \in Seq(Items), NEW x \in Items, TellsOnlyChanges(h),
         x.kind \in Sections => \E text : Remembered(h, x.kind, text) /\ x # Item(x.kind, text)
  PROVE  TellsOnlyChanges(Append(h, x))
<1> DEFINE g == Append(h, x)
<1> SUFFICES ASSUME NEW i \in DOMAIN g, NEW j \in DOMAIN g,
                    i < j, g[i].kind \in Sections, g[j].kind = g[i].kind,
                    \A k \in DOMAIN g : i < k /\ k < j => g[k].kind # g[i].kind
             PROVE  g[i] # g[j]
  BY DEF TellsOnlyChanges
<1>1. i \in DOMAIN h /\ g[i] = h[i]
  BY AppendLast
<1>2. CASE j \in DOMAIN h
  <2>1. g[j] = h[j] /\ \A k \in DOMAIN h : i < k /\ k < j => h[k].kind # h[i].kind
    BY <1>1, <1>2, AppendLast
  <2> QED BY <1>1, <1>2, <2>1 DEF TellsOnlyChanges
<1>3. CASE j \notin DOMAIN h
  <2>1. g[j] = x /\ \A k \in DOMAIN h : k < j
    BY <1>3, AppendLast
  <2>2. PICK text : Remembered(h, x.kind, text) /\ x # Item(x.kind, text)
    BY <2>1
  <2>3. PICK n \in DOMAIN h : h[n] = Item(x.kind, text) /\ \A k \in DOMAIN h : k > n => h[k].kind # x.kind
    BY <1>1, <2>1, <2>2 DEF Remembered, Tells
  <2>4. h[n].kind = x.kind
    BY <2>3 DEF Item
  <2>5. i = n
    <3>1. ~(i > n)
      BY <1>1, <2>1, <2>3
    <3>2. ~(i < n)
      <4>1. n \in DOMAIN g /\ g[n] = h[n] /\ n < j
        BY <2>1, AppendLast
      <4> QED BY <4>1, <2>1, <2>4
    <3> QED BY <1>1, <3>1, <3>2, AppendLast
  <2> QED BY <1>1, <2>1, <2>2, <2>3, <2>5
<1> QED BY <1>2, <1>3

-----------------------------------------------------------------------------
(* WorldState.updates, for one section.                                    *)

LEMMA Triple ==
  ASSUME NEW a, NEW b, NEW c
  PROVE  <<a, b, c>> # <<>>
<1>1. Len(<<a, b, c>>) = 3 /\ Len(<<>>) = 0
  OBVIOUS
<1> QED BY <1>1

LEMMA Rendered ==
  ASSUME NEW section \in Sections, NEW ctx \in Settings, NEW day \in Dates
  PROVE  /\ Render(section, ctx, day) \in Texts
         /\ Render(section, ctx, day) # Nothing
         /\ Item(section, Render(section, ctx, day)) \in Items
<1>1. ctx.cwd \in Dirs /\ ctx.mode \in Modes /\ ctx.network \in BOOLEAN
  BY DEF Settings
<1>2. Render(section, ctx, day) \in Texts
  BY <1>1 DEF Render, Texts
<1>3. Render(section, ctx, day) # Nothing
  BY Triple DEF Render, Nothing
<1>4. Item(section, Render(section, ctx, day)) \in Items
  BY <1>2 DEF Item, Items
<1> QED BY <1>2, <1>3, <1>4

LEMMA Updated ==
  ASSUME NEW h \in Seq(Items), NEW section \in Sections, NEW ctx \in Settings, today \in Dates,
         last[section] \in Texts \cup {Nothing}, Remembered(h, section, last[section]), TellsOnlyChanges(h)
  PROVE  /\ h \o Update(section, ctx) \in Seq(Items) /\ Update(section, ctx) \in Seq(Items)
         /\ TellsOnlyChanges(h \o Update(section, ctx))
         /\ Tells(h \o Update(section, ctx), section, Render(section, ctx, today))
         /\ \A other, text : other # section /\ Remembered(h, other, text)
                               => Remembered(h \o Update(section, ctx), other, text)
<1> DEFINE text == Render(section, ctx, today)
           x    == Item(section, text)
<1>0. text \in Texts /\ text # Nothing /\ x \in Items
  BY Rendered
<1>1. CASE last[section] = text
  <2>1. Update(section, ctx) = <<>> /\ h \o <<>> = h
    BY <1>1 DEF Update
  <2>2. Tells(h, section, text)
    BY <1>0, <1>1 DEF Remembered
  <2> QED BY <2>1, <2>2
<1>2. CASE last[section] # text
  <2>1. Update(section, ctx) = <<x>> /\ h \o <<x>> = Append(h, x)
    BY <1>0, <1>2, AppendIsConcat DEF Update
  <2>2. x.kind = section /\ x # Item(section, last[section])
    BY <1>2 DEF Item
  <2>3. TellsOnlyChanges(Append(h, x))
    BY <1>0, <2>2, AppendChanges
  <2>4. Tells(Append(h, x), section, text)
    BY <1>0, AppendTells
  <2>5. \A other, t : other # section /\ Remembered(h, other, t) => Remembered(Append(h, x), other, t)
    BY <1>0, <2>2, AppendKeeps
  <2>6. Append(h, x) \in Seq(Items) /\ <<x>> \in Seq(Items)
    BY <1>0
  <2> QED BY <2>1, <2>3, <2>4, <2>5, <2>6
<1> QED BY <1>1, <1>2

-----------------------------------------------------------------------------
(* The invariant is inductive.                                             *)

LEMMA InitInv == Init => WInv
<1> SUFFICES ASSUME Init PROVE WInv
  OBVIOUS
<1>1. WTyped
  BY DEF Init, LoopInit, WTyped
<1>2. LastIsTold
  BY DEF Init, LoopInit, LastIsTold, Remembered
<1>3. TellsOnlyChanges(history)
  BY DEF Init, LoopInit, TellsOnlyChanges
<1> QED BY <1>1, <1>2, <1>3 DEF WInv

LEMMA TurnInv ==
  ASSUME WInv, NEW o \in Overrides, RunTurn(o)
  PROVE  WInv'
<1> DEFINE ctx  == Overridden(defaults, o)
           e    == Update("environment", ctx)
           p    == Update("permissions", ctx)
           u    == Item("user", 0)
           told == (history \o e) \o p
<1> USE DEF WInv
<1>1. ctx \in Settings
  BY KeepAssumption DEF WTyped, Settings, Overrides, Overridden
<1>2. /\ history \in Seq(Items) /\ today \in Dates /\ phase = "idle"
      /\ \A section \in Sections : /\ last[section] \in Texts \cup {Nothing}
                                   /\ Remembered(history, section, last[section])
  BY DEF WTyped, LastIsTold, RunTurn, Ask
<1>3. /\ e \in Seq(Items) /\ history \o e \in Seq(Items) /\ TellsOnlyChanges(history \o e)
      /\ Tells(history \o e, "environment", Render("environment", ctx, today))
      /\ Remembered(history \o e, "permissions", last["permissions"])
  BY <1>1, <1>2, Updated DEF Sections
<1>4. /\ p \in Seq(Items) /\ told \in Seq(Items) /\ TellsOnlyChanges(told)
      /\ Tells(told, "permissions", Render("permissions", ctx, today))
      /\ Remembered(told, "environment", Render("environment", ctx, today))
  BY <1>1, <1>2, <1>3, Updated DEF Sections, Remembered
<1>5. u \in Items /\ u.kind = "user" /\ u.kind \notin Sections
  BY DEF Item, Items, Sections
<1>6. history' = Append(told, u)
  <2>1. history' = history \o (e \o p) \o <<u>>
    BY DEF RunTurn, Ask
  <2>2. history \o (e \o p) = told
    BY <1>2, <1>3, <1>4, ConcatAssociative
  <2> QED BY <1>4, <1>5, <2>1, <2>2, AppendIsConcat
<1>7. /\ last' = [section \in Sections |-> Render(section, ctx, today)]
      /\ turn' = [ctx |-> ctx, day |-> today] /\ today' = today /\ defaults' = ctx
      /\ phase' = "request" /\ calls' = calls
  BY DEF RunTurn, Ask, Begins
<1>8. WTyped'
  <2>1. history' \in Seq(Items)
    BY <1>4, <1>5, <1>6
  <2>2. last' \in [Sections -> Texts \cup {Nothing}]
    BY <1>1, <1>2, <1>7, Rendered
  <2> QED BY <1>1, <1>2, <1>7, <2>1, <2>2 DEF WTyped
<1>9. LastIsTold'
  <2>1. ASSUME NEW section \in Sections
        PROVE  Remembered(history', section, last'[section]) /\ last'[section] = Render(section, turn'.ctx, turn'.day)
    <3>1. last'[section] = Render(section, ctx, today) /\ section # "user"
      BY <1>7 DEF Sections
    <3>2. Remembered(told, section, Render(section, ctx, today))
      BY <1>4 DEF Sections, Remembered
    <3> QED BY <1>4, <1>5, <1>6, <1>7, <3>1, <3>2, AppendKeeps
  <2> QED BY <2>1 DEF LastIsTold
<1>10. TellsOnlyChanges(history')
  BY <1>4, <1>5, <1>6, AppendChanges
<1> QED BY <1>8, <1>9, <1>10

\* The loop of s01 only adds items that are no sections.
LEMMA LoopInv ==
  ASSUME WInv, Loop
  PROVE  WInv'
<1> USE DEF WInv
<1>1. ASSUME NEW x \in Items, x.kind \notin Sections, history' = Append(history, x), phase \in {"request", "tools"}
      PROVE  /\ history' \in Seq(Items) /\ TellsOnlyChanges(history')
             /\ LastIsTold'
  <2>1. history' \in Seq(Items) /\ TellsOnlyChanges(history')
    BY <1>1, AppendChanges DEF WTyped
  <2>2. last' = last /\ turn' = turn
    BY DEF Loop
  <2>3. ASSUME NEW section \in Sections PROVE Remembered(history', section, last[section])
    BY <1>1, AppendKeeps DEF WTyped, LastIsTold
  <2> QED BY <1>1, <2>1, <2>2, <2>3 DEF LastIsTold
<1>2. UNCHANGED <<today, defaults, last, turn>>
  BY DEF Loop
<1>3. ASSUME NEW kind \in {"message", "function_call"}, Streamed(kind)
      PROVE  WInv'
  <2>1. Item(kind, 0) \in Items /\ Item(kind, 0).kind \notin Sections
    BY DEF Item, Items, Sections
  <2>2. history' = Append(history, Item(kind, 0)) /\ phase = "request" /\ phase' = phase
    BY <1>3 DEF Streamed
  <2>3. /\ history' \in Seq(Items) /\ TellsOnlyChanges(history')
        /\ LastIsTold'
    BY <1>1, <2>1, <2>2
  <2>4. calls' \in Seq(Nat)
    <3>1. Len(history') \in Nat
      BY <2>3
    <3> QED BY <1>3, <3>1 DEF Streamed, WTyped
  <2>5. WTyped'
    BY <1>2, <2>2, <2>3, <2>4 DEF WTyped
  <2> QED BY <2>3, <2>5
<1>4. ASSUME ResponseEnds PROVE WInv'
  BY <1>2, <1>4 DEF ResponseEnds, WTyped, LastIsTold
<1>5. ASSUME ToolAnswers PROVE WInv'
  <2> DEFINE x == Item("function_call_output", Head(calls))
  <2>1. calls \in Seq(Nat) /\ calls # <<>> /\ phase = "tools"
    BY <1>5 DEF ToolAnswers, WTyped
  <2>2. Head(calls) \in Nat /\ Tail(calls) \in Seq(Nat)
    BY <2>1
  <2>3. x \in Items /\ x.kind \notin Sections
    BY <2>2 DEF Item, Items, Sections
  <2>4. /\ history' \in Seq(Items) /\ TellsOnlyChanges(history')
        /\ LastIsTold'
    BY <1>1, <1>5, <2>1, <2>3 DEF ToolAnswers
  <2>5. /\ calls' \in Seq(Nat) /\ phase' \in {"request", "tools"}
        /\ phase' = "tools" => calls' # <<>>
    BY <1>5, <2>2 DEF ToolAnswers
  <2>6. WTyped'
    BY <1>2, <2>4, <2>5 DEF WTyped
  <2> QED BY <2>4, <2>6
<1>6. ASSUME Crash PROVE WInv'
  BY <1>2, <1>6 DEF Crash, WTyped, LastIsTold
<1> QED BY <1>3, <1>4, <1>5, <1>6 DEF Loop, LoopNext

LEMMA NextInv == WInv /\ [Next]_vars => WInv'
<1> SUFFICES ASSUME WInv, [Next]_vars PROVE WInv'
  OBVIOUS
<1> USE DEF WInv
<1>1. ASSUME NEW o \in Overrides, RunTurn(o) PROVE WInv'
  BY <1>1, TurnInv
<1>2. ASSUME NEW o \in Overrides, RunTurnRaises(o) PROVE WInv'
  <2> DEFINE ctx == Overridden(defaults, o)
  <2>1. ctx \in Settings
    BY KeepAssumption DEF WTyped, Settings, Overrides, Overridden
  <2>2. Render("environment", ctx, today) \in Texts
    BY <2>1, Rendered DEF WTyped, Sections
  <2>3. /\ phase' = "crashed" /\ history' = history /\ calls' = calls /\ today' = today /\ defaults' = ctx
        /\ last' = [last EXCEPT !["environment"] = Render("environment", ctx, today)]
    BY <1>2 DEF RunTurnRaises, Begins
  <2>4. WTyped'
    BY <2>1, <2>2, <2>3 DEF WTyped
  <2> QED BY <2>3, <2>4 DEF LastIsTold
<1>3. ASSUME Loop PROVE WInv'
  BY <1>3, LoopInv
<1>4. ASSUME Midnight PROVE WInv'
  BY <1>4 DEF Midnight, WTyped, LastIsTold
<1>5. CASE UNCHANGED vars
  BY <1>5 DEF vars, WTyped, LastIsTold
<1> QED BY <1>1, <1>2, <1>3, <1>4, <1>5 DEF Next

\* The invariant holds: what is remembered of a section is what the history says of it.
THEOREM WorldInductive == Spec => []WInv
<1> QED BY InitInv, NextInv, PTL DEF Spec

LEMMA Known == WInv => ModelKnowsContext
<1> SUFFICES ASSUME WInv, phase \in {"request", "tools"}
             PROVE  /\ Tells(history, "environment", <<turn.ctx.cwd, turn.ctx.network, turn.day>>)
                    /\ Tells(history, "permissions", <<turn.ctx.mode, turn.ctx.network, "any day">>)
  BY DEF WInv, ModelKnowsContext
<1>1. ASSUME NEW section \in Sections PROVE Tells(history, section, Render(section, turn.ctx, turn.day))
  <2>1. Remembered(history, section, last[section]) /\ last[section] = Render(section, turn.ctx, turn.day)
    BY DEF WInv, LastIsTold
  <2>2. last[section] # Nothing
    BY <2>1, Triple DEF Render, Nothing
  <2> QED BY <2>1, <2>2 DEF Remembered
<1> QED BY <1>1 DEF Sections, Render

\* Whatever the settings, the dates and the number of turns, in a turn the model was last told what holds for it,
\* and never the same thing twice in a row (WorldState.updates, Session.run_turn).
THEOREM ContextKnown == Spec => []ModelKnowsContext
<1> QED BY WorldInductive, Known, PTL

-----------------------------------------------------------------------------
(* The registry of s04.                                                    *)


\* The instance has these operators from the modules they are from.
LEMMA SameFunctions ==
  /\ \A s, at : Registered!Selected(s, at) = Selected(s, at)
  /\ \A S : Registered!Cardinality(S) = Cardinality(S)
<1>1. \A s, at : Registered!Selected(s, at) = Selected(s, at)
  BY DEF Registered!Selected, Selected
<1>2. \A S : Registered!Cardinality(S) = Cardinality(S)
  BY DEF Registered!Cardinality, Cardinality
<1> QED BY <1>1, <1>2

Outcomes == {"unsupported", "empty", "error", "plan updated", "would patch", "exited"}
Replies  == [type : Registered!OutputTypes, call : Nat, result : Outcomes]
Entries  == Writes \cup {Registered!Item("message", "user", <<"text">>)} \cup Replies
Recorded == [item : Writes, id : Nat]

RegistryTypes ==
  /\ record \in Seq(Entries) /\ items \in Seq(Recorded) /\ todo \in Seq(Recorded)
  /\ stage \in {"idle", "request", "tools", "crashed"}
  /\ stage = "tools" <=> todo # <<>>
  /\ stage \in {"idle", "tools"} => items = <<>>

\* Each of seq is an item of the history h, and no two are the same.
InHistory(h, seq) ==
  /\ \A k \in 1 .. Len(seq) : seq[k].id \in 1 .. Len(h) /\ h[seq[k].id] = seq[k].item
  /\ \A k, l \in 1 .. Len(seq) : seq[k].id = seq[l].id => k = l

Readable == \A k \in 1 .. Len(todo) : todo[k].item.type \in Registered!CallTypes /\ ~Registered!Rejected(todo[k].item)

Holds(seq, i)   == \E k \in 1 .. Len(seq) : seq[k].id = i
Waits(w, v, i)  == Holds(w, i) \/ Holds(v, i)
IsReply(h, j)   == h[j].type \in Registered!OutputTypes
Replied(h, i)   == \E j \in 1 .. Len(h) : IsReply(h, j) /\ h[j].call = i
IsCall(h, i)    == i \in 1 .. Len(h) /\ h[i].type \in Registered!CallTypes

\* An answer of this type is of the item's kind.
Fits(item, type) ==
  item.payload # <<"list">> => (type = "custom_tool_call_output" <=> item.type = "custom_tool_call")

\* In the history h a call waits, in w or in v, or has one answer, behind it.
BooksKept(h, w, v) ==
  /\ \A i \in 1 .. Len(h) : IsCall(h, i) => (Waits(w, v, i) <=> ~Replied(h, i))
  /\ \A j \in 1 .. Len(h) : IsReply(h, j) =>
       IsCall(h, h[j].call) /\ h[j].call < j /\ Fits(h[h[j].call], h[j].type)
  /\ \A j, k \in 1 .. Len(h) : IsReply(h, j) /\ IsReply(h, k) /\ h[j].call = h[k].call => j = k

OneInProgress == plan \in Seq(STRING) /\ Cardinality(Registered!InProgress(plan)) <= 1

RegistryInv ==
  /\ RegistryTypes /\ InHistory(record, items) /\ InHistory(record, todo)
  /\ Readable /\ BooksKept(record, items, todo) /\ OneInProgress

-----------------------------------------------------------------------------
LEMMA AnswersAll == RegistryInv => Registered!EveryCallAnswered
<1> SUFFICES ASSUME RegistryInv PROVE Registered!EveryCallAnswered
  OBVIOUS
<1>0. record \in Seq(Entries) /\ DOMAIN record = 1 .. Len(record) /\ Len(record) \in Nat
  BY LenProperties DEF RegistryInv, RegistryTypes
<1>1. ASSUME stage = "idle" \/ (stage = "request" /\ items = <<>>), NEW i \in Registered!Calls
      PROVE  \E j \in Registered!Answers(i) : Registered!Answers(i) = {j} /\ i < j
  <2>1. i \in 1 .. Len(record) /\ IsCall(record, i)
    BY <1>0, <1>1 DEF Registered!Calls, IsCall, Registered!Is
  <2>2. items = <<>> /\ todo = <<>>
    BY <1>1 DEF RegistryInv, RegistryTypes
  <2>3. ~Waits(items, todo, i)
    BY <2>2, EmptySeq DEF Waits, Holds
  <2>4. Replied(record, i)
    BY <2>1, <2>3 DEF RegistryInv, BooksKept
  <2>5. PICK j \in 1 .. Len(record) : IsReply(record, j) /\ record[j].call = i
    BY <2>4 DEF Replied
  <2>6. j \in Registered!Answers(i) /\ \A k \in Registered!Answers(i) : k = j
    BY <2>5, <1>0 DEF Registered!Answers, Registered!Is, IsReply, RegistryInv, BooksKept
  <2>7. i < j
    BY <2>5 DEF RegistryInv, BooksKept
  <2> QED BY <2>6, <2>7
<1>2. ASSUME NEW j \in DOMAIN record, Registered!Is(record[j], Registered!OutputTypes)
      PROVE  /\ record[j].call \in Registered!Calls
             /\ record[record[j].call].payload # <<"list">> =>
                  (record[j].type = "custom_tool_call_output" <=>
                     record[record[j].call].type = "custom_tool_call")
  <2>1. j \in 1 .. Len(record) /\ IsReply(record, j)
    BY <1>0, <1>2 DEF Registered!Is, IsReply
  <2>2. IsCall(record, record[j].call) /\ Fits(record[record[j].call], record[j].type)
    BY <2>1 DEF RegistryInv, BooksKept
  <2> QED BY <1>0, <2>2 DEF IsCall, Registered!Calls, Registered!Is, Fits
<1>3. Cardinality(Registered!InProgress(plan)) <= 1
  BY DEF RegistryInv, OneInProgress
<1> QED BY <1>1, <1>2, <1>3, SameFunctions DEF Registered!EveryCallAnswered

LEMMA EntryKinds ==
  ASSUME Registered!WritesTyped
  PROVE  /\ \A e \in Entries :
              e.type \notin Registered!OutputTypes => e.type \in Registered!CallTypes \cup {"message"}
         /\ \A w \in Writes : w \in Entries /\ w.type \notin Registered!OutputTypes
         /\ Registered!Item("message", "user", <<"text">>) \in Entries
         /\ Registered!Item("message", "user", <<"text">>).type = "message"
         /\ \A r \in Replies :
              r \in Entries /\ r.type \in Registered!OutputTypes /\ r.type \notin Registered!CallTypes
BY DEF Registered!WritesTyped, Entries, Replies, Registered!Item, Registered!OutputTypes, Registered!CallTypes

LEMMA RegistryStarts == Registered!Init => RegistryInv
<1> SUFFICES ASSUME Registered!Init PROVE RegistryInv
  OBVIOUS
<1>1. <<>> \in Seq(Entries) /\ <<>> \in Seq(Recorded) /\ <<>> \in Seq(STRING) /\ Len(<<>>) = 0
  BY EmptySeq
<1>2. plan = <<>> /\ Registered!InProgress(plan) = {}
  BY <1>1 DEF Registered!InProgress, Registered!Init
<1>3. Cardinality({}) = 0
  BY FS_EmptySet
<1>4. OneInProgress
  <2>1. Cardinality(Registered!InProgress(plan)) = 0
    BY <1>2, <1>3
  <2>2. plan \in Seq(STRING)
    BY <1>1, <1>2
  <2> QED BY <2>1, <2>2 DEF OneInProgress
<1>5. RegistryTypes
  BY <1>1 DEF Registered!Init, RegistryTypes
<1>6. InHistory(record, items) /\ InHistory(record, todo) /\ Readable /\ BooksKept(record, items, todo)
  BY <1>1 DEF Registered!Init, InHistory, Readable, BooksKept
<1> QED BY <1>4, <1>5, <1>6 DEF RegistryInv

-----------------------------------------------------------------------------
\* An item that is written, or said by the user, is recorded; it may wait for an answer.
\* An item that is written, or said by the user, is recorded; it may wait for an answer.
LEMMA Records ==
  ASSUME NEW h \in Seq(Entries), NEW w \in Seq(Recorded), NEW v \in Seq(Recorded),
         InHistory(h, w), InHistory(h, v), BooksKept(h, w, v),
         NEW item \in Entries, item.type \notin Registered!OutputTypes, NEW hh, hh = Append(h, item), NEW ww,
         \/ ww = w /\ item.type \notin Registered!CallTypes
         \/ ww = Append(w, [item |-> item, id |-> Len(h) + 1]) /\ item \in Writes
  PROVE  /\ hh \in Seq(Entries) /\ ww \in Seq(Recorded)
         /\ InHistory(hh, ww) /\ InHistory(hh, v) /\ BooksKept(hh, ww, v)
<1> DEFINE n == Len(h)
           e == [item |-> item, id |-> n + 1]
<1>1. n \in Nat /\ Len(w) \in Nat /\ Len(v) \in Nat
  BY LenProperties
<1>2. /\ hh \in Seq(Entries) /\ Len(hh) = n + 1 /\ hh[n + 1] = item
      /\ \A i \in 1 .. n : hh[i] = h[i]
  BY <1>1, AppendProperties
<1>3. \/ ww = w /\ item.type \notin Registered!CallTypes
      \/ /\ ww \in Seq(Recorded) /\ Len(ww) = Len(w) + 1 /\ ww[Len(w) + 1] = e
         /\ \A k \in 1 .. Len(w) : ww[k] = w[k]
  <2>1. CASE ww = Append(w, e) /\ item \in Writes
    <3>1. e \in Recorded
      BY <1>1, <2>1 DEF Recorded
    <3> HIDE DEF e
    <3> QED BY <1>1, <2>1, <3>1, AppendProperties
  <2> QED BY <2>1
<1>4. e.item = item /\ e.id = n + 1
  OBVIOUS
<1> HIDE DEF e, n
<1>5. /\ \A k \in 1 .. Len(w) : w[k].id \in 1 .. n /\ h[w[k].id] = w[k].item
      /\ \A k \in 1 .. Len(v) : v[k].id \in 1 .. n /\ h[v[k].id] = v[k].item
      /\ \A k, l \in 1 .. Len(w) : w[k].id = w[l].id => k = l
      /\ \A k, l \in 1 .. Len(v) : v[k].id = v[l].id => k = l
  BY DEF InHistory, n
<1>6. InHistory(hh, v)
  BY <1>1, <1>2, <1>5 DEF InHistory
<1>7. InHistory(hh, ww)
  <2>1. CASE ww = w
    BY <1>1, <1>2, <1>5, <2>1 DEF InHistory
  <2>2. CASE Len(ww) = Len(w) + 1 /\ ww[Len(w) + 1] = e /\ \A k \in 1 .. Len(w) : ww[k] = w[k]
    <3>1. \A k \in 1 .. Len(ww) : k \in 1 .. Len(w) \/ (k = Len(w) + 1 /\ ww[k] = e)
      BY <1>1, <2>2
    <3>2. \A k \in 1 .. Len(ww) :
            /\ ww[k].id \in 1 .. n + 1 /\ hh[ww[k].id] = ww[k].item
            /\ ww[k].id = n + 1 => k = Len(w) + 1
      <4> TAKE k \in 1 .. Len(ww)
      <4>1. CASE k \in 1 .. Len(w)
        BY <4>1, <1>1, <1>2, <1>5, <2>2
      <4>2. CASE k = Len(w) + 1
        BY <4>2, <1>1, <1>2, <1>4, <2>2
      <4> QED BY <3>1, <4>1, <4>2
    <3>3. \A k, l \in 1 .. Len(ww) : ww[k].id = ww[l].id => k = l
      <4> TAKE k, l \in 1 .. Len(ww)
      <4> HAVE ww[k].id = ww[l].id
      <4>1. CASE k \in 1 .. Len(w) /\ l \in 1 .. Len(w)
        BY <4>1, <1>5, <2>2
      <4>2. CASE k = Len(w) + 1
        BY <4>2, <3>2, <2>2, <1>4
      <4>3. CASE l = Len(w) + 1
        BY <4>3, <3>2, <2>2, <1>4
      <4> QED BY <4>1, <4>2, <4>3, <3>1
    <3> QED BY <1>2, <3>2, <3>3 DEF InHistory
  <2> QED BY <1>3, <2>1, <2>2
<1>8. \A j \in 1 .. n + 1 : IsReply(hh, j) => j \in 1 .. n /\ IsReply(h, j)
  BY <1>1, <1>2 DEF IsReply
<1>9. \A j \in 1 .. n : (IsReply(hh, j) <=> IsReply(h, j)) /\ hh[j] = h[j] /\ (IsCall(hh, j) <=> IsCall(h, j))
  BY <1>1, <1>2 DEF IsReply, IsCall, n
<1>10. ASSUME NEW i \in 1 .. n PROVE (Replied(hh, i) <=> Replied(h, i)) /\ (Waits(ww, v, i) <=> Waits(w, v, i))
  <2>1. Replied(hh, i) <=> Replied(h, i)
    <3>1. \A j \in 1 .. n : j \in 1 .. Len(hh)
      BY <1>1, <1>2
    <3> QED BY <1>2, <1>8, <1>9, <3>1 DEF Replied, n
  <2>2. Holds(ww, i) <=> Holds(w, i)
    <3>1. CASE ww = w
      BY <3>1
    <3>2. CASE Len(ww) = Len(w) + 1 /\ ww[Len(w) + 1] = e /\ \A k \in 1 .. Len(w) : ww[k] = w[k]
      <4>1. ASSUME Holds(ww, i) PROVE Holds(w, i)
        <5>1. PICK k \in 1 .. Len(ww) : ww[k].id = i
          BY <4>1 DEF Holds
        <5>2. k # Len(w) + 1
          BY <1>1, <1>4, <3>2, <5>1
        <5>3. k \in 1 .. Len(w)
          BY <1>1, <3>2, <5>2
        <5> QED BY <3>2, <5>1, <5>3 DEF Holds
      <4>2. ASSUME Holds(w, i) PROVE Holds(ww, i)
        <5>1. PICK k \in 1 .. Len(w) : w[k].id = i
          BY <4>2 DEF Holds
        <5>2. k \in 1 .. Len(ww)
          BY <1>1, <3>2
        <5> QED BY <3>2, <5>1, <5>2 DEF Holds
      <4> QED BY <4>1, <4>2
    <3> QED BY <1>3, <3>1, <3>2
  <2> QED BY <2>1, <2>2 DEF Waits
<1>11. IsCall(hh, n + 1) => Waits(ww, v, n + 1) /\ ~Replied(hh, n + 1)
  <2> SUFFICES ASSUME IsCall(hh, n + 1) PROVE Waits(ww, v, n + 1) /\ ~Replied(hh, n + 1)
    OBVIOUS
  <2>1. item.type \in Registered!CallTypes
    BY <1>2 DEF IsCall
  <2>2. Holds(ww, n + 1)
    <3>1. Len(w) + 1 \in 1 .. Len(ww) /\ ww[Len(w) + 1].id = n + 1
      BY <1>1, <1>3, <1>4, <2>1
    <3> QED BY <3>1 DEF Holds
  <2>3. ~Replied(hh, n + 1)
    BY <1>1, <1>2, <1>8, <1>9 DEF Replied, BooksKept, IsCall, n
  <2> QED BY <2>2, <2>3 DEF Waits
<1>12. BooksKept(hh, ww, v)
  <2>1. ASSUME NEW i \in 1 .. Len(hh), IsCall(hh, i) PROVE Waits(ww, v, i) <=> ~Replied(hh, i)
    <3>1. CASE i \in 1 .. n
      BY <2>1, <3>1, <1>9, <1>10 DEF BooksKept, n
    <3>2. CASE i = n + 1
      BY <2>1, <3>2, <1>11
    <3> QED BY <3>1, <3>2, <1>1, <1>2
  <2>2. ASSUME NEW j \in 1 .. Len(hh), IsReply(hh, j)
        PROVE  IsCall(hh, hh[j].call) /\ hh[j].call < j /\ Fits(hh[hh[j].call], hh[j].type)
    <3>1. j \in 1 .. n /\ IsReply(h, j) /\ hh[j] = h[j]
      BY <1>2, <1>8, <2>2
    <3>2. IsCall(h, h[j].call) /\ h[j].call < j /\ Fits(h[h[j].call], h[j].type)
      BY <3>1 DEF BooksKept, n
    <3>3. h[j].call \in 1 .. n
      BY <3>2 DEF IsCall, n
    <3> QED BY <1>9, <3>1, <3>2, <3>3
  <2>3. \A j, k \in 1 .. Len(hh) : IsReply(hh, j) /\ IsReply(hh, k) /\ hh[j].call = hh[k].call => j = k
    BY <1>2, <1>8 DEF BooksKept, n
  <2> QED BY <2>1, <2>2, <2>3 DEF BooksKept
<1>13. ww \in Seq(Recorded)
  BY <1>3
<1> QED BY <1>2, <1>6, <1>7, <1>12, <1>13

\* Each of outs answers a call that waits, and none is answered twice.
AnswerWaiting(outs, h, w, v) ==
  /\ \A k \in 1 .. Len(outs) :
       /\ IsCall(h, outs[k].call) /\ Waits(w, v, outs[k].call)
       /\ Fits(h[outs[k].call], outs[k].type)
  /\ \A k, l \in 1 .. Len(outs) : outs[k].call = outs[l].call => k = l

\* In ww and vv waits what waited in w and v and was not answered.
RestWait(outs, h, w, v, ww, vv) ==
  \A i \in 1 .. Len(h) : IsCall(h, i) =>
    (Waits(ww, vv, i) <=> Waits(w, v, i) /\ \A k \in 1 .. Len(outs) : outs[k].call # i)

\* Calls that wait are answered: they wait no more.
LEMMA Answering ==
  ASSUME NEW h \in Seq(Entries), NEW w \in Seq(Recorded), NEW v \in Seq(Recorded), BooksKept(h, w, v),
         NEW outs \in Seq(Replies), NEW hh, hh = h \o outs, NEW ww, NEW vv,
         AnswerWaiting(outs, h, w, v), RestWait(outs, h, w, v, ww, vv)
  PROVE  /\ hh \in Seq(Entries) /\ BooksKept(hh, ww, vv)
         /\ Len(h) <= Len(hh) /\ \A i \in 1 .. Len(h) : hh[i] = h[i]
<1> DEFINE n == Len(h)
           m == Len(outs)
<1>1. n \in Nat /\ m \in Nat
  BY LenProperties
<1>2. /\ hh \in Seq(Entries) /\ Len(hh) = n + m
      /\ \A i \in 1 .. n : hh[i] = h[i]
      /\ \A j \in n + 1 .. n + m : hh[j] = outs[j - n]
  <2>1. outs \in Seq(Entries)
    <3>1. Replies \subseteq Entries
      BY DEF Entries
    <3> QED BY <3>1
  <2>2. /\ hh \in Seq(Entries) /\ Len(hh) = n + m
        /\ \A i \in 1 .. Len(hh) : hh[i] = IF i <= n THEN h[i] ELSE outs[i - n]
    BY <2>1, ConcatProperties
  <2> QED BY <1>1, <2>2
<1>3. \A k \in 1 .. m :
        outs[k] \in Replies /\ outs[k].type \in Registered!OutputTypes /\ outs[k].type \notin Registered!CallTypes
  <2>1. \A k \in 1 .. m : outs[k] \in Replies
    BY ElementOfSeq
  <2> QED BY <2>1 DEF Replies, Registered!OutputTypes, Registered!CallTypes
<1>4. /\ \A k \in 1 .. m : /\ IsCall(h, outs[k].call) /\ Waits(w, v, outs[k].call)
                           /\ Fits(h[outs[k].call], outs[k].type)
      /\ \A k, l \in 1 .. m : outs[k].call = outs[l].call => k = l
      /\ \A i \in 1 .. n : IsCall(h, i) =>
           (Waits(ww, vv, i) <=> Waits(w, v, i) /\ \A k \in 1 .. m : outs[k].call # i)
  BY DEF AnswerWaiting, RestWait
<1>5. /\ \A i \in 1 .. n : IsCall(h, i) => (Waits(w, v, i) <=> ~Replied(h, i))
      /\ \A j \in 1 .. n : IsReply(h, j) =>
           IsCall(h, h[j].call) /\ h[j].call < j /\ Fits(h[h[j].call], h[j].type)
      /\ \A j, k \in 1 .. n : IsReply(h, j) /\ IsReply(h, k) /\ h[j].call = h[k].call => j = k
  BY DEF BooksKept
<1>6. \A i \in 1 .. n : i \in 1 .. Len(hh)
  BY <1>1, <1>2
<1> DEFINE outAt(j) == j - n
<1>7. \A j \in 1 .. Len(hh) :
        \/ j \in 1 .. n /\ hh[j] = h[j]
        \/ outAt(j) \in 1 .. m /\ j = n + outAt(j) /\ hh[j] = outs[outAt(j)] /\ j > n
  BY <1>1, <1>2
<1>8. \A k \in 1 .. m : n + k \in 1 .. Len(hh) /\ hh[n + k] = outs[k]
  BY <1>1, <1>2
<1>9. \A i \in 1 .. n : IsCall(hh, i) <=> IsCall(h, i)
  BY <1>2, <1>6 DEF IsCall
<1>10. \A i : IsCall(hh, i) => i \in 1 .. n /\ IsCall(h, i)
  <2> TAKE i
  <2> HAVE IsCall(hh, i)
  <2>1. i \in 1 .. Len(hh) /\ hh[i].type \in Registered!CallTypes
    BY DEF IsCall
  <2>2. i \in 1 .. n
    BY <2>1, <1>3, <1>7
  <2> QED BY <2>2, <1>9
<1> HIDE DEF n, m, outAt
<1>11. \A i \in 1 .. n : Replied(hh, i) <=> Replied(h, i) \/ \E k \in 1 .. m : outs[k].call = i
  <2> TAKE i \in 1 .. n
  <2>1. ASSUME Replied(hh, i) PROVE Replied(h, i) \/ \E k \in 1 .. m : outs[k].call = i
    <3>1. PICK j \in 1 .. Len(hh) : IsReply(hh, j) /\ hh[j].call = i
      BY <2>1 DEF Replied
    <3> QED BY <3>1, <1>7 DEF Replied, IsReply, n
  <2>2. ASSUME Replied(h, i) PROVE Replied(hh, i)
    BY <2>2, <1>2, <1>6 DEF Replied, IsReply, n
  <2>3. ASSUME NEW k \in 1 .. m, outs[k].call = i PROVE Replied(hh, i)
    BY <2>3, <1>3, <1>8 DEF Replied, IsReply
  <2> QED BY <2>1, <2>2, <2>3
<1>12. \A i \in 1 .. Len(hh) : IsCall(hh, i) => (Waits(ww, vv, i) <=> ~Replied(hh, i))
  BY <1>4, <1>5, <1>10, <1>11
<1>13. ASSUME NEW j \in 1 .. Len(hh), IsReply(hh, j)
       PROVE  IsCall(hh, hh[j].call) /\ hh[j].call < j /\ Fits(hh[hh[j].call], hh[j].type)
  <2>1. CASE j \in 1 .. n /\ hh[j] = h[j]
    <3>1. IsReply(h, j)
      BY <1>13, <2>1 DEF IsReply
    <3>2. IsCall(h, h[j].call) /\ h[j].call < j /\ Fits(h[h[j].call], h[j].type)
      BY <3>1, <2>1, <1>5
    <3>3. h[j].call \in 1 .. n
      BY <3>2 DEF IsCall, n
    <3> QED BY <1>2, <1>9, <2>1, <3>2, <3>3
  <2>2. CASE outAt(j) \in 1 .. m /\ hh[j] = outs[outAt(j)] /\ j > n
    <3>1. IsCall(h, hh[j].call) /\ Fits(h[hh[j].call], hh[j].type)
      BY <2>2, <1>4
    <3>2. hh[j].call \in 1 .. n
      BY <3>1 DEF IsCall, n
    <3>3. PICK i \in 1 .. n : i = hh[j].call
      BY <3>2
    <3>4. i < j
      BY <1>1, <2>2
    <3>5. hh[i] = h[i] /\ IsCall(hh, i)
      BY <1>2, <1>9, <3>1, <3>3
    <3> QED BY <3>1, <3>3, <3>4, <3>5
  <2> QED BY <1>7, <2>1, <2>2
<1>14. ASSUME NEW j \in 1 .. Len(hh), NEW k \in 1 .. Len(hh), IsReply(hh, j), IsReply(hh, k), hh[j].call = hh[k].call
       PROVE  j = k
  <2>1. ASSUME NEW a \in 1 .. n, NEW b \in 1 .. m, IsReply(h, a), h[a].call = outs[b].call PROVE FALSE
    <3>1. PICK i : i = outs[b].call
      OBVIOUS
    <3>2. IsCall(h, i) /\ Waits(w, v, i) /\ i \in 1 .. n
      BY <3>1, <1>4 DEF IsCall, n
    <3>3. Replied(h, i)
      BY <2>1, <3>1 DEF Replied, n
    <3> QED BY <3>2, <3>3, <1>5
  <2>2. CASE j \in 1 .. n /\ k \in 1 .. n
    BY <2>2, <1>14, <1>2, <1>5 DEF IsReply
  <2>3. CASE j \in 1 .. n /\ outAt(k) \in 1 .. m /\ hh[k] = outs[outAt(k)]
    BY <2>3, <2>1, <1>14, <1>2 DEF IsReply
  <2>4. CASE k \in 1 .. n /\ outAt(j) \in 1 .. m /\ hh[j] = outs[outAt(j)]
    BY <2>4, <2>1, <1>14, <1>2 DEF IsReply
  <2>5. CASE /\ outAt(j) \in 1 .. m /\ hh[j] = outs[outAt(j)] /\ j = n + outAt(j)
             /\ outAt(k) \in 1 .. m /\ hh[k] = outs[outAt(k)] /\ k = n + outAt(k)
    BY <2>5, <1>4, <1>14
  <2> QED BY <1>7, <2>2, <2>3, <2>4, <2>5
<1>15. BooksKept(hh, ww, vv)
  BY <1>12, <1>13, <1>14 DEF BooksKept
<1>16. n <= Len(hh)
  BY <1>1, <1>2
<1> QED BY <1>2, <1>15, <1>16 DEF n

\* What is selected of items of the history are items of the history.
LEMMA SelectedInHistory ==
  ASSUME NEW h, NEW w \in Seq(Recorded), InHistory(h, w), NEW D \in SUBSET (1 .. Len(w))
  PROVE  /\ Selected(w, D) \in Seq(Recorded) /\ InHistory(h, Selected(w, D))
         /\ \A k \in 1 .. Len(Selected(w, D)) : \E i \in D : Selected(w, D)[k] = w[i]
         /\ \A i \in D : \E k \in 1 .. Len(Selected(w, D)) : Selected(w, D)[k] = w[i]
<1> DEFINE r == Selected(w, D)
<1>1. r \in Seq(Recorded) /\ Picked(r, w, D \cap 1 .. Len(w))
  BY SelectedPicks
<1>2. D \cap 1 .. Len(w) = D
  OBVIOUS
<1>3. PICK from : Picks(r, w, D, from)
  BY <1>1, <1>2 DEF Picked
<1> HIDE DEF r
<1>4. /\ from \in [1 .. Len(r) -> D] /\ \A k \in 1 .. Len(r) : r[k] = w[from[k]]
      /\ \A i \in D : \E k \in 1 .. Len(r) : from[k] = i
      /\ \A k, l \in 1 .. Len(r) : k < l => from[k] < from[l]
  BY <1>3 DEF Picks
<1>5. Len(r) \in Nat
  BY <1>1, LenProperties
<1>6. \A k \in 1 .. Len(r) : from[k] \in D /\ from[k] \in 1 .. Len(w)
  BY <1>4
<1>7. \A k, l \in 1 .. Len(r) : from[k] = from[l] => k = l
  BY <1>4, <1>5, <1>6
<1>8. InHistory(h, r)
  <2>1. ASSUME NEW k \in 1 .. Len(r) PROVE r[k].id \in 1 .. Len(h) /\ h[r[k].id] = r[k].item
    <3>1. from[k] \in 1 .. Len(w) /\ r[k] = w[from[k]]
      BY <1>4, <1>6
    <3> QED BY <3>1 DEF InHistory
  <2>2. ASSUME NEW k \in 1 .. Len(r), NEW l \in 1 .. Len(r), r[k].id = r[l].id PROVE k = l
    <3>1. /\ from[k] \in 1 .. Len(w) /\ r[k] = w[from[k]]
          /\ from[l] \in 1 .. Len(w) /\ r[l] = w[from[l]]
      BY <1>4, <1>6
    <3>2. from[k] = from[l]
      BY <2>2, <3>1 DEF InHistory
    <3> QED BY <1>7, <3>2
  <2> QED BY <2>1, <2>2 DEF InHistory
<1>9. \A k \in 1 .. Len(r) : \E i \in D : r[k] = w[i]
  BY <1>4, <1>6
<1>10. \A i \in D : \E k \in 1 .. Len(r) : r[k] = w[i]
  BY <1>4
<1> QED BY <1>1, <1>8, <1>9, <1>10 DEF r

LEMMA ResponseKeeps ==
  ASSUME Registered!WritesTyped, RegistryInv, Registered!ResponseEnds
  PROVE  RegistryInv'
<1> DEFINE RD == { k \in DOMAIN items : Registered!Rejected(items[k].item) }
           AD == { k \in DOMAIN items :
                   Registered!Is(items[k].item, Registered!CallTypes) /\ ~Registered!Rejected(items[k].item) }
<1>0. PICK w, h : w = items /\ h = record
  OBVIOUS
<1>1. /\ stage = "request" /\ todo = <<>> /\ h \in Seq(Entries) /\ w \in Seq(Recorded) /\ <<>> \in Seq(Recorded)
      /\ InHistory(h, w) /\ BooksKept(h, w, <<>>) /\ DOMAIN w = 1 .. Len(w)
  BY <1>0, EmptySeq, LenProperties DEF Registered!ResponseEnds, RegistryInv, RegistryTypes
<1>2. PICK D, E : D = RD /\ E = AD
  OBVIOUS
<1>3. D \in SUBSET (1 .. Len(w)) /\ E \in SUBSET (1 .. Len(w))
  BY <1>0, <1>1, <1>2
<1>4. PICK r, a : r = Selected(w, D) /\ a = Selected(w, E)
  OBVIOUS
<1>5. /\ record' = h \o Registered!Refusals(r) /\ todo' = a /\ items' = <<>>
      /\ stage' = IF a # <<>> THEN "tools" ELSE IF r # <<>> THEN "request" ELSE "idle"
      /\ UNCHANGED plan
  BY <1>0, <1>2, <1>4, SameFunctions DEF Registered!ResponseEnds
<1>6. /\ r \in Seq(Recorded) /\ InHistory(h, r)
      /\ \A k \in 1 .. Len(r) : \E i \in D : r[k] = w[i]
      /\ \A i \in D : \E k \in 1 .. Len(r) : r[k] = w[i]
  BY <1>1, <1>3, <1>4, SelectedInHistory
<1>7. /\ a \in Seq(Recorded) /\ InHistory(h, a)
      /\ \A k \in 1 .. Len(a) : \E i \in E : a[k] = w[i]
      /\ \A i \in E : \E k \in 1 .. Len(a) : a[k] = w[i]
  BY <1>1, <1>3, <1>4, SelectedInHistory
<1>8. /\ \A i \in 1 .. Len(w) : i \in D <=> Registered!Rejected(w[i].item)
      /\ \A i \in 1 .. Len(w) : i \in E <=> w[i].item.type \in Registered!CallTypes /\ ~Registered!Rejected(w[i].item)
  BY <1>0, <1>1, <1>2 DEF Registered!Is
<1> HIDE DEF RD, AD
<1>9. PICK outs : outs = Registered!Refusals(r)
  OBVIOUS
<1>10. outs \in Seq(Replies) /\ Len(outs) = Len(r)
       /\ \A k \in 1 .. Len(r) : outs[k].call = r[k].id /\ outs[k].type = "function_call_output"
  <2>1. DOMAIN r = 1 .. Len(r) /\ Len(r) \in Nat /\ \A k \in 1 .. Len(r) : r[k] \in Recorded
    BY <1>6, LenProperties, ElementOfSeq
  <2>2. \A k \in 1 .. Len(r) : Registered!Output("function_call_output", r[k].id, "error") \in Replies
    BY <2>1 DEF Registered!Output, Replies, Recorded, Registered!OutputTypes, Outcomes
  <2>3. outs = [k \in 1 .. Len(r) |-> Registered!Output("function_call_output", r[k].id, "error")]
    BY <1>9, <2>1 DEF Registered!Refusals
  <2>4. outs \in Seq(Replies) /\ Len(outs) = Len(r)
    BY <2>1, <2>2, <2>3
  <2> QED BY <2>3, <2>4 DEF Registered!Output
<1>11. /\ \A k \in 1 .. Len(w) : w[k].id \in 1 .. Len(h) /\ h[w[k].id] = w[k].item /\ w[k].item \in Writes
       /\ \A k, l \in 1 .. Len(w) : w[k].id = w[l].id => k = l
  <2>1. \A k \in 1 .. Len(w) : w[k] \in Recorded
    BY <1>1, ElementOfSeq
  <2> QED BY <1>1, <2>1 DEF InHistory, Recorded
<1>12. \A k \in 1 .. Len(r) : \E i \in 1 .. Len(w) : r[k] = w[i] /\ Registered!Rejected(w[i].item)
  BY <1>3, <1>6, <1>8
<1>13. \A k \in 1 .. Len(a) :
         \E i \in 1 .. Len(w) :
           a[k] = w[i] /\ w[i].item.type \in Registered!CallTypes /\ ~Registered!Rejected(w[i].item)
  BY <1>3, <1>7, <1>8
<1>14. ASSUME NEW k \in 1 .. Len(outs)
       PROVE  /\ IsCall(h, outs[k].call) /\ Waits(w, <<>>, outs[k].call)
              /\ Fits(h[outs[k].call], outs[k].type)
  <2>1. PICK i \in 1 .. Len(w) : r[k] = w[i] /\ Registered!Rejected(w[i].item)
    BY <1>10, <1>12
  <2>2. outs[k].call = w[i].id /\ outs[k].type = "function_call_output"
    BY <1>10, <2>1
  <2>3. h[w[i].id] = w[i].item /\ w[i].id \in 1 .. Len(h) /\ w[i].item.type = "function_call"
    BY <1>11, <2>1 DEF Registered!Rejected
  <2> QED BY <2>2, <2>3 DEF IsCall, Waits, Holds, Fits, Registered!CallTypes
<1>15. \A k, l \in 1 .. Len(outs) : outs[k].call = outs[l].call => k = l
  BY <1>6, <1>10 DEF InHistory
<1>16. ASSUME NEW i \in 1 .. Len(h), IsCall(h, i)
       PROVE  Waits(<<>>, a, i) <=> Waits(w, <<>>, i) /\ \A k \in 1 .. Len(outs) : outs[k].call # i
  <2>0. \A x : ~Holds(<<>>, x)
    BY EmptySeq DEF Holds
  <2>1. ASSUME Holds(a, i) PROVE Holds(w, i) /\ \A k \in 1 .. Len(outs) : outs[k].call # i
    <3>1. PICK j \in 1 .. Len(a) : a[j].id = i
      BY <2>1 DEF Holds
    <3>2. PICK x \in 1 .. Len(w) : a[j] = w[x] /\ ~Registered!Rejected(w[x].item)
      BY <1>13, <3>1
    <3>3. ASSUME NEW k \in 1 .. Len(outs), outs[k].call = i PROVE FALSE
      <4>1. PICK y \in 1 .. Len(w) : r[k] = w[y] /\ Registered!Rejected(w[y].item)
        BY <1>10, <1>12
      <4>2. w[y].id = w[x].id
        BY <1>10, <3>1, <3>2, <3>3, <4>1
      <4> QED BY <1>11, <3>2, <4>1, <4>2
    <3> QED BY <3>1, <3>2, <3>3 DEF Holds
  <2>2. ASSUME Holds(w, i), \A k \in 1 .. Len(outs) : outs[k].call # i PROVE Holds(a, i)
    <3>1. PICK x \in 1 .. Len(w) : w[x].id = i
      BY <2>2 DEF Holds
    <3>2. w[x].item.type \in Registered!CallTypes
      BY <1>11, <1>16, <3>1 DEF IsCall
    <3>3. x \notin D
      <4>1. ASSUME x \in D PROVE FALSE
        <5>1. PICK k \in 1 .. Len(r) : r[k] = w[x]
          BY <1>6, <4>1
        <5>2. outs[k].call = i /\ k \in 1 .. Len(outs)
          BY <1>10, <3>1, <5>1
        <5> QED BY <2>2, <5>2
      <4> QED BY <4>1
    <3>4. x \in E
      BY <1>8, <3>2, <3>3
    <3> QED BY <1>7, <3>1, <3>4 DEF Holds
  <2> QED BY <2>0, <2>1, <2>2 DEF Waits
<1>17. /\ record' \in Seq(Entries) /\ BooksKept(record', items', todo')
       /\ Len(h) <= Len(record') /\ \A i \in 1 .. Len(h) : record'[i] = h[i]
  <2>1. PICK hh, v : hh = h \o outs /\ v = <<>>
    OBVIOUS
  <2>a. v \in Seq(Recorded) /\ BooksKept(h, w, v)
    BY <1>1, <2>1
  <2>b. AnswerWaiting(outs, h, w, v)
    BY <1>14, <1>15, <2>1 DEF AnswerWaiting
  <2>c. RestWait(outs, h, w, v, v, a)
    BY <1>16, <2>1 DEF RestWait
  <2>2. /\ hh \in Seq(Entries) /\ BooksKept(hh, v, a)
        /\ Len(h) <= Len(hh) /\ \A i \in 1 .. Len(h) : hh[i] = h[i]
    <3>1. h \in Seq(Entries) /\ w \in Seq(Recorded) /\ outs \in Seq(Replies) /\ hh = h \o outs
      BY <1>1, <1>10, <2>1
    <3>2. hh \in Seq(Entries)
      BY <2>a, <2>b, <2>c, <3>1, Answering
    <3>3. BooksKept(hh, v, a)
      BY <2>a, <2>b, <2>c, <3>1, Answering
    <3>4. Len(h) <= Len(hh)
      BY <2>a, <2>b, <2>c, <3>1, Answering
    <3>5. \A i \in 1 .. Len(h) : hh[i] = h[i]
      BY <2>a, <2>b, <2>c, <3>1, Answering
    <3> QED BY <3>2, <3>3, <3>4, <3>5
  <2> QED BY <1>5, <1>9, <2>1, <2>2
<1>18. InHistory(record', items') /\ InHistory(record', todo')
  <2>1. InHistory(record', <<>>)
    BY EmptySeq DEF InHistory
  <2>2. Len(h) \in Nat /\ Len(record') \in Nat
    BY <1>1, <1>17, LenProperties
  <2>3. InHistory(record', a)
    BY <1>7, <1>17, <2>2 DEF InHistory
  <2> QED BY <1>5, <2>1, <2>3
<1>19. Readable'
  BY <1>5, <1>13 DEF Readable
<1>20. RegistryTypes'
  BY <1>1, <1>5, <1>7, <1>17 DEF RegistryTypes
<1>21. OneInProgress'
  BY <1>5 DEF RegistryInv, OneInProgress
<1> QED BY <1>17, <1>18, <1>19, <1>20, <1>21 DEF RegistryInv

-----------------------------------------------------------------------------
(* One call is dispatched.                                                 *)

LEMMA OutputKinds ==
  ASSUME Registered!WritesTyped, NEW item \in Writes, item.type \in Registered!CallTypes
  PROVE  /\ Registered!OutputType(item.payload) \in Registered!OutputTypes
         /\ Fits(item, Registered!OutputType(item.payload))
<1>1. Registered!OutputType(item.payload) \in Registered!OutputTypes
  BY DEF Registered!OutputType, Registered!OutputTypes
<1>2. ASSUME item.type = "custom_tool_call" PROVE Fits(item, Registered!OutputType(item.payload))
  <2>1. item.payload[1] \in {"text", "patch"}
    BY <1>2 DEF Registered!WritesTyped
  <2> QED BY <1>2, <2>1 DEF Registered!OutputType, Fits
<1>3. ASSUME item.type = "function_call" PROVE Fits(item, Registered!OutputType(item.payload))
  <2>1. PICK p : p = item.payload
    OBVIOUS
  <2>2. /\ p[1] \in {"broken", "list", "empty", "good", "plan"}
        /\ p \in Seq(STRING) /\ p # <<>> /\ (Len(p) > 1 => p[1] = "plan")
    BY <1>3, <2>1 DEF Registered!WritesTyped
  <2>3. CASE p[1] = "list"
    <3>1. Len(p) \in Nat /\ Len(p) # 0
      BY <2>2, EmptySeq, LenProperties
    <3>2. Len(p) = 1
      <4>1. "list" # "plan"
        OBVIOUS
      <4>2. ~(Len(p) > 1)
        BY <2>2, <2>3, <4>1
      <4>3. PICK n \in Nat : n = Len(p)
        BY <3>1
      <4>4. n = 1
        BY <3>1, <4>2, <4>3
      <4> QED BY <4>3, <4>4
    <3>3. p = <<"list">>
      BY <2>2, <2>3, <3>2
    <3> QED BY <2>1, <3>3 DEF Fits
  <2>4. CASE p[1] # "list"
    BY <1>3, <2>1, <2>2, <2>4 DEF Registered!OutputType, Fits
  <2> QED BY <2>3, <2>4
<1> QED BY <1>1, <1>2, <1>3 DEF Registered!CallTypes

\* A plan that is not refused has one step in progress at most.
LEMMA PlanKept ==
  ASSUME NEW p \in Seq(STRING), p # <<>>, ~Registered!PlanFault(p)
  PROVE  Tail(p) \in Seq(STRING) /\ Cardinality(Registered!InProgress(Tail(p))) <= 1
<1> DEFINE S == Registered!InProgress(p)
           T == Registered!InProgress(Tail(p))
<1>0. p[1] = "plan" /\ Len(p) # 1 /\ ~(Cardinality(S) > 1)
  BY SameFunctions DEF Registered!PlanFault
<1>1. /\ Tail(p) \in Seq(STRING) /\ Len(p) \in Nat /\ Len(Tail(p)) = Len(p) - 1
      /\ \A i \in 1 .. Len(Tail(p)) : Tail(p)[i] = p[i + 1]
      /\ DOMAIN p = 1 .. Len(p) /\ DOMAIN Tail(p) = 1 .. Len(Tail(p))
  BY HeadTailProperties, LenProperties
<1>2. IsFiniteSet(S) /\ Cardinality(S) \in Nat
  <2>1. S \in SUBSET (1 .. Len(p)) /\ IsFiniteSet(1 .. Len(p))
    BY <1>1, FS_Interval DEF Registered!InProgress
  <2> HIDE DEF S
  <2> QED BY <2>1, FS_Subset, FS_CardinalityType
<1>3. \A x, y \in S : x = y
  <2> HIDE DEF S
  <2>1. Cardinality(S) = 0 \/ Cardinality(S) = 1
    BY <1>0, <1>2
  <2>2. CASE Cardinality(S) = 0
    <3>1. S = {}
      BY <1>2, <2>2, FS_EmptySet
    <3> QED BY <3>1
  <2>3. CASE Cardinality(S) = 1
    <3>1. \E x : S = {x}
      BY <1>2, <2>3, FS_Singleton
    <3> QED BY <3>1
  <2> QED BY <2>1, <2>2, <2>3
<1>4. \A i \in T : i \in Nat /\ i + 1 \in S
  BY <1>1 DEF Registered!InProgress
<1>5. \A x, y \in T : x = y
  <2> HIDE DEF S, T
  <2> TAKE x, y \in T
  <2>1. x + 1 = y + 1
    BY <1>3, <1>4
  <2> QED BY <1>4, <2>1
<1>6. Cardinality(T) <= 1
  <2> HIDE DEF T
  <2>1. CASE T = {}
    <3>1. Cardinality(T) = 0
      BY <2>1, FS_EmptySet
    <3> QED BY <3>1
  <2>2. CASE T # {}
    <3>1. PICK x \in T : TRUE
      BY <2>2
    <3>2. T = {x}
      BY <1>5, <3>1
    <3>3. Cardinality(T) = 1
      BY <3>2, FS_Singleton
    <3> QED BY <3>3
  <2> QED BY <2>1, <2>2
<1> QED BY <1>1, <1>6

LEMMA DispatchKeeps ==
  ASSUME Registered!WritesTyped, RegistryInv, NEW result, Registered!Dispatch(result)
  PROVE  RegistryInv'
<1>0. PICK h, v, call : h = record /\ v = todo /\ call = Head(todo)
  OBVIOUS
<1>1. /\ stage = "tools" /\ result \in Registered!Results(call.item)
      /\ record' = Append(h, Registered!Output(Registered!OutputType(call.item.payload), call.id, result))
      /\ plan' = IF result = "plan updated" THEN Tail(call.item.payload) ELSE plan
      /\ todo' = Tail(v) /\ stage' = IF Tail(v) = <<>> THEN "request" ELSE "tools"
      /\ UNCHANGED <<config, items>>
  BY <1>0 DEF Registered!Dispatch
<1>2. /\ h \in Seq(Entries) /\ v \in Seq(Recorded) /\ v # <<>> /\ items = <<>> /\ <<>> \in Seq(Recorded)
      /\ InHistory(h, v) /\ BooksKept(h, <<>>, v)
      /\ \A k \in 1 .. Len(v) : v[k].item.type \in Registered!CallTypes /\ ~Registered!Rejected(v[k].item)
  BY <1>0, <1>1, EmptySeq DEF RegistryInv, RegistryTypes, Readable
<1>3. /\ Len(v) \in Nat /\ Len(v) > 0 /\ call = v[1] /\ call \in Recorded /\ Tail(v) \in Seq(Recorded)
      /\ Len(Tail(v)) = Len(v) - 1 /\ \A k \in 1 .. Len(Tail(v)) : Tail(v)[k] = v[k + 1]
  BY <1>0, <1>2, HeadTailProperties, LenProperties
<1>4. PICK t : t = Tail(v)
  OBVIOUS
<1>5. /\ t \in Seq(Recorded) /\ Len(t) \in Nat /\ 1 \in 1 .. Len(v)
      /\ \A k \in 1 .. Len(t) : k + 1 \in 1 .. Len(v) /\ t[k] = v[k + 1]
      /\ \A k \in 1 .. Len(v) : k # 1 => k - 1 \in 1 .. Len(t) /\ t[k - 1] = v[k]
  BY <1>3, <1>4
<1>6. /\ call.item \in Writes /\ call.id \in 1 .. Len(h) /\ h[call.id] = call.item
      /\ call.item.type \in Registered!CallTypes
  BY <1>2, <1>3, <1>5 DEF InHistory, Recorded
<1>7. result \in Outcomes
  BY <1>1 DEF Registered!Results, Outcomes
<1>8. PICK o : o = Registered!Output(Registered!OutputType(call.item.payload), call.id, result)
  OBVIOUS
<1>9. o \in Replies /\ o.call = call.id /\ Fits(h[o.call], o.type)
  <2>1. call.id \in Nat
    BY <1>3 DEF Recorded
  <2>2. /\ Registered!OutputType(call.item.payload) \in Registered!OutputTypes
        /\ Fits(call.item, Registered!OutputType(call.item.payload))
    BY <1>6, OutputKinds
  <2>3. o.call = call.id /\ o.type = Registered!OutputType(call.item.payload)
    BY <1>8 DEF Registered!Output
  <2>4. o \in Replies
    BY <1>7, <1>8, <2>1, <2>2 DEF Registered!Output, Replies
  <2> QED BY <1>6, <2>2, <2>3, <2>4
<1>10. PICK outs, hh, w : outs = <<o>> /\ hh = h \o outs /\ w = <<>>
  OBVIOUS
<1>11. outs \in Seq(Replies) /\ Len(outs) = 1 /\ outs[1] = o /\ hh = Append(h, o)
  <2>1. o \in Entries
    BY <1>9 DEF Entries
  <2>2. Append(h, o) = h \o <<o>>
    BY <1>2, <2>1, AppendIsConcat
  <2> QED BY <1>9, <1>10, <2>2
<1>12. AnswerWaiting(outs, h, w, v)
  <2>1. \A k \in 1 .. Len(outs) : k = 1 /\ outs[k] = o
    BY <1>11
  <2>2. IsCall(h, o.call) /\ Waits(w, v, o.call)
    BY <1>3, <1>5, <1>6, <1>9 DEF IsCall, Waits, Holds
  <2> QED BY <1>9, <2>1, <2>2 DEF AnswerWaiting
<1>13. RestWait(outs, h, w, v, w, t)
  <2>1. \A k \in 1 .. Len(outs) : k = 1 /\ outs[k].call = call.id
    BY <1>9, <1>11
  <2>2. 1 \in 1 .. Len(outs)
    BY <1>11
  <2>3. \A k, l \in 1 .. Len(v) : v[k].id = v[l].id => k = l
    BY <1>2 DEF InHistory
  <2>4. \A x : ~Holds(w, x)
    BY <1>10, EmptySeq DEF Holds
  <2>5. ASSUME NEW i, Holds(t, i) PROVE Holds(v, i) /\ call.id # i
    <3>1. PICK k \in 1 .. Len(t) : t[k].id = i
      BY <2>5 DEF Holds
    <3>2. k + 1 \in 1 .. Len(v) /\ v[k + 1].id = i /\ k + 1 # 1
      BY <1>5, <3>1
    <3> QED BY <1>3, <1>5, <2>3, <3>2 DEF Holds
  <2>6. ASSUME NEW i, Holds(v, i), call.id # i PROVE Holds(t, i)
    <3>1. PICK k \in 1 .. Len(v) : v[k].id = i
      BY <2>6 DEF Holds
    <3>2. k # 1
      BY <1>3, <2>6, <3>1
    <3>3. k - 1 \in 1 .. Len(t) /\ t[k - 1].id = i
      BY <1>5, <3>1, <3>2
    <3> QED BY <3>3 DEF Holds
  <2> QED BY <2>1, <2>2, <2>4, <2>5, <2>6 DEF RestWait, Waits
<1>14. hh \in Seq(Entries) /\ BooksKept(hh, w, t) /\ Len(h) <= Len(hh) /\ \A i \in 1 .. Len(h) : hh[i] = h[i]
  <2>1. h \in Seq(Entries) /\ v \in Seq(Recorded) /\ w \in Seq(Recorded) /\ BooksKept(h, w, v) /\ hh = h \o outs
    BY <1>2, <1>10
  <2>2. hh \in Seq(Entries)
    BY <1>11, <1>12, <1>13, <2>1, Answering
  <2>3. BooksKept(hh, w, t)
    BY <1>11, <1>12, <1>13, <2>1, Answering
  <2>4. Len(h) <= Len(hh)
    BY <1>11, <1>12, <1>13, <2>1, Answering
  <2>5. \A i \in 1 .. Len(h) : hh[i] = h[i]
    BY <1>11, <1>12, <1>13, <2>1, Answering
  <2> QED BY <2>2, <2>3, <2>4, <2>5
<1>15. record' = hh /\ todo' = t /\ items' = w
  BY <1>1, <1>2, <1>4, <1>8, <1>10, <1>11
<1>16. InHistory(hh, t)
  <2>1. Len(h) \in Nat /\ Len(hh) \in Nat
    BY <1>2, <1>14, LenProperties
  <2>2. \A k \in 1 .. Len(t) : t[k].id \in 1 .. Len(hh) /\ hh[t[k].id] = t[k].item
    <3> TAKE k \in 1 .. Len(t)
    <3>1. k + 1 \in 1 .. Len(v) /\ t[k] = v[k + 1]
      BY <1>5
    <3>2. v[k + 1].id \in 1 .. Len(h) /\ h[v[k + 1].id] = v[k + 1].item
      BY <1>2, <3>1 DEF InHistory
    <3> QED BY <1>14, <2>1, <3>1, <3>2
  <2>3. \A k, l \in 1 .. Len(t) : t[k].id = t[l].id => k = l
    <3> TAKE k, l \in 1 .. Len(t)
    <3> HAVE t[k].id = t[l].id
    <3>1. k + 1 \in 1 .. Len(v) /\ t[k] = v[k + 1] /\ l + 1 \in 1 .. Len(v) /\ t[l] = v[l + 1]
      BY <1>5
    <3>2. k + 1 = l + 1
      BY <1>2, <3>1 DEF InHistory
    <3> QED BY <3>2
  <2> QED BY <2>2, <2>3 DEF InHistory
<1>17. InHistory(hh, w)
  BY <1>10, EmptySeq DEF InHistory
<1>18. Readable'
  BY <1>2, <1>5, <1>15 DEF Readable
<1>19. RegistryTypes'
  BY <1>1, <1>2, <1>4, <1>5, <1>10, <1>14, <1>15 DEF RegistryTypes
<1>20. OneInProgress'
  <2>1. CASE result # "plan updated"
    BY <1>1, <2>1 DEF RegistryInv, OneInProgress
  <2>2. CASE result = "plan updated"
    <3>1. ~Registered!PlanFault(call.item.payload)
      BY <1>1, <2>2 DEF Registered!Results
    <3>2. call.item.payload \in Seq(STRING) /\ call.item.payload # <<>>
      BY <1>6 DEF Registered!WritesTyped
    <3> QED BY <1>1, <2>2, <3>1, <3>2, PlanKept DEF OneInProgress
  <2> QED BY <2>1, <2>2
<1> QED BY <1>14, <1>15, <1>16, <1>17, <1>18, <1>19, <1>20 DEF RegistryInv

LEMMA WritingKeeps ==
  ASSUME Registered!WritesTyped, RegistryInv, Registered!RunTurn \/ \E item \in Writes : Registered!Streamed(item)
  PROVE  RegistryInv'
<1>0. PICK h, w, v : h = record /\ w = items /\ v = todo
  OBVIOUS
<1>1. /\ h \in Seq(Entries) /\ w \in Seq(Recorded) /\ v \in Seq(Recorded)
      /\ InHistory(h, w) /\ InHistory(h, v) /\ BooksKept(h, w, v)
  BY <1>0 DEF RegistryInv, RegistryTypes
<1>2. PICK item \in Entries :
        /\ item.type \notin Registered!OutputTypes /\ record' = Append(h, item) /\ todo' = v /\ UNCHANGED plan
        /\ \/ items' = w /\ item.type \notin Registered!CallTypes
           \/ items' = Append(w, [item |-> item, id |-> Len(h) + 1]) /\ item \in Writes
        /\ stage' = "request" /\ stage \in {"idle", "request"}
  <2>1. CASE Registered!RunTurn
    <3>1. PICK item : item = Registered!Item("message", "user", <<"text">>)
      OBVIOUS
    <3>2. item \in Entries /\ item.type \notin Registered!OutputTypes /\ item.type \notin Registered!CallTypes
      BY <3>1 DEF Entries, Registered!Item, Registered!OutputTypes, Registered!CallTypes
    <3> QED BY <1>0, <2>1, <3>1, <3>2 DEF Registered!RunTurn
  <2>2. ASSUME NEW item \in Writes, Registered!Streamed(item)
        PROVE  /\ item \in Entries /\ item.type \notin Registered!OutputTypes
               /\ record' = Append(h, item) /\ todo' = v /\ UNCHANGED plan
               /\ items' = Append(w, [item |-> item, id |-> Len(h) + 1])
               /\ stage' = "request" /\ stage = "request"
    BY <1>0, <2>2, EntryKinds DEF Registered!Streamed
  <2> QED BY <2>1, <2>2
<1>3. PICK hh, ww : hh = Append(h, item) /\ ww = items'
  OBVIOUS
<1>4. /\ hh \in Seq(Entries) /\ ww \in Seq(Recorded)
      /\ InHistory(hh, ww) /\ InHistory(hh, v) /\ BooksKept(hh, ww, v)
  BY <1>1, <1>2, <1>3, Records
<1>5. Readable' /\ OneInProgress'
  BY <1>0, <1>2 DEF RegistryInv, Readable, OneInProgress
<1>6. RegistryTypes'
  BY <1>0, <1>1, <1>2, <1>3, <1>4 DEF RegistryInv, RegistryTypes
<1> QED BY <1>2, <1>3, <1>4, <1>5, <1>6 DEF RegistryInv

LEMMA RegistryStep == Registered!WritesTyped /\ RegistryInv /\ [Registered!Next]_(Registered!vars) => RegistryInv'
<1> SUFFICES ASSUME Registered!WritesTyped, RegistryInv, [Registered!Next]_(Registered!vars) PROVE RegistryInv'
  OBVIOUS
<1>1. CASE Registered!Crash \/ UNCHANGED Registered!vars
  <2>1. /\ UNCHANGED <<record, items, todo, plan>>
        /\ stage' = stage \/ (stage = "request" /\ stage' = "crashed")
    BY <1>1 DEF Registered!Crash, Registered!vars
  <2>2. RegistryTypes' /\ Readable' /\ OneInProgress'
    BY <2>1 DEF RegistryInv, RegistryTypes, Readable, OneInProgress
  <2> QED BY <2>1, <2>2 DEF RegistryInv
<1> QED BY <1>1, ResponseKeeps, DispatchKeeps, WritingKeeps DEF Registered!Next

\* Whatever the model writes: a call that is recorded is answered once, behind it, by an output of its kind, or
\* still waits to be read or to be dispatched (build_tool_call, Session.run_turn).
THEOREM RegistryInductive == ASSUME Registered!WritesTyped PROVE Registered!Spec => []RegistryInv
<1>1. Registered!Init => RegistryInv
  BY RegistryStarts
<1>2. RegistryInv /\ [Registered!Next]_(Registered!vars) => RegistryInv'
  BY RegistryStep
<1> QED BY <1>1, <1>2, PTL DEF Registered!Spec

THEOREM Answered == ASSUME Registered!WritesTyped PROVE Registered!Spec => []Registered!EveryCallAnswered
<1>1. Registered!Spec => []RegistryInv
  BY RegistryInductive
<1>2. RegistryInv => Registered!EveryCallAnswered
  BY AnswersAll
<1> QED BY <1>1, <1>2, PTL

\* For responses of any length, of calls of any tools: no request opens and no turn ends with a call that is not
\* answered, or answered twice, and the plan never has two steps in progress (Session.run_turn, dispatch).
THEOREM AlwaysAnswered == ASSUME Registered!WritesTyped PROVE ChaptersSpec => []EveryCallAnswered
<1>1. ChaptersInit /\ chapter = "s04" => Registered!Init
  BY DEF ChaptersInit
<1>2. chapter = "s04" /\ [ChaptersNext]_chapterVars => (chapter = "s04")' /\ [Registered!Next]_(Registered!vars)
  BY DEF ChaptersNext, chapterVars, registryVars, Registered!vars
<1>3. ChaptersSpec /\ chapter = "s04" => Registered!Spec
  BY <1>1, <1>2, PTL DEF ChaptersSpec, Registered!Spec
<1>4. ~(chapter = "s04") /\ [ChaptersNext]_chapterVars => (~(chapter = "s04"))'
  BY DEF ChaptersNext, chapterVars
<1>5. ChaptersSpec /\ ~(chapter = "s04") => [](~(chapter = "s04"))
  BY <1>4, PTL DEF ChaptersSpec
<1>6. (~(chapter = "s04") => EveryCallAnswered) /\ (Registered!EveryCallAnswered => EveryCallAnswered)
  BY DEF EveryCallAnswered
<1>7. Registered!Spec => []Registered!EveryCallAnswered
  BY Answered
<1> QED BY <1>3, <1>5, <1>6, <1>7, PTL
=============================================================================
