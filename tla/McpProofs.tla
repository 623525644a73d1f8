----------------------------- MODULE McpProofs -----------------------------
(***************************************************************************)
(* For any servers and calls: the types, and that whoever takes a line for *)
(* the answer to a request takes an answer to that request.                *)
(***************************************************************************)
EXTENDS McpProperties, FiniteSetTheorems, SequenceTheorems, TLAPS

\* How far a thread is, and what it has been told.
Progress ==
  \A t \in Threads :
    /\ pc[t] \notin {"register", "fail", "over"} => Len(got[t]) <= 1
    /\ t \in Calls /\ pc[t] # "over" => Len(got[t]) = 0
    /\ t \in Servers => server[t] = t
    /\ pc[t] # "off" => server[t] \in Servers

Typed == TypeOK /\ Progress

Places == {"off", "spawn", "enter", "lock", "write", "read", "notify", "register", "fail", "over"}

\* Where a thread has sent a request, or is sending it.
InFlight == {"write", "read"}

LEMMA InitTyped == Init => Typed
<1> SUFFICES ASSUME Init PROVE Typed
  OBVIOUS
<1> USE BoundAssumption, ThreadsAssumption DEF Init
<1>1. TypeOK
  BY DEF TypeOK, Threads, NoServer
<1>2. Progress
  BY DEF Progress, Threads, NoServer
<1> QED BY <1>1, <1>2 DEF Typed

LEMMA Small ==
  ASSUME NEW k \in Nat, k <= 1
  PROVE  (k = 0 \/ k = 1) /\ k + 1 \in 1 .. 2
  OBVIOUS

\* The answers of a thread that is not at its end can be counted on two fingers.
LEMMA FewAnswers ==
  ASSUME Typed, NEW t \in Threads, pc[t] \notin {"register", "fail", "over"}
  PROVE  /\ got[t] \in Seq(Request \cup {NoRequest}) /\ Len(got[t]) \in Nat
         /\ (Len(got[t]) = 0 \/ Len(got[t]) = 1) /\ Len(got[t]) + 1 \in 1 .. 2
<1>0. got \in [Threads -> Seq(Request \cup {NoRequest})]
  BY DEF Typed, TypeOK
<1>1. got[t] \in Seq(Request \cup {NoRequest})
  BY <1>0
<1>2. Len(got[t]) \in Nat
  BY <1>1
<1>3. Len(got[t]) <= 1
  BY DEF Typed, Progress
<1>4. (Len(got[t]) = 0 \/ Len(got[t]) = 1) /\ Len(got[t]) + 1 \in 1 .. 2
  BY <1>2, <1>3, Small
<1> QED BY <1>1, <1>2, <1>4

-----------------------------------------------------------------------------
(* The threads.                                                            *)

\* Where a thread may go from a place where it has a server.
LEMMA GoTyped ==
  ASSUME Typed, NEW t \in Threads,
         NEW place \in {"enter", "lock", "write", "read", "notify", "register", "fail"}, GoTo(t, place)
  PROVE  /\ pc' \in [Threads -> Places]
         /\ how' \in [Threads -> {"none", "answered", "error", "raised"}]
         /\ pc'[t] = place /\ \A u \in Threads \ {t} : pc'[u] = pc[u]
  BY DEF Typed, TypeOK, GoTo, Places

LEMMA EndsTyped ==
  ASSUME Typed, NEW t \in Threads, Raises(t) \/ FailsWith(t)
  PROVE  /\ pc' \in [Threads -> Places]
         /\ how' \in [Threads -> {"none", "answered", "error", "raised"}]
         /\ pc'[t] \in {"fail", "over"} /\ (t \in Calls => pc'[t] = "over")
         /\ \A u \in Threads \ {t} : pc'[u] = pc[u]
  BY ThreadsAssumption DEF Typed, TypeOK, Raises, FailsWith, GoTo, Threads, Places

\* A thread that goes on has kept what it knew.
LEMMA ProgressKept ==
  ASSUME Progress, NEW t \in Threads, got' = got, server' = server,
         \A u \in Threads \ {t} : pc'[u] = pc[u],
         pc[t] # "off",
         \/ pc'[t] \in {"fail", "over"} /\ (t \in Calls => pc'[t] = "over")
         \/ pc[t] \notin {"register", "fail", "over"}
  PROVE  Progress'
  BY DEF Progress

LEMMA SpawnTyped ==
  ASSUME Typed, NEW s \in Servers, Spawn(s)
  PROVE  Typed'
<1> USE DEF Spawn
<1>0. s \in Threads
  BY DEF Threads
<1>1. CASE GoTo(s, "enter") /\ process' = [process EXCEPT ![s] = "up"] /\ attached' = attached \cup {s}
  <2>1. TypeOK'
    BY <1>0, <1>1, GoTyped DEF Typed, TypeOK, mainVars, Places
  <2>2. Progress'
    BY <1>0, <1>1, GoTyped, ProgressKept DEF Typed
  <2> QED BY <2>1, <2>2 DEF Typed
<1>2. CASE FailsWith(s) /\ UNCHANGED <<process, attached>>
  <2>1. TypeOK'
    BY <1>0, <1>2, EndsTyped DEF Typed, TypeOK, mainVars, Places
  <2>2. Progress'
    BY <1>0, <1>2, EndsTyped, ProgressKept DEF Typed
  <2> QED BY <2>1, <2>2 DEF Typed
<1> QED BY <1>1, <1>2

LEMMA EnterTyped ==
  ASSUME Typed, NEW t \in Threads, Enter(t)
  PROVE  Typed'
<1> USE DEF Enter
<1>1. CASE GoTo(t, "lock")
  <2>1. TypeOK'
    BY <1>1, GoTyped DEF Typed, TypeOK, mainVars, clientVars, serverVars, Places
  <2>2. Progress'
    BY <1>1, GoTyped, ProgressKept DEF Typed
  <2> QED BY <2>1, <2>2 DEF Typed
<1>2. CASE FailsWith(t) \/ Raises(t)
  <2>1. TypeOK'
    BY <1>2, EndsTyped DEF Typed, TypeOK, mainVars, clientVars, serverVars, Places
  <2>2. Progress'
    BY <1>2, EndsTyped, ProgressKept DEF Typed
  <2> QED BY <2>1, <2>2 DEF Typed
<1> QED BY <1>1, <1>2

LEMMA NotifyTyped ==
  ASSUME Typed, NEW s \in Servers, Notify(s)
  PROVE  Typed'
<1> USE DEF Notify
<1>0. s \in Threads
  BY DEF Threads
<1>1. CASE GoTo(s, "enter")
  <2>1. TypeOK'
    BY <1>0, <1>1, GoTyped DEF Typed, TypeOK, mainVars, clientVars, serverVars, Places
  <2>2. Progress'
    BY <1>0, <1>1, GoTyped, ProgressKept DEF Typed
  <2> QED BY <2>1, <2>2 DEF Typed
<1>2. CASE Raises(s)
  <2>1. TypeOK'
    BY <1>0, <1>2, EndsTyped DEF Typed, TypeOK, mainVars, clientVars, serverVars, Places
  <2>2. Progress'
    BY <1>0, <1>2, EndsTyped, ProgressKept DEF Typed
  <2> QED BY <2>1, <2>2 DEF Typed
<1> QED BY <1>1, <1>2

LEMMA AsksTyped ==
  ASSUME Typed, NEW t \in Threads, pc[t] \in {"lock", "write"}, NEW n \in Nat, Asks(t, n)
  PROVE  inbox' \in [Servers -> SUBSET (Nat \X Request)]
<1>1. server[t] \in Servers
  BY DEF Typed, Progress
<1>2. Len(got[t]) + 1 \in 1 .. 2
  BY FewAnswers
<1>3. <<n, <<t, Len(got[t]) + 1>>>> \in Nat \X Request
  BY <1>2 DEF Request
<1> QED BY <1>1, <1>3 DEF Asks, Typed, TypeOK

LEMMA WriteTyped ==
  ASSUME Typed, NEW t \in Threads, Write(t)
  PROVE  Typed'
<1> DEFINE s == server[t]
<1>0. s \in Servers /\ pc[t] = "lock"
  BY DEF Typed, Progress, Write
<1>n. nextId[s] \in Nat
  BY <1>0 DEF Typed, TypeOK
<1>1. nextId' \in [Servers -> Nat]
  BY <1>0 DEF Write, NewId, Typed, TypeOK
<1>2. CASE Writable(s)
  <2>1. lock' = [lock EXCEPT ![s] = t] /\ id' = [id EXCEPT ![t] = nextId[s]]
    BY <1>2 DEF Write
  <2>2. PICK place \in InFlight : GoTo(t, place)
    BY <1>2 DEF Write, InFlight
  <2>3. Asks(t, nextId[s]) \/ UNCHANGED inbox
    BY <1>2 DEF Write
  <2>4. inbox' \in [Servers -> SUBSET (Nat \X Request)]
    BY <1>0, <1>n, <2>3, AsksTyped DEF Typed, TypeOK
  <2>5. lock' \in [Servers -> Threads \cup {Nobody}] /\ id' \in [Threads -> Nat]
    BY <2>1, <1>0 DEF Typed, TypeOK
  <2>6. TypeOK'
    BY <1>1, <2>2, <2>4, <2>5, GoTyped DEF Write, Typed, TypeOK, mainVars, InFlight, Places
  <2>7. Progress'
    BY <1>0, <2>2, GoTyped, ProgressKept DEF Write, Typed, InFlight
  <2> QED BY <2>6, <2>7 DEF Typed
<1>3. CASE ~Writable(s)
  <2>1. Raises(t) /\ UNCHANGED <<lock, id, inbox>>
    BY <1>3 DEF Write
  <2>2. TypeOK'
    BY <1>1, <2>1, EndsTyped DEF Write, Typed, TypeOK, mainVars, Places
  <2>3. Progress'
    BY <1>0, <2>1, EndsTyped, ProgressKept DEF Write, Typed
  <2> QED BY <2>2, <2>3 DEF Typed
<1> QED BY <1>2, <1>3

LEMMA WrittenTyped ==
  ASSUME Typed, NEW c \in Calls, Written(c)
  PROVE  Typed'
<1>0. c \in Threads /\ pc[c] = "write" /\ id[c] \in Nat
  BY DEF Threads, Written, Typed, TypeOK
<1>1. TypeOK'
  BY <1>0, AsksTyped, GoTyped DEF Written, Typed, TypeOK, mainVars, clientVars, Places
<1>2. Progress'
  BY <1>0, GoTyped, ProgressKept DEF Written, Typed
<1> QED BY <1>1, <1>2 DEF Typed

\* The line that is read, and what is left of the pipe.
LEMMA LineTyped ==
  ASSUME Typed, NEW s \in Servers, wire[s] # <<>>
  PROVE  /\ Head(wire[s]) \in Line /\ Tail(wire[s]) \in Seq(Line)
         /\ Head(wire[s]).answers \in Request \cup {NoRequest}
<1>1. wire[s] \in Seq(Line)
  BY DEF Typed, TypeOK
<1>2. Head(wire[s]) \in Line /\ Tail(wire[s]) \in Seq(Line)
  BY <1>1
<1> QED BY <1>2 DEF Line

LEMMA ReleaseTyped ==
  ASSUME Typed, NEW t \in Threads, server[t] \in Servers, Release(t)
  PROVE  lock' \in [Servers -> Threads \cup {Nobody}] /\ id' \in [Threads -> Nat]
  BY DEF Release, Typed, TypeOK

\* A result: where the thread goes, and what it has got.
LEMMA ResultTyped ==
  ASSUME Typed, NEW t \in Threads, pc[t] = "read", Goes(t), server' = server,
         NEW answers \in Request \cup {NoRequest}, got' = [got EXCEPT ![t] = Append(@, answers)]
  PROVE  /\ pc' \in [Threads -> Places]
         /\ how' \in [Threads -> {"none", "answered", "error", "raised"}]
         /\ got' \in [Threads -> Seq(Request \cup {NoRequest})]
         /\ pc'[t] \notin InFlight /\ \A u \in Threads \ {t} : pc'[u] = pc[u]
         /\ Progress'
<1> USE DEF InFlight, Places
<1>1. got[t] \in Seq(Request \cup {NoRequest}) /\ (Len(got[t]) = 0 \/ Len(got[t]) = 1)
  BY FewAnswers
<1>2. /\ Append(got[t], answers) \in Seq(Request \cup {NoRequest})
      /\ Len(Append(got[t], answers)) = Len(got[t]) + 1
  BY <1>1
<1>3. got' \in [Threads -> Seq(Request \cup {NoRequest})] /\ Len(got'[t]) = Len(got[t]) + 1
  BY <1>2 DEF Typed, TypeOK
<1>4. \A u \in Threads \ {t} : got'[u] = got[u]
  BY DEF Typed, TypeOK
<1>5. CASE t \in Servers /\ Len(got[t]) = 0 /\ GoTo(t, "notify")
  <2>1. t \notin Calls
    BY <1>5, ThreadsAssumption
  <2>2. Progress'
    BY <1>3, <1>4, <1>5, <2>1, GoTyped DEF Progress, Typed
  <2> QED BY <1>3, <1>5, <2>2, GoTyped
<1>6. CASE t \in Servers /\ Len(got[t]) = 1 /\ GoTo(t, "register")
  <2>1. t \notin Calls
    BY <1>6, ThreadsAssumption
  <2>2. Progress'
    BY <1>3, <1>4, <1>6, <2>1, GoTyped DEF Progress, Typed
  <2> QED BY <1>3, <1>6, <2>2, GoTyped
<1>7. CASE t \in Calls /\ pc' = [pc EXCEPT ![t] = "over"] /\ how' = [how EXCEPT ![t] = "answered"]
  <2>2. /\ pc' \in [Threads -> Places]
        /\ how' \in [Threads -> {"none", "answered", "error", "raised"}]
        /\ pc'[t] = "over" /\ \A u \in Threads \ {t} : pc'[u] = pc[u]
    BY <1>7 DEF Typed, TypeOK
  <2>3. Progress'
    BY <1>4, <1>7, <2>2, ThreadsAssumption DEF Progress, Typed
  <2> QED BY <1>3, <2>2, <2>3
<1> QED BY <1>5, <1>6, <1>7 DEF Goes

LEMMA ReadTyped ==
  ASSUME Typed, NEW t \in Threads, Read(t)
  PROVE  Typed'
<1> DEFINE s == server[t]
           line == Head(wire[s])
<1>0. s \in Servers /\ pc[t] = "read"
  BY DEF Typed, Progress, Read
<1>1. /\ line \in Line /\ line.answers \in Request \cup {NoRequest}
      /\ wire' = [wire EXCEPT ![s] = Tail(@)] /\ wire' \in [Servers -> Seq(Line)]
  BY <1>0, LineTyped DEF Read, Typed, TypeOK
<1>2. UNCHANGED <<mainVars, attached, hungUp, nextId, server, process, inbox, extra>>
  BY DEF Read
<1> HIDE DEF line
<1>3. CASE Goes(t) /\ got' = [got EXCEPT ![t] = Append(@, line.answers)] /\ Release(t)
  <2>1. TypeOK'
    BY <1>0, <1>1, <1>2, <1>3, ResultTyped, ReleaseTyped DEF Typed, TypeOK, mainVars, Places
  <2>2. Progress'
    BY <1>0, <1>1, <1>2, <1>3, ResultTyped
  <2> QED BY <2>1, <2>2 DEF Typed
<1>4. CASE (Raises(t) \/ FailsWith(t)) /\ Release(t) /\ UNCHANGED got
  <2>1. TypeOK'
    BY <1>0, <1>1, <1>2, <1>4, EndsTyped, ReleaseTyped DEF Typed, TypeOK, mainVars, Places
  <2>2. Progress'
    BY <1>0, <1>2, <1>4, EndsTyped, ProgressKept DEF Typed
  <2> QED BY <2>1, <2>2 DEF Typed
<1>5. CASE UNCHANGED <<pc, how, lock, id, got>>
  <2>1. TypeOK'
    BY <1>1, <1>2, <1>5 DEF Typed, TypeOK, mainVars
  <2>2. Progress'
    BY <1>2, <1>5 DEF Typed, Progress
  <2> QED BY <2>1, <2>2 DEF Typed
<1> QED BY <1>3, <1>4, <1>5 DEF Read, line

LEMMA ReadEndTyped ==
  ASSUME Typed, NEW t \in Threads, ReadEnd(t) \/ WriteFails(t)
  PROVE  Typed'
<1>0. server[t] \in Servers /\ pc[t] \in InFlight /\ Release(t) /\ (Raises(t) \/ FailsWith(t))
      /\ UNCHANGED <<mainVars, attached, hungUp, nextId, server, got, serverVars>>
  BY DEF Typed, Progress, ReadEnd, WriteFails, InFlight
<1>1. TypeOK'
  BY <1>0, EndsTyped, ReleaseTyped DEF Typed, TypeOK, mainVars, serverVars, Places
<1>2. Progress'
  BY <1>0, EndsTyped, ProgressKept DEF Typed, InFlight
<1> QED BY <1>1, <1>2 DEF Typed

LEMMA StartEndsTyped ==
  ASSUME Typed, NEW s \in Servers, Register(s) \/ Fail(s)
  PROVE  Typed'
<1>0. s \in Threads /\ s \notin Calls
  BY ThreadsAssumption DEF Threads
<1>1. /\ pc' \in [Threads -> Places]
      /\ how' \in [Threads -> {"none", "answered", "error", "raised"}]
      /\ pc[s] # "off" /\ pc'[s] = "over" /\ \A u \in Threads \ {s} : pc'[u] = pc[u]
  BY <1>0 DEF Register, Fail, Typed, TypeOK, Places
<1>2. TypeOK'
  <2>1. CASE Register(s)
    BY <2>1, <1>1 DEF Register, Typed, TypeOK, clientVars, serverVars, Places
  <2>2. CASE Fail(s)
    BY <2>2, <1>1 DEF Fail, Typed, TypeOK, Places
  <2> QED BY <2>1, <2>2
<1>3. Progress'
  BY <1>0, <1>1, ProgressKept DEF Register, Fail, Typed
<1> QED BY <1>2, <1>3 DEF Typed

-----------------------------------------------------------------------------
(* The main thread and the servers.                                        *)

LEMMA MainTyped ==
  ASSUME Typed, MainStep \/ CloseAll
  PROVE  Typed'
<1>1. UNCHANGED threadVars
  BY DEF MainStep, Join, HangUp, Close, StartAllReturns, CloseAllReturns, CloseAllRaises, CloseAll
<1>2. Progress'
  BY <1>1 DEF Typed, Progress, threadVars
<1>3. TypeOK'
  <2>1. CASE CloseAll
    <3>1. Cardinality(clients) \in Nat
      BY BoundAssumption, FS_Subset, FS_CardinalityType DEF Typed, TypeOK
    <3> QED BY <2>1, <3>1 DEF CloseAll, Typed, TypeOK, clientVars, threadVars, serverVars
  <2>2. ASSUME NEW s \in Servers, Join(s) PROVE TypeOK'
    BY <2>2 DEF Join, Typed, TypeOK, clientVars, threadVars, serverVars
  <2>3. ASSUME NEW s \in Servers, HangUp(s) PROVE TypeOK'
    BY <2>3 DEF HangUp, Typed, TypeOK, mainVars, threadVars, serverVars
  <2>4. ASSUME NEW s \in Servers, Close(s) PROVE TypeOK'
    BY <2>4 DEF Close, Killed, Typed, TypeOK, threadVars
  <2>5. CASE StartAllReturns \/ CloseAllReturns \/ CloseAllRaises
    BY <2>5 DEF StartAllReturns, CloseAllReturns, CloseAllRaises, Typed, TypeOK, clientVars,
                threadVars, serverVars
  <2> QED BY <2>1, <2>2, <2>3, <2>4, <2>5 DEF MainStep
<1> QED BY <1>2, <1>3 DEF Typed

LEMMA CallTyped ==
  ASSUME Typed, NEW c \in Calls, NEW s \in Servers, Call(c, s)
  PROVE  Typed'
<1>0. c \in Threads /\ c \notin Servers
  BY ThreadsAssumption DEF Threads
<1>1. TypeOK'
  BY <1>0, GoTyped DEF Call, Typed, TypeOK, mainVars, clientVars, serverVars, Places
<1>2. Progress'
  <2>1. /\ pc'[c] = "enter" /\ \A u \in Threads \ {c} : pc'[u] = pc[u]
    BY <1>0, GoTyped DEF Call
  <2>2. server'[c] = s /\ \A u \in Threads \ {c} : server'[u] = server[u]
    BY <1>0 DEF Call, Typed, TypeOK
  <2> QED BY <1>0, <2>1, <2>2 DEF Call, Typed, Progress
<1> QED BY <1>1, <1>2 DEF Typed

LEMMA SaysTyped ==
  ASSUME Typed, NEW s \in Servers, NEW line \in Line, Says(s, line)
  PROVE  /\ wire' \in [Servers -> Seq(Line)] /\ wire' = [wire EXCEPT ![s] = Append(@, line)]
  BY DEF Says, Typed, TypeOK

LEMMA ServerTyped ==
  ASSUME Typed, NEW s \in Servers, Answer(s) \/ SayMore(s) \/ End(s)
  PROVE  Typed'
<1>1. UNCHANGED threadVars
  BY DEF Answer, SayMore, End
<1>2. Progress'
  BY <1>1 DEF Typed, Progress, threadVars
<1>3. CASE Answer(s)
  <2>1. PICK r \in inbox[s], kind \in {"result", "error"} :
          /\ inbox' = [inbox EXCEPT ![s] = @ \ {r}]
          /\ Says(s, [kind |-> kind, id |-> r[1], answers |-> r[2]])
    BY <1>3 DEF Answer
  <2>2. r \in Nat \X Request
    BY DEF Typed, TypeOK
  <2>3. [kind |-> kind, id |-> r[1], answers |-> r[2]] \in Line
    BY <2>2 DEF Line
  <2>4. wire' \in [Servers -> Seq(Line)]
    BY <2>1, <2>3, SaysTyped
  <2>5. inbox' \in [Servers -> SUBSET (Nat \X Request)]
    BY <2>1 DEF Typed, TypeOK
  <2> QED BY <1>2, <1>3, <2>4, <2>5 DEF Answer, Typed, TypeOK, mainVars, clientVars, threadVars
<1>4. CASE SayMore(s)
  <2>1. PICK line \in Line : Says(s, line)
    BY <1>4, BoundAssumption DEF SayMore, Line
  <2>2. wire' \in [Servers -> Seq(Line)]
    BY <2>1, SaysTyped
  <2> QED BY <1>2, <1>4, <2>2, BoundAssumption DEF SayMore, Typed, TypeOK, mainVars, clientVars, threadVars
<1>5. CASE End(s)
  BY <1>2, <1>5 DEF End, Typed, TypeOK, mainVars, clientVars, threadVars
<1> QED BY <1>3, <1>4, <1>5

LEMMA NextTyped == Typed /\ [Next]_vars => Typed'
<1> SUFFICES ASSUME Typed, [Next]_vars PROVE Typed'
  OBVIOUS
<1>1. CASE UNCHANGED vars
  BY <1>1 DEF vars, mainVars, clientVars, threadVars, serverVars, Typed, TypeOK, Progress
<1>2. ASSUME NEW t \in Threads, ThreadStep(t) PROVE Typed'
  BY <1>2, EnterTyped, WriteTyped, ReadTyped, ReadEndTyped, SpawnTyped, NotifyTyped, StartEndsTyped
     DEF ThreadStep
<1> QED BY <1>1, <1>2, MainTyped, CallTyped, WrittenTyped, ServerTyped DEF Next

\* Every variable keeps its type, for any servers and calls.
THEOREM TypeCorrect == Spec => []TypeOK
<1>1. Typed => TypeOK
  BY DEF Typed
<1> QED BY InitTyped, NextTyped, <1>1, PTL DEF Spec

-----------------------------------------------------------------------------
(* Answers.                                                                *)

\* An id and a request that travel together, to server s or back.
Carries(s, i, r) ==
  \/ <<i, r>> \in inbox[s]
  \/ \E k \in DOMAIN wire[s] : wire[s][k].id = i /\ wire[s][k].answers = r /\ r # NoRequest

\* Ids are used up in order, ...
Ordered ==
  /\ \A s \in Servers, i \in Nat, r \in Request : Carries(s, i, r) => i < nextId[s]
  /\ \A t \in Threads : pc[t] \in InFlight => id[t] < nextId[server[t]]

\* ... the id that a thread waits for travels with its own request only, ...
OwnId ==
  \A t \in Threads, s \in Servers, i \in Nat, r \in Request :
    pc[t] \in InFlight /\ server[t] = s /\ id[t] = i /\ Carries(s, i, r) => r = <<t, Len(got[t]) + 1>>

\* ... and no other thread waits for it.
Apart ==
  \A t, u \in Threads :
    t # u /\ pc[t] \in InFlight /\ pc[u] \in InFlight /\ server[t] = server[u] => id[t] # id[u]

Traced == Ordered /\ OwnId /\ Apart

IndInv == Typed /\ Traced /\ AnswersAreTheirs

LEMMA InitIndInv == Init => IndInv
<1> SUFFICES ASSUME Init PROVE IndInv
  OBVIOUS
<1>1. Typed
  BY InitTyped
<1>2. Traced
  BY DEF Init, Traced, Ordered, OwnId, Apart, InFlight, Carries, Threads
<1>3. AnswersAreTheirs
  BY DEF Init, AnswersAreTheirs
<1> QED BY <1>1, <1>2, <1>3 DEF IndInv

\* A step that starts no request keeps the traces.
LEMMA TracedKept ==
  ASSUME Traced, nextId' = nextId,
         \A s \in Servers, i \in Nat, r \in Request : Carries(s, i, r)' => Carries(s, i, r),
         \A t \in Threads : pc'[t] \in InFlight =>
           pc[t] \in InFlight /\ id'[t] = id[t] /\ server'[t] = server[t] /\ got'[t] = got[t]
  PROVE  Traced'
<1>1. Ordered'
  BY DEF Traced, Ordered
<1>2. OwnId'
  <2> SUFFICES ASSUME NEW t \in Threads, NEW s \in Servers, NEW i \in Nat, NEW r \in Request,
                      pc'[t] \in InFlight, server'[t] = s, id'[t] = i, Carries(s, i, r)'
               PROVE  r = <<t, Len(got'[t]) + 1>>
    BY DEF OwnId
  <2>1. pc[t] \in InFlight /\ server[t] = s /\ id[t] = i /\ got'[t] = got[t] /\ Carries(s, i, r)
    OBVIOUS
  <2>2. r = <<t, Len(got[t]) + 1>>
    BY <2>1 DEF Traced, OwnId
  <2> QED BY <2>1, <2>2
<1>3. Apart'
  BY DEF Traced, Apart
<1> QED BY <1>1, <1>2, <1>3 DEF Traced

\* A step that takes nothing from or puts nothing into the pipes.
LEMMA PipesKept ==
  ASSUME wire' = wire, \A s \in Servers : inbox'[s] \subseteq inbox[s]
  PROVE  \A s \in Servers, i \in Nat, r \in Request : Carries(s, i, r)' => Carries(s, i, r)
  BY DEF Carries

LEMMA TailShift ==
  ASSUME NEW S, NEW q \in Seq(S), q # <<>>, NEW k \in DOMAIN Tail(q)
  PROVE  k + 1 \in DOMAIN q /\ Tail(q)[k] = q[k + 1]
<1>1. /\ Tail(q) \in Seq(S) /\ Len(Tail(q)) = Len(q) - 1 /\ Len(q) \in Nat
      /\ \A i \in 1 .. Len(Tail(q)) : Tail(q)[i] = q[i + 1]
  BY HeadTailProperties
<1>2. k \in 1 .. Len(Tail(q))
  BY <1>1
<1> QED BY <1>1, <1>2

LEMMA ReadKept ==
  ASSUME Typed, NEW s \in Servers, wire[s] # <<>>, wire' = [wire EXCEPT ![s] = Tail(@)], inbox' = inbox
  PROVE  \A u \in Servers, i \in Nat, r \in Request : Carries(u, i, r)' => Carries(u, i, r)
<1> SUFFICES ASSUME NEW u \in Servers, NEW i \in Nat, NEW r \in Request, Carries(u, i, r)'
             PROVE  Carries(u, i, r)
  OBVIOUS
<1>1. CASE u # s
  BY <1>1 DEF Carries, Typed, TypeOK
<1>2. CASE <<i, r>> \in inbox'[u]
  BY <1>2 DEF Carries
<1>3. ASSUME u = s,
             NEW k \in DOMAIN wire'[s], wire'[s][k].id = i, wire'[s][k].answers = r, r # NoRequest
      PROVE  Carries(u, i, r)
  <2>1. wire[s] \in Seq(Line) /\ wire'[s] = Tail(wire[s])
    BY DEF Typed, TypeOK
  <2>2. k + 1 \in DOMAIN wire[s] /\ wire'[s][k] = wire[s][k + 1]
    BY <1>3, <2>1, TailShift
  <2> QED BY <1>3, <2>2 DEF Carries
<1> QED BY <1>1, <1>2, <1>3 DEF Carries

LEMMA SaysKept ==
  ASSUME Typed, NEW s \in Servers, NEW line \in Line, wire' = [wire EXCEPT ![s] = Append(@, line)],
         \A u \in Servers : inbox'[u] \subseteq inbox[u],
         line.answers = NoRequest \/ <<line.id, line.answers>> \in inbox[s]
  PROVE  \A u \in Servers, i \in Nat, r \in Request : Carries(u, i, r)' => Carries(u, i, r)
<1> SUFFICES ASSUME NEW u \in Servers, NEW i \in Nat, NEW r \in Request, Carries(u, i, r)'
             PROVE  Carries(u, i, r)
  OBVIOUS
<1>1. CASE u # s
  BY <1>1 DEF Carries, Typed, TypeOK
<1>2. CASE <<i, r>> \in inbox'[u]
  BY <1>2 DEF Carries
<1>3. ASSUME u = s,
             NEW k \in DOMAIN wire'[s], wire'[s][k].id = i, wire'[s][k].answers = r, r # NoRequest
      PROVE  Carries(u, i, r)
  <2>1. wire[s] \in Seq(Line) /\ wire'[s] = Append(wire[s], line)
    BY DEF Typed, TypeOK
  <2>2. CASE k \in DOMAIN wire[s]
    BY <1>3, <2>1, <2>2 DEF Carries
  <2>3. CASE k \notin DOMAIN wire[s]
    <3>1. wire'[s][k] = line
      BY <1>3, <2>1, <2>3
    <3> QED BY <1>3, <3>1 DEF Carries
  <2> QED BY <2>2, <2>3
<1> QED BY <1>1, <1>2, <1>3 DEF Carries

\* A new request takes an id that nothing carries yet.
LEMMA WriteTraced ==
  ASSUME Typed, Traced, NEW t \in Threads, Write(t)
  PROVE  Traced'
<1> DEFINE s == server[t]
           new == <<t, Len(got[t]) + 1>>
<1>0. s \in Servers /\ pc[t] = "lock" /\ wire' = wire /\ got' = got /\ server' = server
  BY DEF Typed, Progress, Write
<1>n. nextId[s] \in Nat /\ nextId' = [nextId EXCEPT ![s] = @ + 1]
  BY <1>0 DEF Write, NewId, Typed, TypeOK
<1>m. \A u \in Servers : nextId[u] \in Nat /\ nextId'[u] \in Nat /\ nextId[u] <= nextId'[u]
  BY <1>n DEF Typed, TypeOK
<1>1. CASE Writable(s)
  <2>1. id' = [id EXCEPT ![t] = nextId[s]] /\ \E place \in InFlight : GoTo(t, place)
    BY <1>1 DEF Write, InFlight
  <2>2. inbox' = [inbox EXCEPT ![s] = @ \cup {<<nextId[s], new>>}] \/ inbox' = inbox
    BY <1>1 DEF Write, Asks
  <2>3. ASSUME NEW u \in Servers, NEW i \in Nat, NEW r \in Request, Carries(u, i, r)'
        PROVE  Carries(u, i, r) \/ (u = s /\ i = nextId[s] /\ r = new)
    BY <1>0, <2>2, <2>3 DEF Carries, Typed, TypeOK
  <2>4. ASSUME NEW u \in Servers, NEW i \in Nat, NEW r \in Request, Carries(u, i, r)'
        PROVE  i < nextId'[u]
    <3>1. CASE Carries(u, i, r)
      <4>1. i < nextId[u]
        BY <3>1 DEF Traced, Ordered
      <4> QED BY <1>m, <4>1
    <3>2. CASE u = s /\ i = nextId[s]
      BY <3>2, <1>0, <1>n DEF Typed, TypeOK
    <3> QED BY <2>3, <2>4, <3>1, <3>2
  <2>5. ASSUME NEW u \in Threads \ {t}, pc'[u] \in InFlight
        PROVE  /\ pc[u] \in InFlight /\ id'[u] = id[u] /\ server'[u] = server[u] /\ got'[u] = got[u]
               /\ server[u] \in Servers /\ id[u] \in Nat /\ id[u] < nextId[server[u]]
    <3>1. pc[u] \in InFlight /\ id'[u] = id[u]
      BY <2>1, <2>5, GoTyped DEF Typed, TypeOK, InFlight
    <3> QED BY <1>0, <3>1 DEF Typed, TypeOK, Progress, Traced, Ordered, InFlight
  <2>6. id'[t] = nextId[s] /\ id'[t] < nextId'[s]
    BY <1>0, <1>n, <2>1 DEF Typed, TypeOK
  <2>7. Ordered'
    <3>1. ASSUME NEW u \in Threads, pc'[u] \in InFlight PROVE id'[u] < nextId'[server'[u]]
      BY <1>0, <1>m, <2>5, <2>6, <3>1
    <3> QED BY <2>4, <3>1 DEF Ordered
  <2>8. OwnId'
    <3> SUFFICES ASSUME NEW u \in Threads, NEW v \in Servers, NEW i \in Nat, NEW r \in Request,
                        pc'[u] \in InFlight, server'[u] = v, id'[u] = i, Carries(v, i, r)'
                 PROVE  r = <<u, Len(got'[u]) + 1>>
      BY DEF OwnId
    <3>1. CASE u = t
      <4>1. v = s /\ i = nextId[s]
        BY <1>0, <2>6, <3>1
      <4>2. ~Carries(v, i, r)
        BY <1>n, <4>1 DEF Traced, Ordered
      <4>3. r = new
        BY <2>3, <4>2
      <4> QED BY <1>0, <3>1, <4>3
    <3>2. CASE u # t
      <4>1. pc[u] \in InFlight /\ id[u] = i /\ server[u] = v /\ got'[u] = got[u] /\ i < nextId[v]
        BY <2>5, <3>2
      <4>2. Carries(v, i, r)
        BY <1>m, <2>3, <4>1
      <4>3. r = <<u, Len(got[u]) + 1>>
        BY <4>1, <4>2 DEF Traced, OwnId
      <4> QED BY <4>1, <4>3
    <3> QED BY <3>1, <3>2
  <2>9. Apart'
    <3> SUFFICES ASSUME NEW u \in Threads, NEW v \in Threads, u # v, pc'[u] \in InFlight,
                        pc'[v] \in InFlight, server'[u] = server'[v]
                 PROVE  id'[u] # id'[v]
      BY DEF Apart
    <3>1. CASE u # t /\ v # t
      BY <2>5, <3>1 DEF Traced, Apart
    <3>2. CASE u = t
      <4>1. id'[v] < nextId[s] /\ id'[v] \in Nat
        BY <1>0, <2>5, <3>2
      <4> QED BY <1>n, <2>6, <3>2, <4>1
    <3>3. CASE v = t
      <4>1. id'[u] < nextId[s] /\ id'[u] \in Nat
        BY <1>0, <2>5, <3>3
      <4> QED BY <1>n, <2>6, <3>3, <4>1
    <3> QED BY <3>1, <3>2, <3>3
  <2> QED BY <2>7, <2>8, <2>9 DEF Traced
<1>2. CASE ~Writable(s)
  <2>1. Raises(t) /\ id' = id /\ inbox' = inbox
    BY <1>2 DEF Write
  <2>2. ASSUME NEW u \in Servers, NEW i \in Nat, NEW r \in Request, Carries(u, i, r)'
        PROVE  Carries(u, i, r)
    BY <1>0, <2>1, <2>2, PipesKept
  <2>3. ASSUME NEW u \in Threads, pc'[u] \in InFlight
        PROVE  /\ pc[u] \in InFlight /\ server[u] \in Servers /\ id[u] \in Nat
               /\ id[u] < nextId[server[u]]
    <3>1. pc[u] \in InFlight
      BY <2>1, <2>3, EndsTyped DEF InFlight
    <3> QED BY <3>1 DEF Typed, TypeOK, Progress, Traced, Ordered, InFlight
  <2>4. Ordered'
    <3>1. ASSUME NEW u \in Servers, NEW i \in Nat, NEW r \in Request, Carries(u, i, r)'
          PROVE  i < nextId'[u]
      <4>1. i < nextId[u]
        BY <2>2, <3>1 DEF Traced, Ordered
      <4> QED BY <1>m, <4>1
    <3>2. ASSUME NEW u \in Threads, pc'[u] \in InFlight PROVE id'[u] < nextId'[server'[u]]
      BY <1>0, <1>m, <2>1, <2>3, <3>2
    <3> QED BY <3>1, <3>2 DEF Ordered
  <2>5. OwnId'
    <3> SUFFICES ASSUME NEW u \in Threads, NEW v \in Servers, NEW i \in Nat, NEW r \in Request,
                        pc'[u] \in InFlight, server'[u] = v, id'[u] = i, Carries(v, i, r)'
                 PROVE  r = <<u, Len(got'[u]) + 1>>
      BY DEF OwnId
    <3>1. pc[u] \in InFlight /\ id[u] = i /\ server[u] = v /\ got' = got /\ Carries(v, i, r)
      BY <1>0, <2>1, <2>2, <2>3
    <3> QED BY <3>1 DEF Traced, OwnId
  <2>6. Apart'
    BY <1>0, <2>1, <2>3 DEF Traced, Apart
  <2> QED BY <2>4, <2>5, <2>6 DEF Traced
<1> QED BY <1>1, <1>2

\* What the server reads at last carries the id that its thread waits for.
LEMMA WrittenTraced ==
  ASSUME Typed, Traced, NEW c \in Calls, Written(c)
  PROVE  Traced'
<1> DEFINE s == server[c]
           new == <<c, Len(got[c]) + 1>>
<1>0. /\ c \in Threads /\ s \in Servers /\ pc[c] = "write" /\ id[c] \in Nat
      /\ UNCHANGED <<wire, got, server, id, nextId>>
  BY DEF Threads, Typed, TypeOK, Progress, Written, clientVars
<1>1. \A u \in Threads : pc'[u] \in InFlight => pc[u] \in InFlight
  BY <1>0, GoTyped DEF Written, InFlight
<1>2. ASSUME NEW u \in Servers, NEW i \in Nat, NEW r \in Request, Carries(u, i, r)'
      PROVE  Carries(u, i, r) \/ (u = s /\ i = id[c] /\ r = new)
  BY <1>0, <1>2 DEF Written, Asks, Carries, Typed, TypeOK
<1>3. Ordered'
  <2>1. id[c] < nextId[s]
    BY <1>0 DEF Traced, Ordered, InFlight
  <2>2. ASSUME NEW u \in Servers, NEW i \in Nat, NEW r \in Request, Carries(u, i, r)'
        PROVE  i < nextId'[u]
    BY <1>0, <1>2, <2>1, <2>2 DEF Traced, Ordered
  <2> QED BY <1>0, <1>1, <2>2 DEF Traced, Ordered
<1>4. OwnId'
  <2> SUFFICES ASSUME NEW u \in Threads, NEW v \in Servers, NEW i \in Nat, NEW r \in Request,
                      pc'[u] \in InFlight, server'[u] = v, id'[u] = i, Carries(v, i, r)'
               PROVE  r = <<u, Len(got'[u]) + 1>>
    BY DEF OwnId
  <2>1. pc[u] \in InFlight /\ server[u] = v /\ id[u] = i /\ got'[u] = got[u]
    BY <1>0, <1>1
  <2>2. CASE Carries(v, i, r)
    BY <2>1, <2>2 DEF Traced, OwnId
  <2>3. CASE v = s /\ i = id[c] /\ r = new
    <3>1. u = c
      BY <1>0, <2>1, <2>3 DEF Traced, Apart, InFlight
    <3> QED BY <2>1, <2>3, <3>1
  <2> QED BY <1>2, <2>2, <2>3
<1>5. Apart'
  BY <1>0, <1>1 DEF Traced, Apart
<1> QED BY <1>3, <1>4, <1>5 DEF Traced

\* What a thread takes for its answer carries the id it waits for.
LEMMA ReadTraced ==
  ASSUME IndInv, Typed', NEW t \in Threads, Read(t)
  PROVE  Traced' /\ AnswersAreTheirs'
<1> DEFINE s == server[t]
           line == Head(wire[s])
<1>0. s \in Servers /\ pc[t] = "read" /\ id[t] \in Nat /\ wire[s] # <<>>
  BY DEF IndInv, Typed, TypeOK, Progress, Read
<1>1. line \in Line /\ line.answers \in Request \cup {NoRequest} /\ line = wire[s][1] /\ 1 \in DOMAIN wire[s]
  <2>1. wire[s] \in Seq(Line)
    BY <1>0 DEF IndInv, Typed, TypeOK
  <2>2. line = wire[s][1] /\ 1 \in DOMAIN wire[s]
    BY <1>0, <2>1
  <2> QED BY <1>0, <2>2, LineTyped DEF IndInv
<1>2. /\ wire' = [wire EXCEPT ![s] = Tail(@)]
      /\ UNCHANGED <<nextId, server, inbox>>
  BY DEF Read
<1>3. \A u \in Servers, i \in Nat, r \in Request : Carries(u, i, r)' => Carries(u, i, r)
  BY <1>0, <1>2, ReadKept DEF IndInv
<1>4. CASE Goes(t) /\ got' = [got EXCEPT ![t] = Append(@, line.answers)] /\ Release(t) /\ Matches(line, t)
  <2>1. pc'[t] \notin InFlight /\ \A u \in Threads \ {t} : pc'[u] = pc[u]
    BY <1>0, <1>1, <1>2, <1>4, ResultTyped DEF IndInv
  <2>2. \A u \in Threads \ {t} : id'[u] = id[u] /\ got'[u] = got[u]
    BY <1>4 DEF Release, IndInv, Typed, TypeOK
  <2>3. Traced'
    BY <1>2, <1>3, <2>1, <2>2, TracedKept DEF IndInv
  <2>4. line.answers \in {<<t, Len(got[t]) + 1>>, NoRequest}
    <3>1. CASE line.answers # NoRequest
      <4>1. Carries(s, id[t], line.answers)
        BY <1>1, <1>4, <3>1 DEF Carries, Matches
      <4> QED BY <1>0, <1>1, <3>1, <4>1 DEF IndInv, Traced, OwnId, InFlight
    <3> QED BY <3>1
  <2>5. /\ got[t] \in Seq(Request \cup {NoRequest})
        /\ got'[t] = Append(got[t], line.answers)
    BY <1>0, <1>4, FewAnswers DEF IndInv, Typed, TypeOK
  <2>6. ASSUME NEW u \in Threads, NEW n \in DOMAIN got'[u]
        PROVE  got'[u][n] \in {<<u, n>>, NoRequest}
    <3>1. CASE u # t
      BY <2>2, <2>6, <3>1 DEF IndInv, AnswersAreTheirs
    <3>2. CASE u = t /\ n \in DOMAIN got[t]
      BY <2>5, <3>2 DEF IndInv, AnswersAreTheirs
    <3>3. CASE u = t /\ n \notin DOMAIN got[t]
      <4>1. n = Len(got[t]) + 1 /\ got'[t][n] = line.answers
        BY <1>1, <2>5, <2>6, <3>3
      <4> QED BY <2>4, <3>3, <4>1
    <3> QED BY <3>1, <3>2, <3>3
  <2> QED BY <2>3, <2>6 DEF AnswersAreTheirs
<1>5. CASE (Raises(t) \/ FailsWith(t)) /\ Release(t) /\ UNCHANGED got
  <2>1. pc'[t] \notin InFlight /\ \A u \in Threads \ {t} : pc'[u] = pc[u]
    BY <1>5, EndsTyped DEF IndInv, InFlight
  <2>2. \A u \in Threads \ {t} : id'[u] = id[u]
    BY <1>5 DEF Release, IndInv, Typed, TypeOK
  <2>3. Traced'
    BY <1>2, <1>3, <1>5, <2>1, <2>2, TracedKept DEF IndInv
  <2> QED BY <1>5, <2>3 DEF IndInv, AnswersAreTheirs
<1>6. CASE UNCHANGED <<pc, id, got>>
  <2>1. Traced'
    BY <1>2, <1>3, <1>6, TracedKept DEF IndInv
  <2> QED BY <1>6, <2>1 DEF IndInv, AnswersAreTheirs
<1> QED BY <1>4, <1>5, <1>6 DEF Read

\* The other steps of a thread start no request and take no line.
LEMMA ThreadTraced ==
  ASSUME IndInv, Typed', NEW t \in Threads, ThreadStep(t), ~Read(t)
  PROVE  Traced' /\ AnswersAreTheirs'
<1>1. CASE Write(t)
  <2>1. got' = got
    BY <1>1 DEF Write
  <2> QED BY <1>1, <2>1, WriteTraced DEF IndInv, AnswersAreTheirs
<1>2. CASE ~Write(t)
  <2>1. /\ wire' = wire /\ nextId' = nextId /\ server' = server /\ got' = got
        /\ \A s \in Servers : inbox'[s] \subseteq inbox[s]
        /\ pc'[t] \notin InFlight /\ \A u \in Threads \ {t} : pc'[u] = pc[u] /\ id'[u] = id[u]
    <3> USE DEF InFlight
    <3>1. CASE Enter(t)
      BY <3>1, GoTyped, EndsTyped DEF Enter, IndInv, clientVars, serverVars
    <3>2. CASE ReadEnd(t) \/ WriteFails(t)
      <4>1. \A u \in Threads \ {t} : id'[u] = id[u]
        BY <3>2 DEF ReadEnd, WriteFails, Release, IndInv, Typed, TypeOK
      <4> QED BY <3>2, <4>1, EndsTyped DEF ReadEnd, WriteFails, IndInv, serverVars
    <3>3. CASE t \in Servers /\ Spawn(t)
      BY <3>3, GoTyped, EndsTyped DEF Spawn, IndInv
    <3>4. CASE t \in Servers /\ Notify(t)
      BY <3>4, GoTyped, EndsTyped DEF Notify, IndInv, clientVars, serverVars
    <3>5. CASE t \in Servers /\ Register(t)
      BY <3>5 DEF Register, IndInv, Typed, TypeOK, clientVars, serverVars
    <3>6. CASE t \in Servers /\ Fail(t)
      BY <3>6 DEF Fail, IndInv, Typed, TypeOK
    <3> QED BY <1>2, <3>1, <3>2, <3>3, <3>4, <3>5, <3>6 DEF ThreadStep
  <2>2. \A s \in Servers, i \in Nat, r \in Request : Carries(s, i, r)' => Carries(s, i, r)
    BY <2>1, PipesKept
  <2>3. Traced'
    BY <2>1, <2>2, TracedKept DEF IndInv
  <2> QED BY <2>1, <2>3 DEF IndInv, AnswersAreTheirs
<1> QED BY <1>1, <1>2

LEMMA OthersTraced ==
  ASSUME IndInv, Typed',
         \/ MainStep \/ CloseAll
         \/ \E c \in Calls, s \in Servers : Call(c, s)
         \/ \E c \in Calls : Written(c)
         \/ \E s \in Servers : Answer(s) \/ SayMore(s) \/ End(s)
  PROVE  Traced' /\ AnswersAreTheirs'
<1>1. CASE MainStep \/ CloseAll
  <2>1. UNCHANGED <<threadVars, wire, nextId>> /\ \A s \in Servers : inbox'[s] \subseteq inbox[s]
    <3>1. ASSUME NEW s \in Servers, Close(s)
          PROVE  UNCHANGED <<threadVars, wire, nextId>> /\ \A u \in Servers : inbox'[u] \subseteq inbox[u]
      BY <3>1 DEF Close, IndInv, Typed, TypeOK
    <3>2. ASSUME NEW s \in Servers, Join(s) \/ HangUp(s)
          PROVE  UNCHANGED <<threadVars, wire, nextId, inbox>>
      BY <3>2 DEF Join, HangUp, clientVars, serverVars
    <3>3. CASE CloseAll \/ StartAllReturns \/ CloseAllReturns \/ CloseAllRaises
      BY <3>3 DEF CloseAll, StartAllReturns, CloseAllReturns, CloseAllRaises, clientVars, serverVars
    <3> QED BY <1>1, <3>1, <3>2, <3>3 DEF MainStep
  <2>2. \A s \in Servers, i \in Nat, r \in Request : Carries(s, i, r)' => Carries(s, i, r)
    BY <2>1, PipesKept
  <2> QED BY <2>1, <2>2, TracedKept DEF IndInv, AnswersAreTheirs, threadVars
<1>2. ASSUME NEW c \in Calls, NEW s \in Servers, Call(c, s)
      PROVE  Traced' /\ AnswersAreTheirs'
  <2>1. c \in Threads
    BY DEF Threads
  <2>2. pc'[c] \notin InFlight /\ \A u \in Threads \ {c} : pc'[u] = pc[u] /\ server'[u] = server[u]
    BY <1>2, <2>1, GoTyped DEF Call, IndInv, Typed, TypeOK, InFlight
  <2>3. UNCHANGED <<wire, inbox, nextId, id, got>>
    BY <1>2 DEF Call, clientVars, serverVars
  <2>4. \A u \in Servers, i \in Nat, r \in Request : Carries(u, i, r)' => Carries(u, i, r)
    BY <2>3, PipesKept
  <2> QED BY <2>2, <2>3, <2>4, TracedKept DEF IndInv, AnswersAreTheirs
<1>3. ASSUME NEW s \in Servers, Answer(s) \/ SayMore(s) \/ End(s)
      PROVE  Traced' /\ AnswersAreTheirs'
  <2>1. UNCHANGED <<threadVars, nextId>>
    BY <1>3 DEF Answer, SayMore, End, clientVars
  <2>2. \A u \in Servers, i \in Nat, r \in Request : Carries(u, i, r)' => Carries(u, i, r)
    <3>1. CASE Answer(s)
      <4>1. PICK r \in inbox[s], kind \in {"result", "error"} :
              /\ inbox' = [inbox EXCEPT ![s] = @ \ {r}]
              /\ Says(s, [kind |-> kind, id |-> r[1], answers |-> r[2]])
        BY <3>1 DEF Answer
      <4> DEFINE line == [kind |-> kind, id |-> r[1], answers |-> r[2]]
      <4>2. r \in Nat \X Request
        BY DEF IndInv, Typed, TypeOK
      <4>3. line \in Line /\ <<line.id, line.answers>> \in inbox[s]
        BY <4>2 DEF Line
      <4>4. \A u \in Servers : inbox'[u] \subseteq inbox[u]
        BY <4>1 DEF IndInv, Typed, TypeOK
      <4>5. wire' = [wire EXCEPT ![s] = Append(@, line)]
        BY <4>1 DEF Says
      <4> HIDE DEF line
      <4> QED BY <4>3, <4>4, <4>5, SaysKept DEF IndInv
    <3>2. CASE SayMore(s)
      <4>1. PICK line \in Line : Says(s, line) /\ line.answers = NoRequest
        <5>1. ASSUME NEW kind \in {"note", "odd"}
              PROVE  [kind |-> kind, id |-> 0, answers |-> NoRequest] \in Line
          BY DEF Line
        <5>2. ASSUME NEW n \in OwnIds
              PROVE  [kind |-> "ask", id |-> n, answers |-> NoRequest] \in Line
          BY BoundAssumption DEF Line
        <5>3. CASE \E kind \in {"note", "odd"} : Says(s, [kind |-> kind, id |-> 0, answers |-> NoRequest])
          BY <5>1, <5>3
        <5>4. CASE \E n \in OwnIds : Says(s, [kind |-> "ask", id |-> n, answers |-> NoRequest])
          BY <5>2, <5>4
        <5> QED BY <3>2, <5>3, <5>4 DEF SayMore
      <4>2. inbox' = inbox /\ wire' = [wire EXCEPT ![s] = Append(@, line)]
        BY <3>2, <4>1 DEF SayMore, Says
      <4> QED BY <4>1, <4>2, SaysKept DEF IndInv
    <3>3. CASE End(s)
      <4>1. wire' = wire /\ \A u \in Servers : inbox'[u] \subseteq inbox[u]
        BY <3>3 DEF End, IndInv, Typed, TypeOK
      <4> QED BY <4>1, PipesKept
    <3> QED BY <1>3, <3>1, <3>2, <3>3
  <2> QED BY <2>1, <2>2, TracedKept DEF IndInv, AnswersAreTheirs, threadVars
<1>4. ASSUME NEW c \in Calls, Written(c) PROVE Traced' /\ AnswersAreTheirs'
  BY <1>4, WrittenTraced DEF Written, IndInv, AnswersAreTheirs
<1> QED BY <1>1, <1>2, <1>3, <1>4

LEMMA StepIndInv == IndInv /\ [Next]_vars => IndInv'
<1> SUFFICES ASSUME IndInv, [Next]_vars PROVE IndInv'
  OBVIOUS
<1>1. Typed'
  BY NextTyped DEF IndInv
<1>2. CASE UNCHANGED vars
  <2>1. UNCHANGED <<wire, inbox, nextId, pc, id, server, got>>
    BY <1>2 DEF vars, clientVars, threadVars, serverVars
  <2>2. \A s \in Servers, i \in Nat, r \in Request : Carries(s, i, r)' => Carries(s, i, r)
    BY <2>1, PipesKept
  <2>3. Traced' /\ AnswersAreTheirs'
    BY <2>1, <2>2, TracedKept DEF IndInv, AnswersAreTheirs
  <2> QED BY <1>1, <2>3 DEF IndInv
<1>3. CASE Next
  <2>1. Traced' /\ AnswersAreTheirs'
    BY <1>1, <1>3, ReadTraced, ThreadTraced, OthersTraced DEF Next
  <2> QED BY <1>1, <2>1 DEF IndInv
<1> QED BY <1>2, <1>3

\* The inductive invariant: types, how far each thread is, ids used up in
\* order, and each id waited for bound to its own request.
THEOREM Inductive == Spec => []IndInv
<1> QED BY InitIndInv, StepIndInv, PTL DEF Spec

\* Whoever takes a line for the answer to a request takes an answer to it, or a
\* request of the server's own: late answers to requests that were given up are
\* never taken for another's, however many threads share a server.
THEOREM OwnAnswers == Spec => []AnswersAreTheirs
<1>1. IndInv => AnswersAreTheirs
  BY DEF IndInv
<1> QED BY <1>1, Inductive, PTL

-----------------------------------------------------------------------------
(* What start_all reports, and what close_all leaves.                      *)

\* Who has been waited for is over or given up; who is over was reported or died.
Reported ==
  /\ main # "starting" => joined = Servers
  /\ \A s \in joined : pc[s] # "over" => s \in failed
  /\ \A s \in Servers : pc[s] = "over" => s \in ready \cup failed \/ how[s] = "raised"
  /\ \A s \in Servers : pc[s] = "register" => Len(got[s]) = 2
  /\ \A s \in ready : pc[s] = "over" /\ Len(got[s]) = 2 /\ how[s] = "answered"

\* Only servers that were ready are closed; while the loop runs, the clients it
\* has closed and those it has not yet are the ones it began with.
Accounted ==
  /\ clients \cup closing \cup hungUp \subseteq ready
  /\ main # "closed" => ready \subseteq clients
  /\ main \in {"starting", "serving"} => hungUp = {}
  /\ main = "closing" =>
       closing \cup hungUp \subseteq clients /\ Cardinality(closing \cup hungUp) = size
  /\ \A s \in hungUp \ closing : process[s] # "up"

EndInv == Typed /\ Reported /\ Accounted /\ NothingLeftRunning

\* A step of a thread that is not over and does not report now: where it may
\* go, and that it spawns a process at most in its first step.
Moves(t) ==
  /\ UNCHANGED <<mainVars, hungUp>>
  /\ pc[t] # "over"
  /\ \A u \in Threads \ {t} : pc'[u] = pc[u] /\ how'[u] = how[u] /\ got'[u] = got[u]
  /\ t \in Servers => \/ pc'[t] = "over" /\ how'[t] = "raised"
                      \/ pc'[t] = "register" /\ Len(got'[t]) = 2
                      \/ pc'[t] \in {"enter", "lock", "read", "notify", "fail"}
  /\ \A s \in Servers : process'[s] # process[s] => s = t /\ pc[s] = "spawn"

LEMMA EndsMove ==
  ASSUME Typed, NEW t \in Threads, pc[t] # "over", got' = got, process' = process,
         UNCHANGED <<mainVars, hungUp>>,
         \/ Raises(t) \/ FailsWith(t)
         \/ \E place \in {"enter", "lock", "read", "notify", "fail"} : GoTo(t, place)
         \/ t \in Calls /\ GoTo(t, "write")
  PROVE  Moves(t)
<1>1. CASE Raises(t) \/ FailsWith(t)
  <2>1. \A u \in Threads \ {t} : pc'[u] = pc[u] /\ how'[u] = how[u] /\ got'[u] = got[u]
    BY <1>1 DEF Raises, FailsWith, GoTo, Typed, TypeOK
  <2>2. t \in Servers => (pc'[t] = "over" /\ how'[t] = "raised") \/ pc'[t] = "fail"
    BY <1>1 DEF Raises, FailsWith, GoTo, Typed, TypeOK
  <2> QED BY <2>1, <2>2 DEF Moves
<1>2. CASE \E place \in {"enter", "lock", "read", "notify", "fail"} : GoTo(t, place)
  BY <1>2 DEF Moves, GoTo, Typed, TypeOK
<1>3. CASE t \in Calls /\ GoTo(t, "write")
  <2>1. t \notin Servers
    BY <1>3, ThreadsAssumption
  <2> QED BY <1>3, <2>1 DEF Moves, GoTo, Typed, TypeOK
<1> QED BY <1>1, <1>2, <1>3

LEMMA ReadMoves ==
  ASSUME Typed, NEW t \in Threads, Read(t)
  PROVE  Moves(t)
<1>1. /\ pc[t] = "read" /\ server[t] \in Servers
      /\ UNCHANGED <<mainVars, hungUp, process>>
  BY DEF Read, Typed, Progress
<1>2. CASE Goes(t) /\ got' = [got EXCEPT ![t] = Append(@, Head(wire[server[t]]).answers)]
  <2>1. PICK answers : got' = [got EXCEPT ![t] = Append(@, answers)]
    BY <1>2
  <2>2. /\ got[t] \in Seq(Request \cup {NoRequest}) /\ Len(got[t]) \in {0, 1}
        /\ \A u \in Threads \ {t} : got'[u] = got[u]
    BY <1>1, <2>1, FewAnswers DEF Typed, TypeOK
  <2>3. got'[t] = Append(got[t], answers)
    BY <2>1 DEF Typed, TypeOK
  <2>4. Len(got'[t]) = Len(got[t]) + 1
    BY <2>2, <2>3
  <2>5. /\ \A u \in Threads \ {t} : pc'[u] = pc[u] /\ how'[u] = how[u]
        /\ t \in Servers => pc'[t] = "notify" \/ (pc'[t] = "register" /\ Len(got[t]) = 1)
    <3>1. CASE t \in Servers /\ Len(got[t]) = 0 /\ GoTo(t, "notify")
      BY <3>1 DEF GoTo, Typed, TypeOK
    <3>2. CASE t \in Servers /\ Len(got[t]) = 1 /\ GoTo(t, "register")
      BY <3>2 DEF GoTo, Typed, TypeOK
    <3>3. CASE t \in Calls /\ pc' = [pc EXCEPT ![t] = "over"] /\ how' = [how EXCEPT ![t] = "answered"]
      BY <3>3, ThreadsAssumption DEF Typed, TypeOK
    <3> QED BY <1>2, <3>1, <3>2, <3>3 DEF Goes
  <2>6. t \in Servers => pc'[t] = "notify" \/ (pc'[t] = "register" /\ Len(got'[t]) = 2)
    <3>1. Len(got[t]) = 1 => Len(got'[t]) = 2
      BY <2>4
    <3> QED BY <2>5, <3>1
  <2> QED BY <1>1, <2>2, <2>5, <2>6 DEF Moves
<1>3. CASE (Raises(t) \/ FailsWith(t)) /\ got' = got
  BY <1>1, <1>3, EndsMove
<1>4. CASE UNCHANGED <<pc, how, got>>
  BY <1>1, <1>4 DEF Moves
<1> QED BY <1>2, <1>3, <1>4 DEF Read

LEMMA ThreadMoves ==
  ASSUME Typed, NEW t \in Threads, ThreadStep(t)
  PROVE  Moves(t) \/ (t \in Servers /\ (Register(t) \/ Fail(t)))
<1>1. CASE Enter(t)
  BY <1>1, EndsMove DEF Enter, clientVars, serverVars
<1>2. CASE Write(t)
  BY <1>2, EndsMove DEF Write
<1>3. CASE ReadEnd(t) \/ WriteFails(t)
  BY <1>3, EndsMove DEF ReadEnd, WriteFails, serverVars
<1>4. CASE t \in Servers /\ Notify(t)
  BY <1>4, EndsMove DEF Notify, clientVars, serverVars
<1>5. CASE t \in Servers /\ Spawn(t)
  <2>1. pc[t] = "spawn" /\ got' = got /\ UNCHANGED <<mainVars, hungUp>>
    BY <1>5 DEF Spawn
  <2>2. CASE FailsWith(t) /\ UNCHANGED process
    BY <2>1, <2>2, EndsMove
  <2>3. CASE GoTo(t, "enter") /\ process' = [process EXCEPT ![t] = "up"]
    BY <2>1, <2>3 DEF Moves, GoTo, Typed, TypeOK
  <2> QED BY <1>5, <2>2, <2>3 DEF Spawn
<1> QED BY <1>1, <1>2, <1>3, <1>4, <1>5, ReadMoves DEF ThreadStep

LEMMA InitEnd == Init => EndInv
<1> SUFFICES ASSUME Init PROVE EndInv
  OBVIOUS
<1>1. Typed
  BY InitTyped
<1>2. Reported /\ Accounted /\ NothingLeftRunning
  BY DEF Init, Reported, Accounted, NothingLeftRunning, Threads
<1> QED BY <1>1, <1>2 DEF EndInv

LEMMA MovesEnd ==
  ASSUME EndInv, NEW t \in Threads, Moves(t)
  PROVE  Reported' /\ Accounted' /\ NothingLeftRunning'
<1> USE DEF EndInv, Moves, mainVars
<1>0. Servers \subseteq Threads /\ joined \subseteq Servers /\ ready \subseteq Servers
  BY DEF Threads, Typed, TypeOK
<1>1. Reported'
  BY <1>0 DEF Reported
<1>2. \A s \in ready : process'[s] = process[s]
  BY <1>0 DEF Reported
<1>3. Accounted'
  BY <1>0, <1>2 DEF Accounted
<1>4. NothingLeftRunning'
  <2> SUFFICES ASSUME main = "closed", NEW s \in Servers, process'[s] = "up"
               PROVE  s \notin hungUp /\ (s \in failed \/ how'[s] = "raised")
    BY DEF NothingLeftRunning
  <2>1. CASE process[s] = "up"
    <3>1. s \notin hungUp /\ (s \in failed \/ how[s] = "raised")
      BY <2>1 DEF NothingLeftRunning
    <3>2. how[s] = "raised" => how'[s] = "raised" \/ s \in failed
      BY <1>0 DEF Reported
    <3> QED BY <3>1, <3>2
  <2>2. CASE process[s] # "up"
    <3>1. s = t /\ pc[s] = "spawn"
      BY <2>2
    <3>2. s \in failed /\ s \notin ready
      BY <3>1 DEF Reported
    <3> QED BY <3>2 DEF Accounted
  <2> QED BY <2>1, <2>2
<1> QED BY <1>1, <1>3, <1>4

LEMMA ReportEnd ==
  ASSUME EndInv, NEW s \in Servers, Register(s) \/ Fail(s)
  PROVE  Reported' /\ Accounted' /\ NothingLeftRunning'
<1>0. /\ s \in Threads /\ pc[s] # "over" /\ s \notin ready /\ pc'[s] = "over"
      /\ \A u \in Servers \ {s} : pc'[u] = pc[u] /\ how'[u] = how[u]
      /\ UNCHANGED <<main, joined, closing, size, hungUp, got>>
  BY DEF Threads, Register, Fail, EndInv, Typed, TypeOK, Reported, clientVars, serverVars
<1>1. joined \subseteq Servers /\ ready \subseteq Servers
  BY DEF EndInv, Typed, TypeOK
<1>2. CASE Register(s)
  <2>1. /\ clients' = clients \cup {s} /\ ready' = ready \cup {s} /\ failed' = failed
        /\ process' = process /\ how'[s] = "answered" /\ pc[s] = "register"
    BY <1>0, <1>2 DEF Register, EndInv, Typed, TypeOK, serverVars
  <2>2. Reported'
    BY <1>0, <1>1, <2>1 DEF EndInv, Reported
  <2>3. Accounted'
    BY <1>0, <1>1, <2>1 DEF EndInv, Accounted
  <2>4. NothingLeftRunning'
    BY <1>0, <1>1, <2>1 DEF EndInv, Accounted, Reported, NothingLeftRunning
  <2> QED BY <2>2, <2>3, <2>4
<1>3. CASE Fail(s)
  <2>1. /\ clients' = clients /\ ready' = ready /\ failed' = failed \cup {s}
        /\ process'[s] # "up" /\ \A u \in Servers \ {s} : process'[u] = process[u]
    BY <1>0, <1>3 DEF Fail, EndInv, Typed, TypeOK
  <2>2. Reported'
    BY <1>0, <1>1, <2>1 DEF EndInv, Reported
  <2>3. Accounted'
    BY <1>0, <1>1, <2>1 DEF EndInv, Accounted
  <2>4. NothingLeftRunning'
    BY <1>0, <1>1, <2>1 DEF EndInv, NothingLeftRunning
  <2> QED BY <2>2, <2>3, <2>4
<1> QED BY <1>2, <1>3

\* When the loop of close_all has got through, it has closed all the clients.
LEMMA AllClosed ==
  ASSUME EndInv, main = "closing", closing = {}, Cardinality(clients) = size
  PROVE  clients = hungUp
<1>1. hungUp \subseteq clients /\ Cardinality(hungUp) = Cardinality(clients)
  <2>1. {} \cup hungUp = hungUp
    OBVIOUS
  <2> QED BY <2>1 DEF EndInv, Accounted
<1>2. IsFiniteSet(clients)
  BY BoundAssumption, FS_Subset DEF EndInv, Typed, TypeOK
<1> QED BY <1>1, <1>2, FS_Subset

LEMMA MainEnd ==
  ASSUME EndInv, MainStep \/ CloseAll
  PROVE  Reported' /\ Accounted' /\ NothingLeftRunning'
<1>0. /\ joined \subseteq Servers /\ ready \subseteq Servers
      /\ UNCHANGED <<pc, how, got, ready>>
  BY DEF EndInv, Typed, TypeOK, MainStep, Join, HangUp, Close, StartAllReturns, CloseAllReturns,
         CloseAllRaises, CloseAll, mainVars, threadVars
<1>1. ASSUME NEW s \in Servers, Join(s)
      PROVE  Reported' /\ Accounted' /\ NothingLeftRunning'
  BY <1>0, <1>1 DEF Join, Late, EndInv, Reported, Accounted, NothingLeftRunning, clientVars, serverVars
<1>2. ASSUME NEW s \in Servers, HangUp(s)
      PROVE  Reported' /\ Accounted' /\ NothingLeftRunning'
  <2>1. /\ main = "closing" /\ s \in closing /\ hungUp' = hungUp \cup {s}
        /\ UNCHANGED <<mainVars, process>>
    BY <1>2 DEF HangUp, Iterates, serverVars
  <2>2. closing' \cup hungUp' = closing \cup hungUp
    BY <2>1 DEF mainVars
  <2> QED BY <1>0, <2>1, <2>2 DEF EndInv, Reported, Accounted, NothingLeftRunning, mainVars
<1>3. ASSUME NEW s \in Servers, Close(s)
      PROVE  Reported' /\ Accounted' /\ NothingLeftRunning'
  <2>1. /\ main = "closing" /\ s \in hungUp /\ closing' = closing \ {s}
        /\ process'[s] # "up" /\ \A u \in Servers \ {s} : process'[u] = process[u]
        /\ UNCHANGED <<main, joined, failed, clients, size, hungUp>>
    BY <1>3 DEF Close, Killed, EndInv, Typed, TypeOK
  <2>2. closing' \cup hungUp' = closing \cup hungUp
    BY <2>1
  <2> QED BY <1>0, <2>1, <2>2 DEF EndInv, Reported, Accounted, NothingLeftRunning
<1>4. CASE StartAllReturns
  BY <1>0, <1>4 DEF StartAllReturns, EndInv, Reported, Accounted, NothingLeftRunning, clientVars, serverVars
<1>5. CASE CloseAll
  <2>1. /\ main = "serving" /\ main' = "closing" /\ closing' = clients /\ size' = Cardinality(clients)
        /\ UNCHANGED <<joined, failed, clients, hungUp, process>>
    BY <1>5 DEF CloseAll, clientVars, serverVars
  <2>2. hungUp = {} /\ closing' \cup hungUp' = clients
    BY <2>1 DEF EndInv, Accounted
  <2> QED BY <1>0, <2>1, <2>2 DEF EndInv, Reported, Accounted, NothingLeftRunning
<1>6. CASE CloseAllReturns
  <2>1. /\ main = "closing" /\ closing = {} /\ Cardinality(clients) = size
        /\ main' = "closed" /\ clients' = {}
        /\ UNCHANGED <<joined, failed, closing, hungUp, process>>
    BY <1>6 DEF CloseAllReturns, Iterates, clientVars, serverVars
  <2>2. clients = hungUp
    BY <2>1, AllClosed
  <2>3. Reported'
    BY <1>0, <2>1 DEF EndInv, Reported
  <2>4. Accounted'
    BY <1>0, <2>1 DEF EndInv, Accounted
  <2>5. NothingLeftRunning'
    BY <1>0, <2>1, <2>2 DEF EndInv, Reported, Accounted, NothingLeftRunning
  <2> QED BY <2>3, <2>4, <2>5
<1>7. CASE CloseAllRaises
  BY <1>0, <1>7 DEF CloseAllRaises, EndInv, Reported, Accounted, NothingLeftRunning, clientVars, serverVars
<1> QED BY <1>1, <1>2, <1>3, <1>4, <1>5, <1>6, <1>7 DEF MainStep

\* A call touches no server's thread, and a server's process only ends.
LEMMA OthersEnd ==
  ASSUME EndInv,
         \/ \E c \in Calls, s \in Servers : Call(c, s)
         \/ \E s \in Servers : Answer(s) \/ SayMore(s) \/ End(s)
  PROVE  Reported' /\ Accounted' /\ NothingLeftRunning'
<1>1. UNCHANGED <<mainVars, hungUp>> /\ joined \subseteq Servers /\ ready \subseteq Servers
  BY DEF Call, Answer, SayMore, End, clientVars, EndInv, Typed, TypeOK
<1>2. \A s \in Servers : pc'[s] = pc[s] /\ how'[s] = how[s] /\ got'[s] = got[s]
  <2>1. ASSUME NEW c \in Calls, NEW s \in Servers, Call(c, s)
        PROVE  how' = how /\ got' = got /\ \A u \in Servers : pc'[u] = pc[u]
    BY <2>1, ThreadsAssumption DEF Call, GoTo, Threads, EndInv, Typed, TypeOK
  <2>2. CASE \E s \in Servers : Answer(s) \/ SayMore(s) \/ End(s)
    BY <2>2 DEF Answer, SayMore, End, threadVars
  <2> QED BY <2>1, <2>2
<1>3. \A s \in Servers : process'[s] = "up" => process[s] = "up"
  BY DEF Call, Answer, SayMore, End, serverVars, EndInv, Typed, TypeOK
<1> QED BY <1>1, <1>2, <1>3 DEF EndInv, Reported, Accounted, NothingLeftRunning, mainVars

LEMMA StepEnd == EndInv /\ [Next]_vars => EndInv'
<1> SUFFICES ASSUME EndInv, [Next]_vars PROVE EndInv'
  OBVIOUS
<1>1. Typed'
  BY NextTyped DEF EndInv
<1>2. CASE UNCHANGED vars
  BY <1>1, <1>2 DEF vars, mainVars, clientVars, threadVars, serverVars, EndInv, Reported, Accounted,
                    NothingLeftRunning
<1>3. ASSUME NEW t \in Threads, ThreadStep(t)
      PROVE  Reported' /\ Accounted' /\ NothingLeftRunning'
  BY <1>3, ThreadMoves, MovesEnd, ReportEnd DEF EndInv
<1>4. ASSUME NEW c \in Calls, Written(c)
      PROVE  Reported' /\ Accounted' /\ NothingLeftRunning'
  <2>1. c \in Threads /\ Moves(c)
    BY <1>4, EndsMove DEF Written, EndInv, Threads, clientVars
  <2> QED BY <2>1, MovesEnd
<1>5. CASE Next
  BY <1>1, <1>3, <1>4, <1>5, MainEnd, OthersEnd DEF Next, EndInv
<1> QED BY <1>2, <1>5

\* The inductive invariant of the beginning and the end of a session: how the
\* reports follow the threads, and what close_all has closed of what it began with.
THEOREM EndInductive == Spec => []EndInv
<1> QED BY InitEnd, StepEnd, PTL DEF Spec

\* When start_all has returned, no server is forgotten: it is ready, failed, or
\* its thread died; and one that is ready has answered both requests.
THEOREM AllReported == Spec => []StartupReported
<1>1. EndInv => StartupReported
  <2> SUFFICES ASSUME EndInv PROVE StartupReported
    OBVIOUS
  <2>1. ready \subseteq Servers
    BY DEF EndInv, Typed, TypeOK
  <2> QED BY <2>1 DEF EndInv, Reported, StartupReported
<1> QED BY <1>1, EndInductive, PTL

\* After close_all no process of a server that had come up is left running,
\* whatever late start threads and calls of interrupted turns do meanwhile.
THEOREM AllEnded == Spec => []NothingLeftRunning
<1>1. EndInv => NothingLeftRunning
  BY DEF EndInv
<1> QED BY <1>1, EndInductive, PTL
=============================================================================
