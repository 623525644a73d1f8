------------------------------ MODULE ExecProofs ------------------------------
(***************************************************************************)
(* For any number of sessions, any amount of output and any number of      *)
(* calls: that the model and the process manager of s06 agree on which     *)
(* sessions are open (HandlesAgree), and that the replies account for      *)
(* every character of the output, whatever the size of the buffer and of   *)
(* the pieces in which it is read (RepliesAccount).                        *)
(***************************************************************************)
EXTENDS ExecProperties, SequenceLemmas

Shells     == {"none", "running", "leaving", "zombie", "reaped"}
CallPhases == {"idle", "reading", "result", "waiting", "draining"}

\* The types, but for the characters and the buffers, of which the manager's decisions see nothing.
TypeOK ==
  /\ shell \in [Ids -> Shells] /\ closed \in [Ids -> BOOLEAN]
  /\ sessions \subseteq Ids /\ nextId \in 1 .. MaxSessions + 1
  /\ phase \in CallPhases /\ current \in Ids \cup {0}
  /\ DOMAIN replies = Ids /\ \A s \in Ids : replies[s] \in Seq(Range(replies[s]))

\* The replies about s that gave an exit code.
Exits(s) == { k \in DOMAIN replies[s] : replies[s][k].says = "exited" }

\* A call works on an open session that has not been reported as over.
CallOpen ==
  /\ phase = "idle" <=> current = 0
  /\ current # 0 => current \in sessions /\ ~closed[current] /\ Exits(current) = {}
  /\ phase = "draining" => shell[current] = "reaped"

\* Nothing is known of an id that has not been given.
Fresh == \A s \in Ids : s >= nextId => s \notin sessions /\ ~closed[s] /\ replies[s] = <<>>

ExecInv == TypeOK /\ CallOpen /\ Fresh /\ HandlesAgree

USE BoundsAssumption, MaxCharsAssumption

\* One more reply about session s.
LEMMA Tells ==
  ASSUME TypeOK, NEW s \in Ids, NEW says, NEW count, Tell(s, says, count)
  PROVE  /\ DOMAIN replies' = Ids /\ \A u \in Ids \ {s} : replies'[u] = replies[u]
         /\ replies'[s] \in Seq(Range(replies'[s])) /\ replies'[s] # <<>>
         /\ DOMAIN replies[s] = 1 .. Len(replies[s]) /\ Len(replies[s]) \in Nat
         /\ DOMAIN replies'[s] = 1 .. Len(replies'[s]) /\ Len(replies'[s]) = Len(replies[s]) + 1
         /\ \A k \in DOMAIN replies[s] : replies'[s][k] = replies[s][k]
         /\ Last(replies'[s]).says = says /\ replies'[s][Len(replies'[s])].says = says
         /\ replies'[s][Len(replies'[s])].kept = Kept(buffer[s])
         /\ replies'[s][Len(replies'[s])].total = Total(buffer[s])
<1> DEFINE r   == [kept |-> Kept(buffer[s]), total |-> Total(buffer[s]), original |-> count, says |-> says]
           set == Range(replies[s]) \cup {r}
<1>1. DOMAIN replies' = Ids /\ replies'[s] = Append(replies[s], r) /\ \A u \in Ids \ {s} : replies'[u] = replies[u]
  BY DEF Tell, TypeOK
<1>2. r.says = says /\ r.kept = Kept(buffer[s]) /\ r.total = Total(buffer[s])
  OBVIOUS
<1>3. replies[s] \in Seq(set) /\ r \in set
  <2>1. replies[s] \in Seq(Range(replies[s])) /\ Range(replies[s]) \subseteq set
    BY DEF TypeOK
  <2>2. Len(replies[s]) \in Nat /\ replies[s] \in [1 .. Len(replies[s]) -> Range(replies[s])]
    BY <2>1, LenProperties
  <2>3. replies[s] \in [1 .. Len(replies[s]) -> set]
    BY <2>1, <2>2
  <2> QED BY <2>2, <2>3, SeqDef
<1> HIDE DEF r, set
<1>4. /\ Append(replies[s], r) \in Seq(set) /\ Append(replies[s], r) # <<>>
      /\ Len(Append(replies[s], r)) = Len(replies[s]) + 1
      /\ \A k \in 1 .. Len(replies[s]) : Append(replies[s], r)[k] = replies[s][k]
      /\ Append(replies[s], r)[Len(replies[s]) + 1] = r
  BY <1>3, AppendProperties
<1>5. /\ DOMAIN replies[s] = 1 .. Len(replies[s]) /\ Len(replies[s]) \in Nat
      /\ DOMAIN replies'[s] = 1 .. Len(replies'[s]) /\ Len(replies'[s]) \in Nat
      /\ replies'[s] \in [1 .. Len(replies'[s]) -> set]
  BY <1>1, <1>3, <1>4, LenProperties
<1>6. replies'[s] \in Seq(Range(replies'[s]))
  <2>1. replies'[s] \in [1 .. Len(replies'[s]) -> Range(replies'[s])]
    BY <1>5 DEF Range
  <2> QED BY <1>5, <2>1, SeqDef
<1> QED BY <1>1, <1>2, <1>4, <1>5, <1>6 DEF Last

LEMMA ExecStarts == Init => ExecInv
<1> SUFFICES ASSUME Init PROVE ExecInv
  OBVIOUS
<1>1. <<>> \in Seq(Range(<<>>)) /\ DOMAIN <<>> = {}
  BY EmptySeq
<1> QED BY <1>1 DEF Init, ExecInv, TypeOK, CallOpen, Fresh, HandlesAgree, Says, Shells, CallPhases, Ids

\* Outside the calls only the programs move, and none of them revives a process that has been reaped.
LEMMA ProgramsKeep ==
  ASSUME ExecInv, shell' \in [Ids -> Shells], \A s \in Ids : shell[s] = "reaped" => shell'[s] = "reaped",
         UNCHANGED <<closed, sessions, nextId, current, replies>>,
         phase' \in CallPhases, phase' = "idle" <=> phase = "idle",
         phase' = "draining" => shell'[current] = "reaped"
  PROVE  ExecInv'
<1>1. TypeOK' /\ Fresh'
  BY DEF ExecInv, TypeOK, Fresh
<1>2. CallOpen'
  BY DEF ExecInv, CallOpen, Exits
<1>3. HandlesAgree'
  BY DEF ExecInv, HandlesAgree, Says
<1> QED BY <1>1, <1>2, <1>3 DEF ExecInv

LEMMA OpenKeeps ==
  ASSUME ExecInv, ExecCommand
  PROVE  ExecInv'
<1>1. /\ phase = "idle" /\ current = 0 /\ nextId \in Ids /\ nextId' = nextId + 1 /\ nextId # 0
      /\ phase' = "reading" /\ current' = nextId /\ sessions' = sessions \cup {nextId}
      /\ shell' = [shell EXCEPT ![nextId] = "running"] /\ UNCHANGED <<closed, replies>>
      /\ ~closed[nextId] /\ replies[nextId] = <<>>
  BY DEF ExecCommand, Begin, ExecInv, CallOpen, Fresh, sessVars, Ids
<1>2. TypeOK'
  BY <1>1 DEF ExecInv, TypeOK, Ids, Shells, CallPhases
<1>3. CallOpen'
  BY <1>1 DEF CallOpen, Exits
<1>4. Fresh'
  BY <1>1 DEF ExecInv, Fresh, TypeOK, Ids
<1>5. \A s \in Ids \ {current'} : /\ s \in sessions' <=> s \in sessions
                                  /\ shell'[s] = shell[s] /\ s # current
  BY <1>1 DEF ExecInv, TypeOK, Ids
<1>6. HandlesAgree'
  BY <1>1, <1>5 DEF ExecInv, HandlesAgree, Says
<1> QED BY <1>2, <1>3, <1>4, <1>6 DEF ExecInv

LEMMA WriteKeeps ==
  ASSUME ExecInv, NEW s \in Ids, WriteStdin(s)
  PROVE  ExecInv'
<1>1. /\ phase = "idle" /\ current = 0 /\ s \in sessions /\ ~closed[s] /\ s # 0
      /\ UNCHANGED <<shell, closed, sessions, nextId, replies>>
  BY DEF WriteStdin, mgrVars, ExecInv, CallOpen, Ids
<1>2. CASE Begin(s)
  <2>1. phase' = "reading" /\ current' = s
    BY <1>2 DEF Begin
  <2>2. Says(s, "running") /\ Exits(s) = {}
    <3>1. Says(s, "running") /\ \A k \in DOMAIN replies[s] : replies[s][k].says = "exited" => k = Len(replies[s])
      BY <1>1 DEF ExecInv, HandlesAgree, Ids
    <3> QED BY <3>1 DEF Says, Last, Exits
  <2>3. TypeOK' /\ Fresh'
    BY <1>1, <2>1 DEF ExecInv, TypeOK, Fresh, CallPhases
  <2>4. CallOpen'
    BY <1>1, <2>1, <2>2 DEF CallOpen, Exits
  <2>5. HandlesAgree'
    BY <1>1, <2>1 DEF ExecInv, HandlesAgree, Says, Ids
  <2> QED BY <2>3, <2>4, <2>5 DEF ExecInv
<1>3. CASE UNCHANGED callVars
  BY <1>1, <1>3, ProgramsKeep DEF callVars, ExecInv, TypeOK, CallOpen
<1> QED BY <1>2, <1>3 DEF WriteStdin

\* The end of a reading may find that the session's own process has exited; it changes no other.
LEMMA Stops ==
  ASSUME TypeOK, NEW s \in Ids, Stop(s)
  PROVE  /\ shell' \in [Ids -> Shells] /\ \A u \in Ids : shell[u] = "reaped" => shell'[u] = "reaped"
         /\ \A u \in Ids \ {s} : shell'[u] = shell[u]
  BY DEF Stop, Polled, TypeOK, Shells

LEMMA RunningKeeps ==
  ASSUME ExecInv, StillRunning
  PROVE  ExecInv'
<1> DEFINE s == current
<1>1. /\ TypeOK /\ s \in Ids /\ s \in sessions /\ ~closed[s] /\ Exits(s) = {} /\ Tell(s, "running", Count(s))
      /\ phase' = "idle" /\ current' = 0 /\ UNCHANGED <<shell, closed, sessions, nextId>>
  BY DEF StillRunning, ExecInv, CallOpen, TypeOK, progVars, sessVars, mgrVars
<1> HIDE DEF s
<1>2. /\ DOMAIN replies' = Ids /\ \A u \in Ids \ {s} : replies'[u] = replies[u]
      /\ replies'[s] \in Seq(Range(replies'[s])) /\ replies'[s] # <<>>
      /\ \A k \in DOMAIN replies'[s] : k \in DOMAIN replies[s] \/ k = Len(replies'[s])
      /\ \A k \in DOMAIN replies[s] : replies'[s][k] = replies[s][k]
      /\ Last(replies'[s]).says = "running" /\ replies'[s][Len(replies'[s])].says = "running"
  BY <1>1, Tells
<1>3. TypeOK'
  <2>1. \A u \in Ids : replies'[u] \in Seq(Range(replies'[u]))
    BY <1>1, <1>2 DEF TypeOK
  <2> QED BY <1>1, <1>2, <2>1 DEF TypeOK, CallPhases
<1>4. CallOpen'
  BY <1>1 DEF CallOpen
<1>5. Fresh'
  BY <1>1, <1>2 DEF ExecInv, Fresh
<1>6. ASSUME NEW u \in Ids
      PROVE  /\ u \in sessions' <=> Says(u, "running")' /\ ~closed'[u]
             /\ Says(u, "exited")' => closed'[u] /\ shell'[u] = "reaped"
             /\ \A k \in DOMAIN replies'[u] : replies'[u][k].says = "exited" => k = Len(replies'[u])
  <2>1. CASE u = s
    BY <1>1, <1>2, <2>1 DEF Says, Exits
  <2>2. CASE u # s
    BY <1>1, <1>2, <2>2 DEF ExecInv, HandlesAgree, Says, s
  <2> QED BY <2>1, <2>2
<1>7. HandlesAgree'
  BY <1>6 DEF HandlesAgree, Says
<1> QED BY <1>3, <1>4, <1>5, <1>7 DEF ExecInv

LEMMA RetireKeeps ==
  ASSUME ExecInv, Retire
  PROVE  ExecInv'
<1> DEFINE s == current
<1>1. /\ TypeOK /\ s \in Ids /\ s \in sessions /\ Exits(s) = {} /\ Tell(s, "exited", original)
      /\ phase' = "idle" /\ current' = 0 /\ nextId' = nextId
      /\ closed' = [closed EXCEPT ![s] = TRUE] /\ sessions' = sessions \ {s}
      /\ Stop(s) /\ shell[s] = "reaped"
  BY DEF Retire, Without, ExecInv, CallOpen, TypeOK
<1> HIDE DEF s
<1>2. /\ DOMAIN replies' = Ids /\ \A u \in Ids \ {s} : replies'[u] = replies[u]
      /\ replies'[s] \in Seq(Range(replies'[s])) /\ replies'[s] # <<>>
      /\ \A k \in DOMAIN replies'[s] : k \in DOMAIN replies[s] \/ k = Len(replies'[s])
      /\ \A k \in DOMAIN replies[s] : replies'[s][k] = replies[s][k]
      /\ Last(replies'[s]).says = "exited"
  BY <1>1, Tells
<1>3. /\ shell' \in [Ids -> Shells] /\ shell'[s] = "reaped" /\ \A u \in Ids \ {s} : shell'[u] = shell[u]
      /\ closed' \in [Ids -> BOOLEAN] /\ closed'[s] /\ \A u \in Ids \ {s} : closed'[u] = closed[u]
  BY <1>1, Stops DEF TypeOK
<1>4. TypeOK'
  <2>1. \A u \in Ids : replies'[u] \in Seq(Range(replies'[u]))
    BY <1>1, <1>2 DEF TypeOK
  <2> QED BY <1>1, <1>2, <1>3, <2>1 DEF TypeOK, CallPhases
<1>5. CallOpen'
  BY <1>1 DEF CallOpen
<1>6. Fresh'
  BY <1>1, <1>2, <1>3 DEF ExecInv, Fresh
<1>7. ASSUME NEW u \in Ids
      PROVE  /\ u \in sessions' <=> Says(u, "running")' /\ ~closed'[u]
             /\ Says(u, "exited")' => closed'[u] /\ shell'[u] = "reaped"
             /\ \A k \in DOMAIN replies'[u] : replies'[u][k].says = "exited" => k = Len(replies'[u])
  <2>1. CASE u = s
    BY <1>1, <1>2, <1>3, <2>1 DEF Says, Exits
  <2>2. CASE u # s
    BY <1>1, <1>2, <1>3, <2>2 DEF ExecInv, HandlesAgree, Says, s
  <2> QED BY <2>1, <2>2
<1>8. HandlesAgree'
  BY <1>7 DEF HandlesAgree, Says
<1> QED BY <1>4, <1>5, <1>6, <1>8 DEF ExecInv

LEMMA CloseKeeps ==
  ASSUME ExecInv, CloseAll
  PROVE  ExecInv'
<1>1. /\ TypeOK /\ phase = "idle" /\ current = 0 /\ sessions' = {}
      /\ closed' = [s \in Ids |-> closed[s] \/ s \in sessions]
      /\ shell' = [s \in Ids |-> IF s \in sessions THEN "zombie" ELSE shell[s]]
      /\ UNCHANGED <<nextId, phase, current, replies>>
  BY DEF CloseAll, callVars, ExecInv, CallOpen
<1>2. TypeOK' /\ CallOpen'
  BY <1>1 DEF TypeOK, CallOpen, Shells
<1>3. Fresh'
  BY <1>1 DEF ExecInv, Fresh
<1>4. \A s \in Ids : closed'[s] = (closed[s] \/ s \in sessions) /\ (s \notin sessions => shell'[s] = shell[s])
  BY <1>1
<1>5. \A s \in Ids : /\ s \in sessions <=> Says(s, "running") /\ ~closed[s]
                     /\ Says(s, "exited") => closed[s] /\ shell[s] = "reaped"
                     /\ \A k \in DOMAIN replies[s] : replies[s][k].says = "exited" => k = Len(replies[s])
  BY <1>1 DEF ExecInv, HandlesAgree, Ids
<1>6. HandlesAgree'
  BY <1>1, <1>4, <1>5 DEF HandlesAgree, Says
<1> QED BY <1>2, <1>3, <1>6 DEF ExecInv

LEMMA ExecSteps ==
  ASSUME ExecInv, [Next]_vars
  PROVE  ExecInv'
<1>0. TypeOK /\ CallOpen /\ (phase # "idle" => current \in Ids)
  BY DEF ExecInv, TypeOK, CallOpen
<1>1. ASSUME NEW s \in Ids, Output(s) \/ StartJob(s) \/ EndJob(s) \/ Leave(s)
      PROVE  ExecInv'
  <2>1. UNCHANGED <<closed, sessions, nextId, phase, current, replies>>
    BY <1>1 DEF Output, StartJob, EndJob, Leave, sessVars, mgrVars, callVars
  <2>2. shell' \in [Ids -> Shells] /\ \A u \in Ids : shell[u] = "reaped" => shell'[u] = "reaped"
    BY <1>0, <1>1 DEF Output, StartJob, EndJob, Leave, TypeOK, Shells
  <2> QED BY <1>0, <2>1, <2>2, ProgramsKeep DEF TypeOK, CallOpen, Shells
<1>2. CASE ExecCommand
  BY <1>2, OpenKeeps
<1>3. ASSUME NEW s \in Ids, WriteStdin(s) PROVE ExecInv'
  BY <1>3, WriteKeeps
<1>4. CASE ReadChunk \/ AwaitExit
  <2>1. UNCHANGED <<shell, closed, sessions, nextId, current, replies>>
    BY <1>4 DEF ReadChunk, AwaitExit, progVars, sessVars, mgrVars, callVars
  <2>2. phase' = phase \/ (phase = "result" /\ phase' = "waiting")
    BY <1>4 DEF ReadChunk, AwaitExit, callVars
  <2> QED BY <1>0, <2>1, <2>2, ProgramsKeep DEF TypeOK, CallOpen, CallPhases
<1>5. CASE EndRead
  <2>1. Stop(current) /\ phase = "reading" /\ phase' = "result" /\ current \in Ids
        /\ UNCHANGED <<closed, sessions, nextId, current, replies>>
    BY <1>0, <1>5 DEF EndRead, mgrVars
  <2> QED BY <1>0, <2>1, Stops, ProgramsKeep DEF CallPhases
<1>6. CASE StillRunning
  BY <1>6, RunningKeeps
<1>7. CASE Exited
  <2>1. /\ phase # "idle" /\ phase' = "draining" /\ shell' = [shell EXCEPT ![current] = "reaped"]
        /\ UNCHANGED <<closed, sessions, nextId, current, replies>>
    BY <1>7 DEF Exited, sessVars, mgrVars
  <2>2. /\ shell' \in [Ids -> Shells] /\ shell'[current] = "reaped"
        /\ \A u \in Ids : shell[u] = "reaped" => shell'[u] = "reaped"
    BY <1>0, <2>1 DEF TypeOK, Shells
  <2> QED BY <2>1, <2>2, ProgramsKeep DEF CallPhases
<1>8. CASE Retire
  BY <1>8, RetireKeeps
<1>9. CASE CloseAll
  BY <1>9, CloseKeeps
<1>10. CASE UNCHANGED vars
  BY <1>0, <1>10, ProgramsKeep DEF vars, progVars, sessVars, mgrVars, callVars, TypeOK, CallOpen
<1> QED BY <1>1, <1>2, <1>3, <1>4, <1>5, <1>6, <1>7, <1>8, <1>9, <1>10 DEF Next, ManagerStep

\* Between and during the calls: a call has an open session, an id that was not given means nothing, and of the
\* sessions no call works on the last reply tells what became of them.
THEOREM ExecInductive == Spec => []ExecInv
<1>1. ExecInv /\ [Next]_vars => ExecInv'
  BY ExecSteps
<1> QED BY <1>1, ExecStarts, PTL DEF Spec

\* An id that the model was given works exactly until it is told an exit code or the manager closes everything,
\* and after an exit code the process is reaped and the session is silent (exec_command, write_stdin, _result,
\* close_all), whatever the programs do meanwhile.
THEOREM HandlesAlwaysAgree == Spec => []HandlesAgree
<1>1. ExecInv => HandlesAgree
  BY DEF ExecInv
<1> QED BY <1>1, ExecInductive, PTL
-----------------------------------------------------------------------------
(* The characters: sums of totals.                                         *)

\* The two equations of SumTo, for every part of the sum.
SumsTo(part, f, n) ==
  /\ part \in [0 .. n -> Nat] /\ part[0] = 0 /\ part[n] = SumTo(f, n)
  /\ \A k \in 1 .. n : part[k] = part[k - 1] + f[k]

LEMMA SumParts ==
  ASSUME NEW n \in Nat, NEW f, \A k \in 1 .. n : f[k] \in Nat
  PROVE  \E part : SumsTo(part, f, n)
<1> DEFINE step == [k \in 1 .. n |-> [v \in Nat |-> v + f[k]]]
           Is(g) == g = [k \in 0 .. n |-> IF k = 0 THEN 0 ELSE g[k - 1] + f[k]]
           V == Nat
           base == 0
<1>1. base \in V /\ step \in [1 .. n -> [V -> V]] /\ \A k \in 1 .. n, v \in Nat : step[k][v] = v + f[k]
  OBVIOUS
<1> HIDE DEF step
<1>2. PICK g : Unrolls(g, n, V, base, step)
  <2> HIDE DEF V, base
  <2> QED BY <1>1, Recursion
<1>3. /\ g \in [0 .. n -> Nat] /\ g[0] = 0
      /\ \A k \in 1 .. n : k - 1 \in 0 .. n /\ g[k - 1] \in Nat /\ g[k] = g[k - 1] + f[k]
  <2>1. g \in [0 .. n -> Nat] /\ g[0] = 0 /\ \A k \in 1 .. n : g[k] = step[k][g[k - 1]]
    BY <1>2 DEF Unrolls
  <2>2. \A k \in 1 .. n : k - 1 \in 0 .. n /\ g[k - 1] \in Nat
    BY <2>1
  <2> QED BY <1>1, <2>1, <2>2
<1>4. Is(g)
  BY <1>3
<1> DEFINE sum == CHOOSE h : Is(h)
<1>5. Is(sum) /\ SumTo(f, n) = sum[n]
  <2>1. Is(sum)
    <3> HIDE DEF Is
    <3> QED BY <1>4
  <2> QED BY <2>1 DEF SumTo
<1> HIDE DEF sum
<1>6. /\ sum[0] = 0 /\ \A k \in 1 .. n : sum[k] = sum[k - 1] + f[k]
      /\ sum = [k \in 0 .. n |-> sum[k]]
  BY <1>5
<1> DEFINE S == { k \in Nat : k <= n => sum[k] \in Nat }
<1>7. \A k \in Nat : k \in S => k + 1 \in S
  <2> SUFFICES ASSUME NEW k \in Nat, k \in S, k + 1 <= n PROVE sum[k + 1] \in Nat
    OBVIOUS
  <2>1. k + 1 \in 1 .. n /\ (k + 1) - 1 = k /\ sum[k] \in Nat /\ f[k + 1] \in Nat
    OBVIOUS
  <2>2. sum[k + 1] = sum[(k + 1) - 1] + f[k + 1]
    BY <1>6, <2>1
  <2> QED BY <2>1, <2>2
<1>8. 0 \in S /\ S \in SUBSET Nat
  BY <1>6
<1>9. \A k \in 0 .. n : sum[k] \in Nat
  <2>1. \A k \in Nat : k \in S
    <3> HIDE DEF S
    <3> QED BY <1>7, <1>8, Induct
  <2> QED BY <2>1
<1>10. SumsTo(sum, f, n)
  BY <1>5, <1>6, <1>9 DEF SumsTo
<1> QED BY <1>10

\* Sums of as many equal numbers are equal; one more number is added at the end.
LEMMA SumMore ==
  ASSUME NEW m \in Nat, NEW n \in Nat, m <= n, NEW f, NEW g, \A k \in 1 .. n : f[k] \in Nat,
         \A k \in 1 .. m : g[k] = f[k]
  PROVE  /\ SumTo(f, n) \in Nat /\ SumTo(f, 0) = 0
         /\ SumTo(g, m) = SumTo(f, m)
         /\ n = m + 1 => SumTo(f, n) = SumTo(f, m) + f[n]
<1>1. PICK p : SumsTo(p, f, n)
  BY SumParts
<1>2. PICK q : SumsTo(q, f, m)
  BY SumParts
<1>3. PICK r : SumsTo(r, g, m)
  BY SumParts
<1>4. PICK z : SumsTo(z, f, 0)
  BY SumParts
<1> DEFINE S == { k \in Nat : k <= m => p[k] = q[k] /\ q[k] = r[k] }
<1>5. \A k \in Nat : k \in S => k + 1 \in S
  <2> SUFFICES ASSUME NEW k \in Nat, k \in S, k + 1 <= m
               PROVE  p[k + 1] = q[k + 1] /\ q[k + 1] = r[k + 1]
    OBVIOUS
  <2>1. k + 1 \in 1 .. m /\ k + 1 \in 1 .. n /\ (k + 1) - 1 = k /\ p[k] = q[k] /\ q[k] = r[k]
    OBVIOUS
  <2>2. p[k + 1] = p[k] + f[k + 1] /\ q[k + 1] = q[k] + f[k + 1] /\ r[k + 1] = r[k] + g[k + 1]
    BY <1>1, <1>2, <1>3, <2>1 DEF SumsTo
  <2>3. g[k + 1] = f[k + 1]
    BY <2>1
  <2> QED BY <2>1, <2>2, <2>3
<1>6. 0 \in S /\ S \in SUBSET Nat
  BY <1>1, <1>2, <1>3 DEF SumsTo
<1>7. p[m] = q[m] /\ q[m] = r[m]
  <2>1. m \in S
    <3> HIDE DEF S
    <3> QED BY <1>5, <1>6, Induct
  <2> QED BY <2>1
<1>8. n = m + 1 => p[n] = p[m] + f[n]
  <2>1. n = m + 1 => n \in 1 .. n /\ n - 1 = m
    OBVIOUS
  <2> QED BY <1>1, <2>1 DEF SumsTo
<1> QED BY <1>1, <1>2, <1>3, <1>4, <1>7, <1>8 DEF SumsTo

-----------------------------------------------------------------------------
(* The buffer.                                                             *)

\* The pieces, one behind the other, are the positions after `from' up to `to'; edge[k] is where the k-th ends.
Edges(edge, pieces, from, to) ==
  /\ edge \in [0 .. Len(pieces) -> Nat] /\ edge[0] = from /\ edge[Len(pieces)] = to
  /\ \A k \in 1 .. Len(pieces) : edge[k - 1] <= edge[k] /\ pieces[k] = Positions(edge[k - 1], edge[k])

Tiles(pieces, from, to) == pieces \in Seq(Seq(Nat)) /\ \E edge : Edges(edge, pieces, from, to)

LEMMA PositionsAre ==
  ASSUME NEW a \in Nat, NEW b \in Nat, a <= b
  PROVE  /\ Positions(a, b) \in Seq(Nat) /\ Len(Positions(a, b)) = b - a
         /\ \A i \in 1 .. b - a : Positions(a, b)[i] = a + i
<1>1. b - a \in Nat /\ Positions(a, b) \in [1 .. b - a -> Nat]
  BY DEF Positions
<1>2. Positions(a, b) \in Seq(Nat)
  BY <1>1, SeqDef
<1> QED BY <1>1, <1>2, LenProperties DEF Positions

LEMMA PositionsMeet ==
  ASSUME NEW a \in Nat, NEW b \in Nat, NEW c \in Nat, a <= b, b <= c
  PROVE  Positions(a, b) \o Positions(b, c) = Positions(a, c)
<1> DEFINE p == Positions(a, b)
           q == Positions(b, c)
           r == Positions(a, c)
<1>0. a <= c
  OBVIOUS
<1>1. /\ p \in Seq(Nat) /\ Len(p) = b - a /\ \A i \in 1 .. b - a : p[i] = a + i
      /\ q \in Seq(Nat) /\ Len(q) = c - b /\ \A i \in 1 .. c - b : q[i] = b + i
      /\ r \in Seq(Nat) /\ Len(r) = c - a /\ \A i \in 1 .. c - a : r[i] = a + i
  <2>1. p \in Seq(Nat) /\ Len(p) = b - a /\ \A i \in 1 .. b - a : p[i] = a + i
    BY PositionsAre
  <2>2. q \in Seq(Nat) /\ Len(q) = c - b /\ \A i \in 1 .. c - b : q[i] = b + i
    BY PositionsAre
  <2>3. r \in Seq(Nat) /\ Len(r) = c - a /\ \A i \in 1 .. c - a : r[i] = a + i
    BY <1>0, PositionsAre
  <2> QED BY <2>1, <2>2, <2>3
<1> HIDE DEF p, q, r
<1>2. /\ p \o q \in Seq(Nat) /\ Len(p \o q) = Len(p) + Len(q)
      /\ \A i \in 1 .. Len(p) + Len(q) : (p \o q)[i] = IF i <= Len(p) THEN p[i] ELSE q[i - Len(p)]
  BY <1>1, ConcatProperties
<1>3. Len(p \o q) = Len(r) /\ Len(r) = c - a
  BY <1>1, <1>2
<1>4. \A i \in 1 .. Len(p \o q) : (p \o q)[i] = r[i]
  <2> TAKE i \in 1 .. Len(p \o q)
  <2>1. i \in 1 .. Len(p) + Len(q) /\ i \in 1 .. c - a
    BY <1>2, <1>3
  <2>2. CASE i <= b - a
    <3>1. i \in 1 .. b - a
      BY <2>1, <2>2
    <3> QED BY <1>1, <1>2, <2>1, <2>2, <3>1
  <2>3. CASE ~(i <= b - a)
    <3>1. i - (b - a) \in 1 .. c - b /\ b + (i - (b - a)) = a + i
      BY <2>1, <2>3
    <3> QED BY <1>1, <1>2, <2>1, <2>3, <3>1
  <2> QED BY <2>2, <2>3
<1>5. p \o q = r
  BY <1>1, <1>2, <1>3, <1>4, SeqEqual
<1> QED BY <1>5 DEF p, q, r

LEMMA PositionsCut ==
  ASSUME NEW a \in Nat, NEW b \in Nat, a <= b, NEW k \in 0 .. b - a
  PROVE  /\ SubSeq(Positions(a, b), 1, k) = Positions(a, a + k)
         /\ SubSeq(Positions(a, b), k + 1, Len(Positions(a, b))) = Positions(a + k, b)
<1> DEFINE p == Positions(a, b)
<1>0. a + k \in Nat /\ a <= a + k /\ a + k <= b /\ (a + k) - a = k
  OBVIOUS
<1>1. /\ p \in Seq(Nat) /\ Len(p) = b - a /\ \A i \in 1 .. b - a : p[i] = a + i
  BY PositionsAre
<1>2. /\ Positions(a, a + k) \in Seq(Nat) /\ Len(Positions(a, a + k)) = k
      /\ \A i \in 1 .. k : Positions(a, a + k)[i] = a + i
  BY <1>0, PositionsAre
<1>3. /\ Positions(a + k, b) \in Seq(Nat) /\ Len(Positions(a + k, b)) = b - (a + k)
      /\ \A i \in 1 .. b - (a + k) : Positions(a + k, b)[i] = a + k + i
  BY <1>0, PositionsAre
<1> HIDE DEF p
<1>4. /\ SubSeq(p, 1, k) \in Seq(Nat) /\ Len(SubSeq(p, 1, k)) = k
      /\ \A i \in 1 .. k : SubSeq(p, 1, k)[i] = p[i]
  BY <1>0, <1>1, SubSeqProperties
<1>5. /\ SubSeq(p, k + 1, Len(p)) \in Seq(Nat) /\ Len(SubSeq(p, k + 1, Len(p))) = b - (a + k)
      /\ \A i \in 1 .. b - (a + k) : SubSeq(p, k + 1, Len(p))[i] = p[k + i]
  BY <1>0, <1>1, SubSeqProperties
<1>6. SubSeq(p, 1, k) = Positions(a, a + k)
  BY <1>1, <1>2, <1>4, SeqEqual
<1>7. SubSeq(p, k + 1, Len(p)) = Positions(a + k, b)
  <2>1. \A i \in 1 .. b - (a + k) : k + i \in 1 .. b - a
    BY <1>0, <1>1
  <2> QED BY <1>1, <1>3, <1>5, <2>1, SeqEqual
<1> QED BY <1>6, <1>7 DEF p

\* Pieces that tile an interval are, flattened, its positions.
LEMMA TilesFlat ==
  ASSUME NEW pieces, NEW from \in Nat, NEW to, Tiles(pieces, from, to)
  PROVE  to \in Nat /\ from <= to /\ FlattenSeq(pieces) = Positions(from, to) /\ Size(pieces) = to - from
<1> DEFINE N == Len(pieces)
<1>1. PICK edge : Edges(edge, pieces, from, to)
  BY DEF Tiles
<1>2. N \in Nat /\ pieces \in Seq(Seq(Nat)) /\ (N = 0 => pieces = <<>>)
  BY LenProperties DEF Tiles
<1>3. /\ edge \in [0 .. N -> Nat] /\ edge[0] = from /\ edge[N] = to
      /\ \A k \in 1 .. N : edge[k - 1] <= edge[k] /\ pieces[k] = Positions(edge[k - 1], edge[k])
  BY <1>1 DEF Edges
<1> HIDE DEF N
<1>4. CASE N = 0
  <2>1. to = from /\ FlattenSeq(pieces) = <<>>
    BY <1>2, <1>3, <1>4 DEF FlattenSeq, N
  <2>2. Positions(from, from) \in Seq(Nat) /\ Len(Positions(from, from)) = 0
    BY PositionsAre
  <2>3. Positions(from, from) = <<>>
    BY <2>2, EmptySeq
  <2> QED BY <2>1, <2>2, <2>3 DEF Size
<1>5. CASE N # 0
  <2> DEFINE Is(g) == g = [i \in 1 .. N |-> IF i = 1 THEN pieces[i] ELSE g[i - 1] \o pieces[i]]
             whole == [i \in 1 .. N |-> Positions(from, edge[i])]
             S == { k \in Nat : k <= N => edge[k] \in Nat /\ from <= edge[k] }
  <2>1. \A k \in 1 .. N : edge[k - 1] \in Nat /\ edge[k] \in Nat /\ from <= edge[k - 1] /\ edge[k - 1] <= edge[k]
    <3>1. 0 \in S /\ S \in SUBSET Nat
      BY <1>2, <1>3
    <3>2. \A k \in Nat : k \in S => k + 1 \in S
      <4> SUFFICES ASSUME NEW k \in Nat, k \in S, k + 1 <= N PROVE edge[k + 1] \in Nat /\ from <= edge[k + 1]
        OBVIOUS
      <4>1. k + 1 \in 1 .. N /\ (k + 1) - 1 = k /\ edge[k] \in Nat /\ from <= edge[k] /\ edge[k + 1] \in Nat
        BY <1>2, <1>3
      <4>2. edge[(k + 1) - 1] <= edge[k + 1]
        BY <1>3, <4>1
      <4> QED BY <4>1, <4>2
    <3>3. \A k \in Nat : k \in S
      <4> HIDE DEF S
      <4> QED BY <3>1, <3>2, Induct
    <3> TAKE k \in 1 .. N
    <3>4. k - 1 \in S /\ k - 1 <= N /\ k - 1 \in 0 .. N /\ k \in 0 .. N
      BY <1>2, <3>3
    <3> QED BY <1>3, <3>4
  <2>2. \A k \in 1 .. N : whole[k] = IF k = 1 THEN pieces[k] ELSE whole[k - 1] \o pieces[k]
    <3> TAKE k \in 1 .. N
    <3>1. CASE k = 1
      BY <1>2, <1>3, <3>1
    <3>2. CASE k # 1
      <4>1. k - 1 \in 1 .. N
        BY <1>2, <3>2
      <4>2. Positions(from, edge[k - 1]) \o Positions(edge[k - 1], edge[k]) = Positions(from, edge[k])
        BY <2>1, PositionsMeet
      <4> QED BY <1>3, <3>2, <4>1, <4>2
    <3> QED BY <3>1, <3>2
  <2>3. Is(whole)
    <3>1. whole = [k \in 1 .. N |-> whole[k]]
      OBVIOUS
    <3> HIDE DEF whole
    <3> QED BY <2>2, <3>1
  <2> DEFINE flat == CHOOSE g : Is(g)
  <2>4. Is(flat)
    <3> HIDE DEF Is, whole
    <3> QED BY <2>3
  <2>5. FlattenSeq(pieces) = flat[N]
    BY <1>5 DEF FlattenSeq, N
  <2> HIDE DEF flat
  <2>6. \A k \in 1 .. N : flat[k] = IF k = 1 THEN pieces[k] ELSE flat[k - 1] \o pieces[k]
    BY <2>4
  <2> DEFINE T == { k \in Nat : k + 1 <= N => flat[k + 1] = whole[k + 1] }
  <2>7. 0 \in T /\ T \in SUBSET Nat
    <3>1. 1 \in 1 .. N
      BY <1>2, <1>5
    <3>2. flat[1] = pieces[1] /\ whole[1] = pieces[1]
      <4> HIDE DEF whole
      <4> QED BY <2>2, <2>6, <3>1
    <3> HIDE DEF whole
    <3> QED BY <3>2
  <2>8. \A k \in Nat : k \in T => k + 1 \in T
    <3> HIDE DEF whole
    <3> SUFFICES ASSUME NEW k \in Nat, k \in T, k + 1 + 1 <= N PROVE flat[k + 1 + 1] = whole[k + 1 + 1]
      OBVIOUS
    <3>1. k + 1 + 1 \in 1 .. N /\ k + 1 + 1 # 1 /\ (k + 1 + 1) - 1 = k + 1 /\ flat[k + 1] = whole[k + 1]
      BY <1>2
    <3> QED BY <2>2, <2>6, <3>1
  <2>9. N - 1 \in T
    <3> HIDE DEF T
    <3>1. \A k \in Nat : k \in T
      BY <2>7, <2>8, Induct
    <3>2. N - 1 \in Nat
      BY <1>2, <1>5
    <3> QED BY <3>1, <3>2
  <2>10. N \in 1 .. N /\ (N - 1) + 1 = N /\ N - 1 \in Nat
    BY <1>2, <1>5
  <2>11. flat[N] = whole[N]
    <3> HIDE DEF whole
    <3> QED BY <2>9, <2>10
  <2>12. FlattenSeq(pieces) = Positions(from, to)
    BY <1>3, <2>5, <2>10, <2>11
  <2>13. to \in Nat /\ from <= to
    BY <1>3, <2>1, <2>10
  <2>14. Len(Positions(from, to)) = to - from
    BY <2>13, PositionsAre
  <2> QED BY <2>12, <2>13, <2>14 DEF Size
<1> QED BY <1>4, <1>5

LEMMA TilesMore ==
  ASSUME NEW pieces, NEW from \in Nat, NEW to \in Nat, NEW last \in Nat, Tiles(pieces, from, to), to <= last
  PROVE  Tiles(Append(pieces, Positions(to, last)), from, last)
<1> DEFINE N == Len(pieces)
           p == Positions(to, last)
           more == Append(pieces, p)
<1>1. PICK edge : Edges(edge, pieces, from, to)
  BY DEF Tiles
<1>2. /\ N \in Nat /\ more \in Seq(Seq(Nat)) /\ Len(more) = N + 1 /\ more[N + 1] = p
      /\ \A k \in 1 .. N : more[k] = pieces[k]
  <2>1. p \in Seq(Nat) /\ pieces \in Seq(Seq(Nat))
    BY PositionsAre DEF Tiles
  <2> HIDE DEF p
  <2> QED BY <2>1, AppendProperties, LenProperties
<1>3. /\ edge \in [0 .. N -> Nat] /\ edge[0] = from /\ edge[N] = to
      /\ \A k \in 1 .. N : edge[k - 1] <= edge[k] /\ pieces[k] = Positions(edge[k - 1], edge[k])
  BY <1>1 DEF Edges
<1> HIDE DEF N, more
<1> DEFINE further == [k \in 0 .. N + 1 |-> IF k = N + 1 THEN last ELSE edge[k]]
<1>4. /\ further \in [0 .. N + 1 -> Nat] /\ further[0] = from /\ further[N + 1] = last
      /\ \A k \in 0 .. N : further[k] = edge[k]
  BY <1>2, <1>3
<1>5. \A k \in 1 .. N + 1 : further[k - 1] <= further[k] /\ more[k] = Positions(further[k - 1], further[k])
  <2> HIDE DEF further
  <2> TAKE k \in 1 .. N + 1
  <2>1. CASE k = N + 1
    <3>1. k - 1 = N /\ N \in 0 .. N
      BY <1>2, <2>1
    <3> QED BY <1>2, <1>3, <1>4, <2>1, <3>1
  <2>2. CASE k # N + 1
    <3>1. k \in 1 .. N /\ k \in 0 .. N /\ k - 1 \in 0 .. N
      BY <1>2, <2>2
    <3> QED BY <1>2, <1>3, <1>4, <3>1
  <2> QED BY <2>1, <2>2
<1>6. Edges(further, more, from, last)
  <2> HIDE DEF further
  <2> QED BY <1>2, <1>4, <1>5 DEF Edges
<1> QED BY <1>2, <1>6 DEF Tiles, more

\* Cut anywhere, both parts still tile.
LEMMA TilesCut ==
  ASSUME NEW pieces, NEW from \in Nat, NEW to \in Nat, Tiles(pieces, from, to), NEW n \in 0 .. Len(pieces)
  PROVE  \E mid \in Nat : /\ Tiles(SubSeq(pieces, 1, n), from, mid)
                          /\ Tiles(SubSeq(pieces, n + 1, Len(pieces)), mid, to)
<1> DEFINE N == Len(pieces)
           old == SubSeq(pieces, 1, n)
           new == SubSeq(pieces, n + 1, N)
<1>1. PICK edge : Edges(edge, pieces, from, to)
  BY DEF Tiles
<1>2. N \in Nat /\ \A k \in 1 .. N : pieces[k] \in Seq(Nat)
  BY LenProperties, ElementOfSeq DEF Tiles
<1>3. /\ edge \in [0 .. N -> Nat] /\ edge[0] = from /\ edge[N] = to
      /\ \A k \in 1 .. N : edge[k - 1] <= edge[k] /\ pieces[k] = Positions(edge[k - 1], edge[k])
  BY <1>1 DEF Edges
<1> HIDE DEF N
<1>4. n \in 0 .. N /\ edge[n] \in Nat
  BY <1>3 DEF N
<1>5. old \in Seq(Seq(Nat)) /\ Len(old) = n /\ \A k \in 1 .. n : old[k] = pieces[k]
  <2>1. \A k \in 1 .. n : pieces[k] \in Seq(Nat)
    BY <1>2, <1>4
  <2> QED BY <1>2, <1>4, <2>1, SubSeqProperties
<1>6. new \in Seq(Seq(Nat)) /\ Len(new) = N - n /\ \A k \in 1 .. N - n : new[k] = pieces[n + k]
  <2>1. \A k \in n + 1 .. N : pieces[k] \in Seq(Nat)
    BY <1>2, <1>4
  <2>2. /\ new \in Seq(Seq(Nat)) /\ Len(new) = IF n + 1 <= N THEN N - (n + 1) + 1 ELSE 0
        /\ \A k \in 1 .. N - (n + 1) + 1 : new[k] = pieces[(n + 1) + k - 1]
    BY <1>2, <1>4, <2>1, SubSeqProperties
  <2>3. N - (n + 1) + 1 = N - n /\ \A k \in 1 .. N - n : (n + 1) + k - 1 = n + k
    BY <1>2, <1>4
  <2>4. \A k \in 1 .. N - n : new[k] = pieces[n + k]
    <3> HIDE DEF new
    <3> QED BY <2>2, <2>3
  <2> HIDE DEF new
  <2> QED BY <1>2, <1>4, <2>2, <2>4
<1> HIDE DEF old, new
<1> DEFINE before == [k \in 0 .. n |-> edge[k]]
           behind == [k \in 0 .. N - n |-> edge[n + k]]
<1>7. /\ before \in [0 .. n -> Nat] /\ before[0] = from /\ before[n] = edge[n]
      /\ \A k \in 0 .. n : before[k] = edge[k]
  BY <1>2, <1>3, <1>4
<1>8. /\ behind \in [0 .. N - n -> Nat] /\ behind[0] = edge[n] /\ behind[N - n] = to
      /\ \A k \in 0 .. N - n : behind[k] = edge[n + k]
  BY <1>2, <1>3, <1>4
<1> HIDE DEF before, behind
<1>9. \A k \in 1 .. n : before[k - 1] <= before[k] /\ old[k] = Positions(before[k - 1], before[k])
  <2> TAKE k \in 1 .. n
  <2>1. k \in 1 .. N /\ k \in 0 .. n /\ k - 1 \in 0 .. n
    BY <1>2, <1>4
  <2> QED BY <1>3, <1>5, <1>7, <2>1
<1>10. \A k \in 1 .. N - n : behind[k - 1] <= behind[k] /\ new[k] = Positions(behind[k - 1], behind[k])
  <2> TAKE k \in 1 .. N - n
  <2>1. n + k \in 1 .. N /\ (n + k) - 1 = n + (k - 1) /\ k \in 0 .. N - n /\ k - 1 \in 0 .. N - n
    BY <1>2, <1>4
  <2> QED BY <1>3, <1>6, <1>8, <2>1
<1>11. Edges(before, old, from, edge[n])
  BY <1>5, <1>7, <1>9 DEF Edges
<1>12. Edges(behind, new, edge[n], to)
  BY <1>6, <1>8, <1>10 DEF Edges
<1>13. Tiles(old, from, edge[n]) /\ Tiles(new, edge[n], to)
  BY <1>5, <1>6, <1>11, <1>12 DEF Tiles
<1> QED BY <1>4, <1>13 DEF old, new, N

\* The loop of append() stops in time: with nothing left there is nothing too much.
LEMMA OldestFits ==
  ASSUME NEW pieces, NEW from \in Nat, NEW to \in Nat, Tiles(pieces, from, to)
  PROVE  /\ Oldest(pieces) \in 0 .. Len(pieces)
         /\ Size(SubSeq(pieces, Oldest(pieces) + 1, Len(pieces))) <= Half
<1> DEFINE N == Len(pieces)
           Left(n) == Size(SubSeq(pieces, n + 1, N))
           Enough == { n \in 0 .. N : Left(n) <= Half }
           Is(n) == Left(n) <= Half /\ \A m \in 0 .. n - 1 : Left(m) > Half
<1>1. Half \in Nat /\ N \in Nat
  BY LenProperties DEF Half, Tiles
<1>2. \A n \in 0 .. N : Left(n) \in Nat
  <2> TAKE n \in 0 .. N
  <2>1. PICK mid \in Nat : Tiles(SubSeq(pieces, n + 1, Len(pieces)), mid, to)
    BY TilesCut
  <2>2. Left(n) = to - mid /\ mid <= to
    BY <2>1, TilesFlat
  <2> HIDE DEF Left
  <2> QED BY <2>1, <2>2
<1>3. N \in Enough
  <2>1. SubSeq(pieces, N + 1, N) = <<>>
    BY <1>1, SubSeqEmpty
  <2>2. Size(<<>>) = 0
    BY EmptySeq DEF Size, FlattenSeq
  <2>3. Left(N) = 0
    BY <2>1, <2>2
  <2> HIDE DEF Left, N
  <2> QED BY <1>1, <2>3
<1>4. PICK least \in Enough : \A n \in Enough : least <= n
  <2>1. Enough \in SUBSET Nat
    BY <1>1
  <2> HIDE DEF Enough
  <2> QED BY <1>3, <2>1, Least
<1>5. Oldest(pieces) = CHOOSE n \in 0 .. N : Is(n)
  BY DEF Oldest
<1> HIDE DEF N, Left
<1>6. least \in 0 .. N /\ Is(least)
  <2>1. \A m \in 0 .. least - 1 : m \in 0 .. N /\ m \notin Enough
    BY <1>1, <1>4
  <2>2. \A m \in 0 .. least - 1 : Left(m) > Half
    BY <1>1, <1>2, <2>1
  <2> QED BY <1>4, <2>2
<1>7. Oldest(pieces) \in 0 .. N /\ Is(Oldest(pieces))
  <2> HIDE DEF Is
  <2> QED BY <1>5, <1>6
<1> QED BY <1>7 DEF N, Left

\* What the buffer holds of the positions after `from' up to `to': all, or a beginning that fills the head and an end.
Holds(b, from, to) ==
  LET h == Len(b.head)
      d == b.dropped IN
  /\ b = [head |-> b.head, tail |-> b.tail, dropped |-> d]
  /\ h \in 0 .. Half /\ d \in Nat /\ from + h + d <= to /\ to - (from + h + d) <= Half
  /\ b.head = Positions(from, from + h)
  /\ Tiles(b.tail, from + h + d, to)
  /\ h < Half => b.tail = <<>> /\ to = from + h

LEMMA TilesNothing ==
  ASSUME NEW from \in Nat
  PROVE  Tiles(<<>>, from, from)
<1> DEFINE edge == [k \in 0 .. 0 |-> from]
<1>1. <<>> \in Seq(Seq(Nat)) /\ Len(<<>>) = 0
  BY EmptySeq
<1>2. Edges(edge, <<>>, from, from)
  BY <1>1 DEF Edges
<1> QED BY <1>1, <1>2 DEF Tiles

LEMMA NothingHeld ==
  ASSUME NEW from \in Nat
  PROVE  Holds(EmptyBuffer, from, from)
<1>1. Positions(from, from) = <<>> /\ Len(<<>>) = 0
  <2>1. Positions(from, from) \in Seq(Nat) /\ Len(Positions(from, from)) = 0
    BY PositionsAre
  <2> QED BY <2>1, EmptySeq
<1>2. Half \in Nat
  BY DEF Half
<1>3. Tiles(<<>>, from, from)
  BY TilesNothing
<1> QED BY <1>1, <1>2, <1>3 DEF Holds, EmptyBuffer

LEMMA HoldsMore ==
  ASSUME NEW b, NEW from \in Nat, NEW to \in Nat, NEW last \in Nat, Holds(b, from, to), to < last
  PROVE  Holds(Appended(b, Positions(to, last)), from, last)
<1> DEFINE text == Positions(to, last)
<1>0. PICK front, tail, d, h, take :
        front = b.head /\ tail = b.tail /\ d = b.dropped /\ h = Len(b.head) /\ take = Min({Len(text), Half - h})
  OBVIOUS
<1> DEFINE rest == SubSeq(text, take + 1, Len(text))
           pieces == Append(tail, rest)
           n == Oldest(pieces)
<1>1. Half \in Nat
  BY DEF Half
<1>2. /\ b = [head |-> front, tail |-> tail, dropped |-> d]
      /\ h \in 0 .. Half /\ d \in Nat /\ from + h + d <= to /\ to - (from + h + d) <= Half
      /\ front = Positions(from, from + h)
      /\ Tiles(tail, from + h + d, to)
      /\ h < Half => tail = <<>> /\ to = from + h
  BY <1>0 DEF Holds
<1>3. Len(text) = last - to /\ last - to \in Nat \ {0} /\ to <= last
  <2>1. to <= last
    OBVIOUS
  <2>2. Len(text) = last - to
    BY <2>1, PositionsAre
  <2> QED BY <2>2
<1>4. /\ Appended(b, text) = IF take = Len(text) THEN [head |-> front \o text, tail |-> tail, dropped |-> d]
                             ELSE [head |-> front \o SubSeq(text, 1, take),
                                   tail |-> SubSeq(pieces, n + 1, Len(pieces)),
                                   dropped |-> d + Size(SubSeq(pieces, 1, n))]
  <2>1. [b EXCEPT !.head = @ \o text] = [head |-> front \o text, tail |-> tail, dropped |-> d]
    <3>1. b = [head |-> front, tail |-> tail, dropped |-> d]
      BY <1>2
    <3>2. \A v : [[head |-> front, tail |-> tail, dropped |-> d] EXCEPT !.head = v]
                    = [head |-> v, tail |-> tail, dropped |-> d]
      OBVIOUS
    <3>3. [b EXCEPT !.head = @ \o text] = [b EXCEPT !.head = front \o text]
      BY <1>0
    <3> HIDE DEF text
    <3> QED BY <3>1, <3>2, <3>3
  <2>2. /\ Appended(b, text) = IF take = Len(text) THEN [b EXCEPT !.head = @ \o text]
                               ELSE [head |-> front \o SubSeq(text, 1, take),
                                     tail |-> SubSeq(pieces, n + 1, Len(pieces)),
                                     dropped |-> d + Size(SubSeq(pieces, 1, n))]
    <3> HIDE DEF text
    <3> QED BY <1>0 DEF Appended
  <2> QED BY <2>1, <2>2
<1>5. take \in Nat /\ take <= last - to /\ take <= Half - h /\ (take = last - to \/ take = Half - h)
  <2> DEFINE x == Len(text)
             y == Half - h
  <2>1. x \in Nat /\ y \in Nat
    BY <1>1, <1>2, <1>3
  <2> HIDE DEF x, y
  <2>2. Min({x, y}) \in {x, y} /\ Min({x, y}) <= x /\ Min({x, y}) <= y
    <3>1. \E m \in {x, y} : \A z \in {x, y} : m <= z
      BY <2>1
    <3> QED BY <3>1 DEF Min
  <2>3. take = Min({x, y}) /\ x = last - to
    BY <1>0, <1>3 DEF x, y
  <2> QED BY <2>1, <2>2, <2>3 DEF y
<1> HIDE DEF text
<1>6. h \in Nat /\ d \in Nat /\ take \in Nat /\ from + h \in Nat
  BY <1>1, <1>2, <1>5
<1>7. take # 0 => tail = <<>> /\ to = from + h /\ d = 0
  BY <1>1, <1>2, <1>5, <1>6
<1>8. CASE take = Len(text)
  <2>1. tail = <<>> /\ to = from + h /\ d = 0
    BY <1>3, <1>7, <1>8
  <2>2. last = from + (h + take) /\ h + take \in Nat /\ h + take <= Half
    BY <1>1, <1>3, <1>5, <1>6, <1>8, <2>1
  <2>3. front \o text = Positions(from, last)
    <3>1. from <= to /\ front = Positions(from, to)
      BY <1>2, <1>6, <2>1
    <3> QED BY <1>3, <3>1, PositionsMeet DEF text
  <2>4. Len(front \o text) = h + take
    <3>1. from <= last /\ last - from = h + take
      BY <1>6, <2>2
    <3>2. Len(Positions(from, last)) = last - from
      BY <3>1, PositionsAre
    <3> QED BY <2>3, <3>1, <3>2
  <2>5. Tiles(<<>>, last, last)
    BY TilesNothing
  <2>6. Appended(b, text) = [head |-> front \o text, tail |-> <<>>, dropped |-> 0]
    BY <1>4, <1>8, <2>1
  <2>7. Holds([head |-> front \o text, tail |-> <<>>, dropped |-> 0], from, last)
    BY <1>1, <2>2, <2>3, <2>4, <2>5 DEF Holds
  <2> QED BY <2>6, <2>7 DEF text
<1>9. CASE take # Len(text)
  <2> DEFINE base == from + Half + d
             head == front \o SubSeq(text, 1, take)
             old == SubSeq(pieces, 1, n)
             new == SubSeq(pieces, n + 1, Len(pieces))
             dropped == d + Size(old)
  <2>1. take < last - to /\ h + take = Half /\ base = from + h + take + d /\ base \in Nat
    BY <1>1, <1>3, <1>5, <1>6, <1>9
  <2>2. SubSeq(text, 1, take) = Positions(to, to + take) /\ rest = Positions(to + take, last)
    <3>1. take \in 0 .. last - to
      BY <1>5
    <3> QED BY <1>3, <3>1, PositionsCut DEF text
  <2>3. head = Positions(from, from + Half) /\ Tiles(pieces, base, last)
    <3>1. CASE take = 0
      <4>1. h = Half /\ from + h + d = base /\ to + take = to
        BY <1>6, <2>1, <3>1
      <4>2. SubSeq(text, 1, take) = <<>>
        BY <3>1, SubSeqEmpty
      <4>3. front \in Seq(Nat)
        BY <1>2, <1>6, PositionsAre
      <4>4. head = front
        BY <4>2, <4>3, ConcatEmptySeq
      <4>5. Tiles(Append(tail, Positions(to, last)), base, last)
        BY <1>2, <1>3, <2>1, <4>1, TilesMore
      <4> QED BY <1>2, <2>2, <4>1, <4>4, <4>5
    <3>2. CASE take # 0
      <4>1. /\ tail = <<>> /\ to = from + h /\ d = 0 /\ base = to + take /\ from + Half = to + take
            /\ from <= to /\ to <= to + take /\ to + take \in Nat /\ to + take <= last
        BY <1>6, <1>7, <2>1, <3>2
      <4>2. front = Positions(from, to)
        BY <1>2, <4>1
      <4>3. head = Positions(from, from + Half)
        <5>1. Positions(from, to) \o Positions(to, to + take) = Positions(from, to + take)
          BY <4>1, PositionsMeet
        <5> QED BY <2>2, <4>1, <4>2, <5>1
      <4>4. Tiles(<<>>, base, base)
        BY <2>1, TilesNothing
      <4>5. Tiles(Append(<<>>, Positions(base, last)), base, last)
        BY <2>1, <4>1, <4>4, TilesMore
      <4> QED BY <2>2, <4>1, <4>3, <4>5
    <3> QED BY <3>1, <3>2
  <2> HIDE DEF base
  <2>4. n \in 0 .. Len(pieces) /\ Size(new) <= Half
    <3> HIDE DEF pieces
    <3> QED BY <2>1, <2>3, OldestFits
  <2>5. PICK mid \in Nat : Tiles(old, base, mid) /\ Tiles(new, mid, last)
    <3> HIDE DEF pieces, n
    <3> QED BY <2>1, <2>3, <2>4, TilesCut
  <2> HIDE DEF old, new
  <2>6. base <= mid /\ Size(old) = mid - base
    BY <2>1, <2>5, TilesFlat
  <2>7. mid <= last /\ Size(new) = last - mid
    BY <2>5, TilesFlat
  <2>8. Len(head) = Half
    <3>1. from + Half \in Nat /\ from <= from + Half /\ (from + Half) - from = Half
      BY <1>1
    <3>2. Len(Positions(from, from + Half)) = Half
      BY <3>1, PositionsAre
    <3> QED BY <2>3, <3>2
  <2>9. dropped \in Nat /\ from + Half + dropped = mid
    BY <1>1, <1>6, <2>1, <2>6 DEF base
  <2>10. Appended(b, text) = [head |-> head, tail |-> new, dropped |-> dropped]
    BY <1>4, <1>9 DEF old, new
  <2> HIDE DEF head, dropped
  <2>11. Holds([head |-> head, tail |-> new, dropped |-> dropped], from, last)
    <3>1. Half \in 0 .. Half /\ last - mid <= Half /\ mid <= last
      BY <1>1, <2>4, <2>7
    <3> HIDE DEF pieces, n
    <3> QED BY <1>1, <2>3, <2>5, <2>8, <2>9, <3>1 DEF Holds
  <2> QED BY <2>10, <2>11 DEF text
<1> QED BY <1>8, <1>9

\* What a reply makes of the buffer.
LEMMA HeldIsShown ==
  ASSUME NEW b, NEW from \in Nat, NEW to \in Nat, Holds(b, from, to)
  PROVE  /\ Total(b) \in Nat /\ from + Total(b) = to
         /\ Shows(Kept(b), from, to) /\ Len(Kept(b)) <= MaxChars
<1> DEFINE h == Len(b.head)
           d == b.dropped
           mid == from + h + d
<1>1. Half \in Nat /\ Half + Half <= MaxChars
  BY DEF Half
<1>2. /\ h \in 0 .. Half /\ d \in Nat /\ mid <= to /\ to - mid <= Half
      /\ b.head = Positions(from, from + h)
      /\ Tiles(b.tail, mid, to)
  BY DEF Holds
<1> HIDE DEF h, d
<1>3. h \in Nat /\ mid \in Nat /\ from + h \in Nat /\ from <= from + h /\ (from + h) - from = h
  BY <1>1, <1>2
<1>4. FlattenSeq(b.tail) = Positions(mid, to)
  <2> HIDE DEF mid
  <2> QED BY <1>2, <1>3, TilesFlat
<1>5. Kept(b) = Positions(from, from + h) \o Positions(mid, to)
  BY <1>2, <1>4 DEF Kept
<1>6. Len(Kept(b)) = h + (to - mid)
  <2>1. Positions(from, from + h) \in Seq(Nat) /\ Len(Positions(from, from + h)) = h
    BY <1>3, PositionsAre
  <2>2. Positions(mid, to) \in Seq(Nat) /\ Len(Positions(mid, to)) = to - mid
    <3> HIDE DEF mid
    <3> QED BY <1>2, <1>3, PositionsAre
  <2> HIDE DEF mid
  <2> QED BY <1>5, <2>1, <2>2, ConcatProperties
<1>7. h \in 0 .. Len(Kept(b)) /\ to - (Len(Kept(b)) - h) = mid
  BY <1>2, <1>3, <1>6
<1>8. Shows(Kept(b), from, to)
  <2> HIDE DEF mid
  <2> QED BY <1>5, <1>7 DEF Shows
<1>9. Total(b) = to - from
  BY <1>2, <1>3, <1>6 DEF Total, d
<1> QED BY <1>1, <1>2, <1>3, <1>6, <1>8, <1>9

-----------------------------------------------------------------------------
(* What the replies account for.                                           *)

\* The characters of s that the replies so far account for.
Spoken(s) == Before(s, Len(replies[s]) + 1)

Told(s) ==
  \A k \in DOMAIN replies[s] :
    /\ replies[s][k].total \in Nat
    /\ Shows(replies[s][k].kept, Before(s, k), Before(s, k) + replies[s][k].total)
    /\ Len(replies[s][k].kept) <= MaxChars

OutputTyped == wrote \in [Ids -> Nat] /\ taken \in [Ids -> Nat] /\ buffer = [s \in Ids |-> buffer[s]]

\* What was read of s and not yet told is in the buffer if a call works on s; else there is nothing.
Accounted(s) ==
  /\ Told(s)
  /\ current # s => Spoken(s) = taken[s]
  /\ current = s => Holds(buffer[s], Spoken(s), taken[s])
  /\ s >= nextId => taken[s] = 0 /\ buffer[s] = EmptyBuffer

OutputInv == ExecInv /\ OutputTyped /\ \A s \in Ids : Accounted(s)

LEMMA SpokenIs ==
  ASSUME ExecInv, NEW s \in Ids, Told(s)
  PROVE  Spoken(s) \in Nat /\ (replies[s] = <<>> => Spoken(s) = 0)
<1> DEFINE N == Len(replies[s])
<1>1. PICK f : f = [k \in DOMAIN replies[s] |-> replies[s][k].total]
  OBVIOUS
<1>2. DOMAIN replies[s] = 1 .. N /\ N \in Nat
  BY LenProperties DEF ExecInv, TypeOK
<1>3. N <= N /\ \A k \in 1 .. N : f[k] \in Nat
  BY <1>1, <1>2 DEF Told
<1>4. SumTo(f, N) \in Nat /\ SumTo(f, 0) = 0
  <2> HIDE DEF N
  <2> QED BY <1>2, <1>3, SumMore
<1>5. Spoken(s) = SumTo(f, N)
  BY <1>1, <1>2 DEF Spoken, Before
<1>6. replies[s] = <<>> => N = 0
  BY EmptySeq
<1> QED BY <1>4, <1>5, <1>6

\* A reply accounts for all that the buffer stands for.
LEMMA AccountGrows ==
  ASSUME ExecInv, NEW s \in Ids, Told(s), taken[s] \in Nat, Holds(buffer[s], Spoken(s), taken[s]),
         NEW says, NEW count, Tell(s, says, count)
  PROVE  Told(s)' /\ Spoken(s)' = taken[s]
<1>0. PICK old, new, N : old = replies[s] /\ new = replies'[s] /\ N = Len(old)
  OBVIOUS
<1>1. /\ DOMAIN old = 1 .. N /\ N \in Nat /\ DOMAIN new = 1 .. N + 1 /\ Len(new) = N + 1
      /\ \A k \in 1 .. N : new[k] = old[k]
      /\ new[N + 1].kept = Kept(buffer[s]) /\ new[N + 1].total = Total(buffer[s])
  <2>1. /\ DOMAIN replies[s] = 1 .. Len(replies[s]) /\ Len(replies[s]) \in Nat
        /\ DOMAIN replies'[s] = 1 .. Len(replies'[s]) /\ Len(replies'[s]) = Len(replies[s]) + 1
        /\ \A k \in DOMAIN replies[s] : replies'[s][k] = replies[s][k]
        /\ replies'[s][Len(replies'[s])].kept = Kept(buffer[s])
        /\ replies'[s][Len(replies'[s])].total = Total(buffer[s])
    BY Tells DEF ExecInv
  <2> QED BY <1>0, <2>1
<1>2. /\ Spoken(s) \in Nat /\ Total(buffer[s]) \in Nat /\ Spoken(s) + Total(buffer[s]) = taken[s]
      /\ Shows(Kept(buffer[s]), Spoken(s), taken[s]) /\ Len(Kept(buffer[s])) <= MaxChars
  BY SpokenIs, HeldIsShown
<1>3. PICK f, g : f = [k \in 1 .. N |-> old[k].total] /\ g = [k \in 1 .. N + 1 |-> new[k].total]
  OBVIOUS
<1>4. /\ \A k : Before(s, k) = SumTo(f, k - 1) /\ Before(s, k)' = SumTo(g, k - 1)
      /\ Spoken(s) = SumTo(f, N) /\ Spoken(s)' = SumTo(g, N + 1)
  <2>1. \A k : Before(s, k) = SumTo(f, k - 1) /\ Before(s, k)' = SumTo(g, k - 1)
    BY <1>0, <1>1, <1>3 DEF Before
  <2>2. (N + 1) - 1 = N /\ (N + 2) - 1 = N + 1
    BY <1>1
  <2> QED BY <1>0, <1>1, <2>1, <2>2 DEF Spoken
<1>5. /\ \A k \in 1 .. N : old[k].total \in Nat /\ f[k] = old[k].total /\ g[k] = f[k]
      /\ g[N + 1] = Total(buffer[s]) /\ \A k \in 1 .. N + 1 : g[k] \in Nat
  <2>1. \A k \in 1 .. N : old[k].total \in Nat
    BY <1>0, <1>1 DEF Told
  <2>2. \A k \in 1 .. N : f[k] = old[k].total /\ g[k] = new[k].total
    BY <1>1, <1>3
  <2>3. N + 1 \in 1 .. N + 1 /\ g[N + 1] = new[N + 1].total
    BY <1>1, <1>3
  <2>4. \A k \in 1 .. N + 1 : k \in 1 .. N \/ k = N + 1
    BY <1>1
  <2> QED BY <1>1, <1>2, <2>1, <2>2, <2>3, <2>4
<1>6. \A m \in 0 .. N : SumTo(f, m) = SumTo(g, m)
  <2> TAKE m \in 0 .. N
  <2>1. m \in Nat /\ N + 1 \in Nat /\ m <= N + 1 /\ \A k \in 1 .. m : f[k] = g[k]
    BY <1>1, <1>5
  <2>2. PICK n \in Nat : n = N + 1
    BY <2>1
  <2>3. m \in Nat /\ m <= n /\ (\A k \in 1 .. n : g[k] \in Nat) /\ (\A k \in 1 .. m : f[k] = g[k])
    BY <1>5, <2>1, <2>2
  <2> QED BY <2>3, SumMore
<1>7. SumTo(g, N + 1) = SumTo(g, N) + g[N + 1]
  <2>1. N \in Nat /\ N + 1 \in Nat /\ N <= N + 1 /\ \A k \in 1 .. N : g[k] = g[k]
    BY <1>1
  <2> QED BY <1>5, <2>1, SumMore
<1>8. Spoken(s)' = taken[s]
  BY <1>1, <1>2, <1>4, <1>5, <1>6, <1>7
<1>9. ASSUME NEW k \in 1 .. N + 1
      PROVE  /\ new[k].total \in Nat
             /\ Shows(new[k].kept, SumTo(g, k - 1), SumTo(g, k - 1) + new[k].total)
             /\ Len(new[k].kept) <= MaxChars
  <2>1. CASE k = N + 1
    BY <1>1, <1>2, <1>4, <1>6, <2>1
  <2>2. CASE k # N + 1
    <3>1. k \in 1 .. N /\ k - 1 \in 0 .. N
      BY <1>1, <2>2
    <3>2. new[k] = old[k] /\ SumTo(g, k - 1) = Before(s, k)
      BY <1>1, <1>4, <1>6, <3>1
    <3> QED BY <1>0, <1>1, <3>1, <3>2 DEF Told
  <2> QED BY <2>1, <2>2
<1>10. Told(s)'
  BY <1>0, <1>1, <1>4, <1>9 DEF Told
<1> QED BY <1>8, <1>10
LEMMA OutputStarts == Init => OutputInv
<1> SUFFICES ASSUME Init PROVE OutputInv
  OBVIOUS
<1>1. ExecInv /\ OutputTyped
  BY ExecStarts DEF Init, OutputTyped
<1>2. ASSUME NEW s \in Ids PROVE Accounted(s)
  <2>1. Told(s) /\ replies[s] = <<>> /\ taken[s] = 0 /\ buffer[s] = EmptyBuffer /\ current # s
    BY <1>2, EmptySeq DEF Init, Told, Ids
  <2> QED BY <1>1, <2>1, SpokenIs DEF Accounted
<1> QED BY <1>1, <1>2 DEF OutputInv

\* What leaves the buffers and the replies of a session alone leaves its account as it is.
LEMMA AccountStays ==
  ASSUME NEW s \in Ids, Accounted(s), taken'[s] = taken[s], replies'[s] = replies[s],
         buffer'[s] = buffer[s], nextId' >= nextId, nextId \in Nat, nextId' \in Nat,
         current' = s <=> current = s
  PROVE  Accounted(s)'
<1>1. \A k : Before(s, k)' = Before(s, k)
  BY DEF Before
<1>2. Told(s)' /\ Spoken(s)' = Spoken(s)
  BY <1>1 DEF Told, Spoken, Accounted
<1>3. s >= nextId' => s >= nextId
  BY DEF Ids
<1> QED BY <1>2, <1>3 DEF Accounted

\* A call begins on s, whose output is told so far, with an empty buffer.
LEMMA AccountOpens ==
  ASSUME NEW s \in Ids, ExecInv, Accounted(s), current # s, taken[s] \in Nat,
         taken'[s] = taken[s], replies'[s] = replies[s], buffer'[s] = EmptyBuffer,
         ~(s >= nextId')
  PROVE  Accounted(s)'
<1>1. \A k : Before(s, k)' = Before(s, k)
  BY DEF Before
<1>2. Told(s)' /\ Spoken(s)' = Spoken(s) /\ Spoken(s) = taken[s]
  BY <1>1 DEF Told, Spoken, Accounted
<1>3. Holds(EmptyBuffer, taken[s], taken[s])
  BY NothingHeld
<1> QED BY <1>2, <1>3 DEF Accounted

LEMMA AccountCloses ==
  ASSUME ExecInv, OutputTyped, NEW s \in Ids, Accounted(s), current = s, current' # s,
         NEW says, NEW count, Tell(s, says, count), UNCHANGED <<taken, buffer, nextId>>
  PROVE  Accounted(s)'
<1>1. Told(s)' /\ Spoken(s)' = taken[s]
  BY AccountGrows DEF Accounted, OutputTyped
<1> QED BY <1>1 DEF Accounted

LEMMA OutputSteps ==
  ASSUME OutputInv, [Next]_vars
  PROVE  OutputInv'
<1>0. /\ ExecInv /\ ExecInv' /\ TypeOK /\ OutputTyped /\ \A s \in Ids : Accounted(s) /\ taken[s] \in Nat
      /\ nextId \in Nat /\ nextId' \in Nat
      /\ (phase # "idle" => current \in Ids) /\ (phase = "idle" => current = 0)
  BY ExecSteps DEF OutputInv, ExecInv, TypeOK, CallOpen, OutputTyped
<1>1. ASSUME UNCHANGED <<taken, buffer, replies, nextId, current>>, wrote' \in [Ids -> Nat]
      PROVE  OutputInv'
  <2>1. OutputTyped'
    BY <1>0, <1>1 DEF OutputTyped
  <2>2. \A s \in Ids : Accounted(s)'
    BY <1>0, <1>1, AccountStays
  <2> QED BY <1>0, <2>1, <2>2 DEF OutputInv
<1>2. ASSUME NEW s \in Ids, Output(s) \/ StartJob(s) \/ EndJob(s) \/ Leave(s)
      PROVE  OutputInv'
  <2>1. UNCHANGED <<taken, buffer, replies, nextId, current>>
    BY <1>2 DEF Output, StartJob, EndJob, Leave, sessVars, mgrVars, callVars
  <2>2. wrote' \in [Ids -> Nat]
    BY <1>0, <1>2 DEF Output, StartJob, EndJob, Leave, OutputTyped
  <2> QED BY <1>1, <2>1, <2>2
<1>3. CASE ExecCommand
  <2>1. /\ nextId \in Ids /\ current = 0 /\ current' = nextId /\ nextId' = nextId + 1
        /\ UNCHANGED <<wrote, taken, buffer, replies>>
    BY <1>0, <1>3 DEF ExecCommand, Begin, sessVars
  <2>2. \A s \in Ids : Accounted(s)'
    <3> TAKE s \in Ids
    <3>1. CASE s = nextId
      <4>1. buffer'[s] = EmptyBuffer /\ current # s /\ ~(s >= nextId')
        BY <1>0, <2>1, <3>1 DEF Accounted, Ids
      <4> QED BY <1>0, <2>1, <4>1, AccountOpens
    <3>2. CASE s # nextId
      <4>1. (current' = s <=> current = s) /\ nextId' >= nextId
        BY <1>0, <2>1, <3>2 DEF Ids
      <4> QED BY <1>0, <2>1, <4>1, AccountStays
    <3> QED BY <3>1, <3>2
  <2> QED BY <1>0, <2>1, <2>2 DEF OutputInv, OutputTyped
<1>4. ASSUME NEW s \in Ids, WriteStdin(s) PROVE OutputInv'
  <2>1. /\ current = 0 /\ s \in sessions /\ buffer' = [buffer EXCEPT ![s] = EmptyBuffer]
        /\ UNCHANGED <<taken, replies, nextId>> /\ (current' = s \/ current' = current)
        /\ wrote' \in [Ids -> Nat]
    <3>1. UNCHANGED wrote \/ \E echo \in {0, 1} : wrote' = [wrote EXCEPT ![s] = @ + echo]
      BY <1>4 DEF WriteStdin
    <3>2. wrote' \in [Ids -> Nat]
      BY <1>0, <3>1 DEF OutputTyped
    <3> QED BY <1>0, <1>4, <3>2 DEF WriteStdin, FreshBuffer, Begin, callVars, mgrVars
  <2>2. /\ buffer' = [u \in Ids |-> buffer'[u]] /\ buffer'[s] = EmptyBuffer
        /\ \A u \in Ids \ {s} : buffer'[u] = buffer[u]
    BY <1>0, <2>1 DEF OutputTyped
  <2>3. ~(s >= nextId') /\ current # s
    <3>1. ~(s >= nextId)
      BY <1>0, <2>1 DEF ExecInv, Fresh
    <3> QED BY <1>0, <2>1, <3>1 DEF Ids
  <2>4. \A u \in Ids : Accounted(u)'
    <3> TAKE u \in Ids
    <3>1. CASE u = s
      BY <1>0, <2>1, <2>2, <2>3, <3>1, AccountOpens
    <3>2. CASE u # s
      <4>1. (current' = u <=> current = u) /\ nextId' >= nextId /\ buffer'[u] = buffer[u]
        BY <1>0, <2>1, <2>2, <3>2 DEF Ids
      <4> QED BY <1>0, <2>1, <4>1, AccountStays
    <3> QED BY <3>1, <3>2
  <2> QED BY <1>0, <2>1, <2>2, <2>4 DEF OutputInv, OutputTyped
<1>5. CASE ReadChunk
  <2>0. current \in Ids /\ UNCHANGED <<wrote, replies, nextId, current>>
    BY <1>0, <1>5 DEF ReadChunk, Reading, progVars, mgrVars, callVars
  <2>1. PICK s \in Ids : s = current /\ UNCHANGED <<wrote, replies, nextId, current>>
    BY <2>0
  <2>2. PICK last \in taken[s] + 1 .. wrote[s] :
          /\ buffer' = [buffer EXCEPT ![s] = Appended(@, [i \in 1 .. last - taken[s] |-> taken[s] + i])]
          /\ taken' = [taken EXCEPT ![s] = last]
    BY <1>5, <2>1 DEF ReadChunk
  <2>3. last \in Nat /\ taken[s] < last
    BY <1>0, <2>1 DEF OutputTyped
  <2>4. /\ taken' \in [Ids -> Nat] /\ taken'[s] = last
        /\ buffer' = [u \in Ids |-> buffer'[u]] /\ buffer'[s] = Appended(buffer[s], Positions(taken[s], last))
        /\ \A u \in Ids \ {s} : buffer'[u] = buffer[u] /\ taken'[u] = taken[u]
    BY <1>0, <2>1, <2>2, <2>3 DEF OutputTyped, Positions
  <2>5. Accounted(s)'
    <3>1. /\ Told(s) /\ Spoken(s) \in Nat /\ Holds(buffer[s], Spoken(s), taken[s]) /\ ~(s >= nextId)
      <4>1. Told(s) /\ Holds(buffer[s], Spoken(s), taken[s])
        BY <1>0, <2>1 DEF Accounted
      <4>2. ~(s >= nextId)
        BY <1>0, <2>1 DEF ExecInv, CallOpen, Fresh, Ids
      <4> QED BY <1>0, <2>1, <4>1, <4>2, SpokenIs
    <3>2. Holds(buffer'[s], Spoken(s), taken'[s])
      BY <1>0, <2>1, <2>3, <2>4, <3>1, HoldsMore
    <3>3. \A k : Before(s, k)' = Before(s, k)
      BY <2>1 DEF Before
    <3>4. Told(s)' /\ Spoken(s)' = Spoken(s)
      BY <2>1, <3>1, <3>3 DEF Told, Spoken
    <3> QED BY <2>1, <3>1, <3>2, <3>4 DEF Accounted
  <2>6. \A u \in Ids : Accounted(u)'
    <3> TAKE u \in Ids
    <3>1. CASE u # s
      BY <1>0, <2>1, <2>4, <3>1, AccountStays
    <3> QED BY <2>5, <3>1
  <2> QED BY <1>0, <2>1, <2>4, <2>6 DEF OutputInv, OutputTyped
<1>6. CASE EndRead \/ AwaitExit \/ Exited
  <2>1. UNCHANGED <<wrote, taken, buffer, replies, nextId, current>>
    BY <1>6 DEF EndRead, AwaitExit, Exited, progVars, sessVars, mgrVars
  <2> QED BY <1>0, <1>1, <2>1 DEF OutputTyped
<1>7. CASE StillRunning \/ Retire
  <2>0. current \in Ids
    BY <1>0, <1>7 DEF StillRunning, Retire, ExecInv, TypeOK, CallOpen
  <2>1. PICK s \in Ids : s = current /\ \E says, count : Tell(s, says, count)
    BY <2>0, <1>7 DEF StillRunning, Retire
  <2>2. current' = 0 /\ UNCHANGED <<wrote, taken, buffer, nextId>>
    BY <1>7 DEF StillRunning, Retire, progVars, sessVars, mgrVars
  <2>3. \A u \in Ids \ {s} : replies'[u] = replies[u]
    BY <1>0, <2>1, Tells
  <2>4. \A u \in Ids : Accounted(u)'
    <3> TAKE u \in Ids
    <3>1. CASE u = s
      <4>1. current' # s
        BY <2>2 DEF Ids
      <4> QED BY <1>0, <2>1, <2>2, <3>1, <4>1, AccountCloses
    <3>2. CASE u # s
      <4>1. (current' = u <=> current = u) /\ nextId' >= nextId
        BY <1>0, <2>1, <2>2, <3>2 DEF Ids
      <4> QED BY <1>0, <2>2, <2>3, <3>2, <4>1, AccountStays
    <3> QED BY <3>1, <3>2
  <2> QED BY <1>0, <2>2, <2>4 DEF OutputInv, OutputTyped
<1>8. CASE CloseAll
  BY <1>0, <1>1, <1>8 DEF CloseAll, callVars, OutputTyped
<1>9. CASE UNCHANGED vars
  BY <1>0, <1>1, <1>9 DEF vars, progVars, sessVars, mgrVars, callVars, OutputTyped
<1> QED BY <1>2, <1>3, <1>4, <1>5, <1>6, <1>7, <1>8, <1>9 DEF Next, ManagerStep

\* Of each session, what was read is what the replies account for; of the one a call works on, that and what its
\* buffer stands for: the positions after the last reply, in order, the middle perhaps dropped and counted.
THEOREM OutputInductive == Spec => []OutputInv
<1>1. OutputInv /\ [Next]_vars => OutputInv'
  BY OutputSteps
<1> QED BY <1>1, OutputStarts, PTL DEF Spec

\* Each reply shows what arrived since the one before, whole or its beginning and its end, within the budget, and no
\* character is reported twice or falls between two calls (HeadTailBuffer, read_available, _result, write_stdin),
\* for any budget and any size of the pieces in which the output is read.
THEOREM AllAccounted == Spec => []RepliesAccount
<1>1. OutputInv => RepliesAccount
  BY DEF OutputInv, Accounted, Told, Spoken, RepliesAccount
<1> QED BY <1>1, OutputInductive, PTL
=============================================================================
