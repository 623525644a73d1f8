----------------------------- MODULE UnifiedExec -----------------------------
(***************************************************************************)
(* ProcessManager (s06): one call at a time opens a session (a shell under *)
(* a pty) or writes to one, reads its output for a while, and answers with *)
(* an exit code or with the id of a session that goes on.  The programs    *)
(* run meanwhile, and between the calls.                                   *)
(*                                                                         *)
(* A program's output is the sequence of its positions 1, 2, 3, ... so     *)
(* that a piece lost, repeated or moved shows.  Time is left out: every    *)
(* wait with a deadline may end at any moment.                             *)
(***************************************************************************)
EXTENDS HeadTail

CONSTANTS
  MaxSessions, \* bound: sessions opened
  MaxOutput,   \* bound: characters written to the ptys, together
  MaxReplies   \* bound: replies given about each session

ASSUME BoundsAssumption == MaxSessions \in Nat /\ MaxOutput \in Nat /\ MaxReplies \in Nat

Ids == 1 .. MaxSessions

VARIABLES
  shell,     \* the session's process: "none", "running", "leaving" (its end of the
             \* pty is closed), "zombie" (exited) or "reaped" (poll() has seen it)
  job,       \* the shell started a program that may outlive it, and has not ended
  wrote,     \* characters the programs (and the echo) put into the pty
  taken,     \* characters read from it
  buffer,    \* ExecSession.buffer
  ptyClosed, \* ExecSession.pty_closed
  closed,    \* ExecSession.closed
  sessions,  \* ProcessManager.sessions
  nextId,    \* ProcessManager._next_id
  phase,     \* what the call in progress does, or "idle"
  current,   \* its session, or 0
  original,  \* the original token count it will report
  replies    \* what the model was told about each session, call by call

progVars == <<shell, job, wrote>>
sessVars == <<taken, buffer, ptyClosed, closed>>
mgrVars  == <<sessions, nextId>>
callVars == <<phase, current, original>>
vars == <<progVars, sessVars, mgrVars, callVars, replies>>

\* No count: the output was not truncated when it was computed.
None == -1

Init ==
  /\ shell = [s \in Ids |-> "none"] /\ job = [s \in Ids |-> FALSE]
  /\ wrote = [s \in Ids |-> 0] /\ taken = [s \in Ids |-> 0]
  /\ buffer = [s \in Ids |-> EmptyBuffer]
  /\ ptyClosed = [s \in Ids |-> FALSE] /\ closed = [s \in Ids |-> FALSE]
  /\ sessions = {} /\ nextId = 1
  /\ phase = "idle" /\ current = 0 /\ original = None
  /\ replies = [s \in Ids |-> <<>>]

-----------------------------------------------------------------------------
(* The programs.                                                           *)

\* The bound on output, a guard on what adds to it.
HasRoom == SumFunction(wrote) < MaxOutput

\* Some process holds the other end of the pty.
Held(s) == shell[s] = "running" \/ job[s]

Output(s) ==
  /\ Held(s) /\ ~closed[s] /\ HasRoom
  /\ wrote' = [wrote EXCEPT ![s] = @ + 1]
  /\ UNCHANGED <<shell, job, sessVars, mgrVars, callVars, replies>>

StartJob(s) ==
  /\ shell[s] = "running" /\ ~job[s]
  /\ job' = [job EXCEPT ![s] = TRUE]
  /\ UNCHANGED <<shell, wrote, sessVars, mgrVars, callVars, replies>>

EndJob(s) ==
  /\ job[s]
  /\ job' = [job EXCEPT ![s] = FALSE]
  /\ UNCHANGED <<shell, wrote, sessVars, mgrVars, callVars, replies>>

\* The shell leaves its terminal, and exits: two events.
Leave(s) ==
  /\ \/ shell[s] = "running" /\ shell' = [shell EXCEPT ![s] = "leaving"]
     \/ shell[s] = "leaving" /\ shell' = [shell EXCEPT ![s] = "zombie"]
  /\ UNCHANGED <<job, wrote, sessVars, mgrVars, callVars, replies>>

-----------------------------------------------------------------------------
(* The calls.                                                              *)

Begin(s) == phase' = "reading" /\ current' = s /\ original' = None

\* exec_command up to its read.  (A shell that cannot be spawned leaves nothing.)
ExecCommand ==
  /\ phase = "idle" /\ nextId \in Ids
  /\ shell' = [shell EXCEPT ![nextId] = "running"]
  /\ sessions' = sessions \cup {nextId} /\ nextId' = nextId + 1
  /\ Begin(nextId)
  /\ UNCHANGED <<job, wrote, sessVars, replies>>

\* Mutant: the buffer of the call before is used again.
FreshBuffer_Kept(s) == buffer

FreshBuffer(s) == [buffer EXCEPT ![s] = EmptyBuffer]

\* write_stdin up to its read, for a live session.  The terminal echoes what is
\* typed; if nobody holds its other end, some platforms refuse to write.
WriteStdin(s) ==
  /\ phase = "idle"
  /\ s \in sessions /\ ~closed[s] /\ Len(replies[s]) < MaxReplies
  /\ buffer' = FreshBuffer(s)
  /\ \/ /\ \E echo \in IF HasRoom THEN {0, 1} ELSE {0} : wrote' = [wrote EXCEPT ![s] = @ + echo]
        /\ Begin(s)
     \/ /\ ~Held(s)
        /\ UNCHANGED <<wrote, callVars>>
  /\ UNCHANGED <<shell, job, taken, ptyClosed, closed, mgrVars, replies>>

\* poll(): whether the process has exited is asked, and remembered.
Polled(s) == IF shell[s] = "zombie" THEN [shell EXCEPT ![s] = "reaped"] ELSE shell

Reading == phase \in {"reading", "draining"}

\* read_available: what is in the pty, or a part of it.
ReadChunk ==
  LET s == current IN
  /\ Reading
  /\ \E last \in taken[s] + 1 .. wrote[s] :
       /\ buffer' = [buffer EXCEPT ![s] = Appended(@, [i \in 1 .. last - taken[s] |-> taken[s] + i])]
       /\ taken' = [taken EXCEPT ![s] = last]
  /\ UNCHANGED <<progVars, ptyClosed, closed, mgrVars, callVars, replies>>

\* The reading ends at EIO (the pty is empty and nobody holds its other end), or
\* because output has been quiet, the process has exited or time is up.
Stop(s) ==
  \/ /\ taken[s] = wrote[s] /\ ~Held(s)
     /\ ptyClosed' = [ptyClosed EXCEPT ![s] = TRUE] /\ UNCHANGED shell
  \/ /\ shell' \in {shell, Polled(s)} /\ UNCHANGED ptyClosed

EndRead ==
  /\ phase = "reading" /\ Stop(current)
  /\ phase' = "result" /\ UNCHANGED current
  /\ UNCHANGED <<job, wrote, taken, buffer, closed, mgrVars, original, replies>>

-----------------------------------------------------------------------------
(* _result: what the model is told.                                        *)

\* original_tokens: the size of the output, if some of it was dropped.
Count(s) == IF buffer[s].dropped > 0 THEN Total(buffer[s]) ELSE None

Tell(s, says, count) ==
  replies' = [replies EXCEPT ![s] = Append(@,
    [kept |-> Kept(buffer[s]), total |-> Total(buffer[s]), original |-> count, says |-> says])]

\* The command has closed its terminal and not exited: wait a second for it.
AwaitExit ==
  /\ phase = "result" /\ shell[current] = "leaving" /\ ptyClosed[current]
  /\ phase' = "waiting"
  /\ UNCHANGED <<progVars, sessVars, mgrVars, current, original, replies>>

\* No exit status: the session goes on.
StillRunning ==
  /\ \/ phase = "result" /\ shell[current] \in {"running", "leaving"} /\ ~ptyClosed[current]
     \/ phase = "waiting" /\ shell[current] = "leaving"
  /\ Tell(current, "running", Count(current))
  /\ phase' = "idle" /\ current' = 0 /\ original' = None
  /\ UNCHANGED <<progVars, sessVars, mgrVars>>

\* The process has exited: read what is still in the pty.
Exited ==
  /\ phase \in {"result", "waiting"} /\ shell[current] \in {"zombie", "reaped"}
  /\ shell' = [shell EXCEPT ![current] = "reaped"]
  /\ original' = Count(current)
  /\ phase' = "draining"
  /\ UNCHANGED <<job, wrote, sessVars, mgrVars, current, replies>>

\* Mutant: the session is closed and stays in the table.
Without_Kept(s) == sessions

\* sessions.pop(session_id, None)
Without(s) == sessions \ {s}

\* The session is over.  close() would kill the process group, and does not find
\* it: its leader has been reaped.
Retire ==
  /\ phase = "draining" /\ Stop(current)
  /\ Tell(current, "exited", original)
  /\ closed' = [closed EXCEPT ![current] = TRUE]
  /\ sessions' = Without(current)
  /\ phase' = "idle" /\ current' = 0 /\ original' = None
  /\ UNCHANGED <<job, wrote, taken, buffer, nextId>>

\* Every open session is closed and its process group killed.
CloseAll ==
  /\ phase = "idle" /\ sessions # {}
  /\ closed' = [s \in Ids |-> closed[s] \/ s \in sessions]
  /\ shell' = [s \in Ids |-> IF s \in sessions THEN "zombie" ELSE shell[s]]
  /\ job' = [s \in Ids |-> job[s] /\ s \notin sessions]
  /\ sessions' = {}
  /\ UNCHANGED <<wrote, taken, buffer, ptyClosed, nextId, callVars, replies>>

-----------------------------------------------------------------------------
ManagerStep == ReadChunk \/ EndRead \/ AwaitExit \/ StillRunning \/ Exited \/ Retire

Next ==
  \/ \E s \in Ids : Output(s) \/ StartJob(s) \/ EndJob(s) \/ Leave(s)
  \/ ExecCommand
  \/ \E s \in Ids : WriteStdin(s)
  \/ ManagerStep
  \/ CloseAll

Spec == Init /\ [][Next]_vars
=============================================================================
