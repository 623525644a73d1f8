-------------------------------- MODULE Mcp --------------------------------
(***************************************************************************)
(* The MCP connections (s13): server processes, the threads that start     *)
(* them, the threads that call their tools, and the main thread, which     *)
(* waits for the starts and at the end closes the connections.             *)
(*                                                                         *)
(* These are OS threads: an action is what one of them does between two    *)
(* points where another can change what it has looked at.  Servers are     *)
(* other people's processes: they read late or never, answer late, in any  *)
(* order or never, say other things in between, and end at any moment.     *)
(*                                                                         *)
(* A request is <<thread, n>>, the n-th of that thread; the lines of the   *)
(* pipe keep which request they answer, which the client cannot see.  Left *)
(* out: texts and schemas, the form in which tools are listed, tool_search. *)
(***************************************************************************)
EXTENDS Integers, Sequences, FiniteSets

CONSTANTS
  Servers,  \* the configured servers; the thread that starts a server has its name
  Calls,    \* bound: the tool calls of the session, each in a thread of its own
  MaxExtra, \* bound: lines of the servers that are no answers
  OwnIds,   \* bound: ids that the servers' own requests carry
  Nobody

ASSUME ThreadsAssumption == Servers \cap Calls = {} /\ Nobody \notin Servers \cup Calls
ASSUME BoundAssumption == MaxExtra \in Nat /\ OwnIds \subseteq Nat /\ IsFiniteSet(Servers)

Threads == Servers \cup Calls
NoServer == Nobody

VARIABLES
  \* The main thread and McpConnectionManager.
  main,     \* what the main thread is doing
  joined,   \* start_all: the starts it has waited for
  ready, failed, \* StartupReport
  clients,  \* servers in McpConnectionManager.clients (and, until close_all, .tools)
  closing,  \* close_all: the clients its loop began with that are not closed yet
  size,     \* close_all: how many there were when the loop began
  \* The clients.
  attached, \* servers whose client.process is not None
  hungUp,   \* servers whose stdin has been closed
  nextId,   \* StdioMcpClient._next_id
  lock,     \* StdioMcpClient._lock
  \* The threads.
  pc, server, \* where a thread is, and the server it talks to
  id,       \* the id of the request it waits for
  got,      \* the answers it has taken, by the request they answer
  how,      \* how it ended
  \* The server processes.
  process, inbox, wire, extra \* alive or not, requests to answer, lines to read, bound

mainVars   == <<main, joined, ready, failed, clients, closing, size>>
clientVars == <<attached, hungUp, nextId, lock>>
threadVars == <<pc, server, id, got, how>>
serverVars == <<process, inbox, wire, extra>>
vars == <<mainVars, clientVars, threadVars, serverVars>>

Request == Threads \X (1 .. 2)
NoRequest == <<Nobody, 0>>

\* A line a server writes: an answer (also an error), a request of its own, a
\* notification or junk to be skipped, or JSON the client chokes on.
Line ==
  [kind : {"result", "error"}, id : Nat, answers : Request]
    \cup [kind : {"ask"}, id : Nat, answers : {NoRequest}]
    \cup [kind : {"note", "odd"}, id : {0}, answers : {NoRequest}]

TypeOK ==
  /\ main \in {"starting", "serving", "closing", "closed", "raised"}
  /\ joined \subseteq Servers /\ ready \subseteq Servers /\ failed \subseteq Servers
  /\ clients \subseteq Servers /\ closing \subseteq Servers
  /\ size \in Nat
  /\ attached \subseteq Servers /\ hungUp \subseteq Servers
  /\ nextId \in [Servers -> Nat]
  /\ lock \in [Servers -> Threads \cup {Nobody}]
  /\ pc \in [Threads -> {"off", "spawn", "enter", "lock", "write", "read", "notify", "register", "fail", "over"}]
  /\ server \in [Threads -> Servers \cup {NoServer}]
  /\ id \in [Threads -> Nat]
  /\ got \in [Threads -> Seq(Request \cup {NoRequest})]
  /\ how \in [Threads -> {"none", "answered", "error", "raised"}]
  /\ process \in [Servers -> {"absent", "up", "ended"}]
  /\ inbox \in [Servers -> SUBSET (Nat \X Request)]
  /\ wire \in [Servers -> Seq(Line)]
  /\ extra \in 0 .. MaxExtra

Init ==
  /\ main = "starting"
  /\ joined = {} /\ ready = {} /\ failed = {} /\ clients = {} /\ closing = {} /\ size = 0
  /\ attached = {} /\ hungUp = {}
  /\ nextId = [s \in Servers |-> 1] /\ lock = [s \in Servers |-> Nobody]
  /\ pc = [t \in Threads |-> IF t \in Servers THEN "spawn" ELSE "off"]
  /\ server = [t \in Threads |-> IF t \in Servers THEN t ELSE NoServer]
  /\ id = [t \in Threads |-> 0]
  /\ got = [t \in Threads |-> <<>>]
  /\ how = [t \in Threads |-> "none"]
  /\ process = [s \in Servers |-> "absent"]
  /\ inbox = [s \in Servers |-> {}] /\ wire = [s \in Servers |-> <<>>]
  /\ extra = 0

-----------------------------------------------------------------------------
(* How a thread goes on.                                                   *)

GoTo(t, place) == pc' = [pc EXCEPT ![t] = place] /\ UNCHANGED how

\* An exception that is no McpError: nobody catches it.
Raises(t) == pc' = [pc EXCEPT ![t] = "over"] /\ how' = [how EXCEPT ![t] = "raised"]

\* McpError: call() makes it a text, _start_one a failed server.
FailsWith(t) ==
  IF t \in Servers THEN GoTo(t, "fail")
  ELSE pc' = [pc EXCEPT ![t] = "over"] /\ how' = [how EXCEPT ![t] = "error"]

\* Popen, or OSError.
Spawn(s) ==
  /\ pc[s] = "spawn"
  /\ \/ /\ process' = [process EXCEPT ![s] = "up"]
        /\ attached' = attached \cup {s}
        /\ GoTo(s, "enter")
     \/ /\ FailsWith(s)
        /\ UNCHANGED <<process, attached>>
  /\ UNCHANGED <<mainVars, hungUp, nextId, lock, server, id, got, inbox, wire, extra>>

\* _request, up to the lock.  Between `process is None' and `process.poll()'
\* close() may have taken the process away.
Enter(t) ==
  LET s == server[t] IN
  /\ pc[t] = "enter"
  /\ \/ s \in attached /\ process[s] = "up" /\ GoTo(t, "lock")
     \/ ~(s \in attached /\ process[s] = "up") /\ FailsWith(t)
     \/ s \notin attached /\ Raises(t)
  /\ UNCHANGED <<mainVars, clientVars, server, id, got, serverVars>>

\* A write reaches a process that is there and whose stdin is open.
Writable(s) == s \in attached /\ s \notin hungUp /\ process[s] = "up"

NewId(s) == nextId' = [nextId EXCEPT ![s] = @ + 1]

\* Request n of the thread has reached the server's pipe.
Asks(t, n) ==
  inbox' = [inbox EXCEPT ![server[t]] = @ \cup {<<n, <<t, Len(got[t]) + 1>>>>}]

\* With the lock: a fresh id, and the request is written.  A call's arguments
\* may be more than the pipe has room for: write() then waits for the server to
\* read, with the lock held.  The lines of the handshake are short.
Write(t) ==
  LET s == server[t] IN
  /\ pc[t] = "lock" /\ lock[s] = Nobody
  /\ NewId(s)
  /\ IF Writable(s)
     THEN /\ lock' = [lock EXCEPT ![s] = t]
          /\ id' = [id EXCEPT ![t] = nextId[s]]
          /\ \/ GoTo(t, "read") /\ Asks(t, nextId[s])
             \/ t \in Calls /\ GoTo(t, "write") /\ UNCHANGED inbox
     ELSE Raises(t) /\ UNCHANGED <<lock, id, inbox>>
  /\ UNCHANGED <<mainVars, attached, hungUp, server, got, process, wire, extra>>

\* Mutant: a request that fails keeps the lock.
Release_OnResult(t) ==
  /\ lock' = IF how'[t] = "error" THEN lock ELSE [lock EXCEPT ![server[t]] = Nobody]
  /\ id' = [id EXCEPT ![t] = 0]

\* The end of the with block.
Release(t) == lock' = [lock EXCEPT ![server[t]] = Nobody] /\ id' = [id EXCEPT ![t] = 0]

\* Mutant: the next line that has an id is the answer.
Matches_AnyId(line, t) == line.id # 0

Matches(line, t) == line.id = id[t]

\* What follows a result: the handshake goes on, or the call has its answer.
Goes(t) ==
  \/ t \in Servers /\ Len(got[t]) = 0 /\ GoTo(t, "notify")
  \/ t \in Servers /\ Len(got[t]) = 1 /\ GoTo(t, "register")
  \/ t \in Calls /\ pc' = [pc EXCEPT ![t] = "over"] /\ how' = [how EXCEPT ![t] = "answered"]

\* The server is gone while the request is being written: BrokenPipeError.
WriteFails(t) ==
  /\ pc[t] = "write" /\ process[server[t]] # "up"
  /\ Raises(t) /\ Release(t)
  /\ UNCHANGED <<mainVars, attached, hungUp, nextId, server, got, serverVars>>

\* One line is read.  A request of the server's own passes for an answer if the
\* id is the same.  Whether the deadline has passed is looked at only when a
\* line has come that is not the answer.
Read(t) ==
  LET s == server[t] IN
  /\ pc[t] = "read" /\ wire[s] # <<>>
  /\ wire' = [wire EXCEPT ![s] = Tail(@)]
  /\ LET line == Head(wire[s]) IN
     \/ /\ line.kind = "odd"
        /\ Raises(t) /\ Release(t) /\ UNCHANGED got
     \/ /\ line.kind # "odd" /\ Matches(line, t)
        /\ IF line.kind = "error"
           THEN FailsWith(t) /\ UNCHANGED got
           ELSE Goes(t) /\ got' = [got EXCEPT ![t] = Append(@, line.answers)]
        /\ Release(t)
     \/ /\ line.kind # "odd" /\ ~Matches(line, t)
        /\ \/ FailsWith(t) /\ Release(t)
           \/ s \in attached /\ UNCHANGED <<pc, how, lock, id>>
           \/ s \notin attached /\ Raises(t) /\ Release(t)
        /\ UNCHANGED got
  /\ UNCHANGED <<mainVars, attached, hungUp, nextId, server, process, inbox, extra>>

\* readline() returns nothing: the server is gone.  Or close() has taken the
\* process away before readline() was called.
ReadEnd(t) ==
  LET s == server[t] IN
  /\ pc[t] = "read"
  /\ \/ wire[s] = <<>> /\ process[s] = "ended" /\ FailsWith(t)
     \/ s \notin attached /\ Raises(t)
  /\ Release(t)
  /\ UNCHANGED <<mainVars, attached, hungUp, nextId, server, got, serverVars>>

\* notifications/initialized, and on to tools/list.
Notify(s) ==
  /\ pc[s] = "notify"
  /\ IF Writable(s) THEN GoTo(s, "enter") ELSE Raises(s)
  /\ UNCHANGED <<mainVars, clientVars, server, id, got, serverVars>>

\* The end of _start_one: the client, its tools, and the report.
Register(s) ==
  /\ pc[s] = "register"
  /\ clients' = clients \cup {s} /\ ready' = ready \cup {s}
  /\ pc' = [pc EXCEPT ![s] = "over"] /\ how' = [how EXCEPT ![s] = "answered"]
  /\ UNCHANGED <<main, joined, failed, closing, size, clientVars, server, id, got, serverVars>>

\* _start_one's except: the report, and close(), which ends the process.
Fail(s) ==
  /\ pc[s] = "fail"
  /\ failed' = failed \cup {s}
  /\ attached' = attached \ {s}
  /\ process' = [process EXCEPT ![s] = IF @ = "up" THEN "ended" ELSE @]
  /\ inbox' = [inbox EXCEPT ![s] = {}]
  /\ pc' = [pc EXCEPT ![s] = "over"] /\ how' = [how EXCEPT ![s] = "error"]
  /\ UNCHANGED <<main, joined, ready, clients, closing, size, hungUp, nextId, lock, server, id, got,
                 wire, extra>>

-----------------------------------------------------------------------------
(* The main thread.                                                        *)

\* Mutant: whoever has not been waited for to the end counts as started.
Late_Never(s) == FALSE

Late(s) == pc[s] # "over"

\* Mutant: it waits as long as it takes.
Join_NoTimeout(s) ==
  /\ main = "starting" /\ s \notin joined /\ pc[s] = "over"
  /\ joined' = joined \cup {s}
  /\ UNCHANGED <<main, ready, failed, clients, closing, size, clientVars, threadVars, serverVars>>

\* start_all waits for the next thread, to its end or for a time.
Join(s) ==
  /\ main = "starting" /\ s \notin joined
  /\ joined' = joined \cup {s}
  /\ failed' = IF Late(s) THEN failed \cup {s} ELSE failed
  /\ UNCHANGED <<main, ready, clients, closing, size, clientVars, threadVars, serverVars>>

StartAllReturns ==
  /\ main = "starting" /\ joined = Servers
  /\ main' = "serving"
  /\ UNCHANGED <<joined, ready, failed, clients, closing, size, clientVars, threadVars, serverVars>>

\* The harness runs a call in a thread; an interrupted turn leaves it there.
Call(c, s) ==
  /\ main = "serving" /\ pc[c] = "off" /\ s \in clients
  /\ server' = [server EXCEPT ![c] = s]
  /\ GoTo(c, "enter")
  /\ UNCHANGED <<mainVars, clientVars, id, got, serverVars>>

CloseAll ==
  /\ main = "serving"
  /\ main' = "closing" /\ closing' = clients /\ size' = Cardinality(clients)
  /\ UNCHANGED <<joined, ready, failed, clients, clientVars, threadVars, serverVars>>

\* The loop over the dictionary goes on only if its size has not changed.
Iterates == main = "closing" /\ closing \cap hungUp = {} /\ Cardinality(clients) = size

\* A call that is in the middle of writing to the server.
Writing(s) == \E c \in Calls : pc[c] = "write" /\ server[c] = s

\* close(): the server's stdin, ...  Closing the stream waits, without a limit,
\* for the write that another thread is in.
HangUp(s) ==
  /\ Iterates /\ s \in closing /\ ~Writing(s)
  /\ hungUp' = hungUp \cup {s}
  /\ UNCHANGED <<mainVars, attached, nextId, lock, threadVars, serverVars>>

\* Mutant: a server that does not end by itself is left alone.
Killed_Not(s) == process[s]

Killed(s) == "ended"

\* ... then two seconds for the process to end, or kill().
Close(s) ==
  /\ main = "closing" /\ s \in closing \cap hungUp
  /\ process' = [process EXCEPT ![s] = Killed(s)]
  /\ inbox' = [inbox EXCEPT ![s] = {}]
  /\ attached' = attached \ {s} /\ closing' = closing \ {s}
  /\ UNCHANGED <<main, joined, ready, failed, clients, size, hungUp, nextId, lock, threadVars,
                 wire, extra>>

CloseAllReturns ==
  /\ Iterates /\ closing = {}
  /\ main' = "closed" /\ clients' = {}
  /\ UNCHANGED <<joined, ready, failed, closing, size, clientVars, threadVars, serverVars>>

\* RuntimeError: dictionary changed size during iteration.
CloseAllRaises ==
  /\ main = "closing" /\ closing \cap hungUp = {} /\ Cardinality(clients) # size
  /\ main' = "raised"
  /\ UNCHANGED <<joined, ready, failed, clients, closing, size, clientVars, threadVars, serverVars>>

-----------------------------------------------------------------------------
(* The servers.                                                            *)

Says(s, line) == wire' = [wire EXCEPT ![s] = Append(@, line)]

\* The server reads what was waiting for room in the pipe.
Written(c) ==
  /\ pc[c] = "write" /\ process[server[c]] = "up"
  /\ Asks(c, id[c])
  /\ GoTo(c, "read")
  /\ UNCHANGED <<mainVars, clientVars, server, id, got, process, wire, extra>>

Answer(s) ==
  /\ process[s] = "up"
  /\ \E r \in inbox[s], kind \in {"result", "error"} :
       /\ inbox' = [inbox EXCEPT ![s] = @ \ {r}]
       /\ Says(s, [kind |-> kind, id |-> r[1], answers |-> r[2]])
  /\ UNCHANGED <<mainVars, clientVars, threadVars, process, extra>>

SayMore(s) ==
  /\ process[s] = "up" /\ extra < MaxExtra
  /\ extra' = extra + 1
  /\ \/ \E kind \in {"note", "odd"} : Says(s, [kind |-> kind, id |-> 0, answers |-> NoRequest])
     \/ \E n \in OwnIds : Says(s, [kind |-> "ask", id |-> n, answers |-> NoRequest])
  /\ UNCHANGED <<mainVars, clientVars, threadVars, process, inbox>>

End(s) ==
  /\ process[s] = "up"
  /\ process' = [process EXCEPT ![s] = "ended"]
  /\ inbox' = [inbox EXCEPT ![s] = {}]
  /\ UNCHANGED <<mainVars, clientVars, threadVars, wire, extra>>

-----------------------------------------------------------------------------
ThreadStep(t) ==
  \/ Enter(t) \/ Write(t) \/ WriteFails(t) \/ Read(t) \/ ReadEnd(t)
  \/ t \in Servers /\ (Spawn(t) \/ Notify(t) \/ Register(t) \/ Fail(t))

MainStep ==
  \/ \E s \in Servers : Join(s) \/ HangUp(s) \/ Close(s)
  \/ StartAllReturns \/ CloseAllReturns \/ CloseAllRaises

Next ==
  \/ \E t \in Threads : ThreadStep(t)
  \/ MainStep
  \/ CloseAll
  \/ \E c \in Calls, s \in Servers : Call(c, s)
  \/ \E c \in Calls : Written(c)
  \/ \E s \in Servers : Answer(s) \/ SayMore(s) \/ End(s)

Spec == Init /\ [][Next]_vars

\* Threads run, and join() and wait() have timeouts.  Nothing of the servers,
\* which need not even read: not Written, and so not HangUp either while a call
\* writes.
Fairness == WF_vars(MainStep) /\ \A t \in Threads : WF_vars(ThreadStep(t))

FairSpec == Spec /\ Fairness
=============================================================================
