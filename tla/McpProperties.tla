--------------------------- MODULE McpProperties ---------------------------
(* What is claimed of Mcp.tla.                                              *)
EXTENDS Mcp

\* What a thread takes for the answer to its n-th request answers that very
\* request, also when earlier ones were given up and answered late, and calls
\* share the pipe; the only other thing it may be is a request of the server's
\* own that carries the same id.
AnswersAreTheirs ==
  \A t \in Threads : \A n \in DOMAIN got[t] : got[t][n] \in {<<t, n>>, NoRequest}

\* When start_all has returned, every server is reported as ready or as failed,
\* or its thread died of another exception.  One reported as ready has answered
\* both requests; it may be reported as failed too if it was late.
StartupReported ==
  /\ main # "starting" => \A s \in Servers : s \in ready \cup failed \/ how[s] = "raised"
  /\ \A s \in ready : Len(got[s]) = 2 /\ how[s] = "answered"

\* After close_all no server is left running, except one whose start was not
\* over when closing began or died, and unless close_all itself was broken off.
NothingLeftRunning ==
  main = "closed" => \A s \in Servers :
    process[s] = "up" => s \notin hungUp /\ (s \in failed \/ how[s] = "raised")

-----------------------------------------------------------------------------
(* Under FairSpec.                                                         *)

\* A server that is up reads what it is sent, sooner or later.
ServersRead == \A c \in Calls : WF_vars(Written(c))

\* Whatever the servers do, start_all returns.  So does close_all (or it
\* raises), whatever is running beside it, if the servers read what they are
\* sent: close() has a limit for the process to end, not for the closing of its
\* stdin, which waits for a call that is writing.
MainComesBack ==
  /\ main = "starting" ~> main # "starting"
  /\ ServersRead => (main = "closing" ~> main # "closing")

\* If every server reads and answers what it is asked, every call ends: the lock
\* goes from call to call, also past those that failed.
CallsEnd == (ServersRead /\ \A s \in Servers : WF_vars(Answer(s))) =>
  \A c \in Calls : pc[c] # "off" ~> pc[c] = "over"

=============================================================================
