------------------------------ MODULE Steering ------------------------------
(***************************************************************************)
(* What a thread promises about the messages it accepts, whatever happens  *)
(* to its turns: a message waits, and then is said to the model once or is *)
(* refused, and never both; while a turn is open no other one opens.       *)
(***************************************************************************)
EXTENDS Integers, Sequences, Functions

CONSTANTS Messages, Marker  \* Marker: the note an interruption leaves, not a message

VARIABLES
  conversation, \* what the model has been told, in order
  waiting,      \* accepted, and not said yet
  refused,      \* accepted, and never to be said
  open          \* the message whose turn is open, or Marker

vars == <<conversation, waiting, refused, open>>

TypeOK ==
  /\ conversation \in Seq(Messages \cup {Marker})
  /\ waiting \subseteq Messages /\ refused \subseteq Messages
  /\ open \in Messages \cup {Marker}

Init ==
  /\ conversation = <<>> /\ waiting = {} /\ refused = {} /\ open = Marker

Fresh(m) == m \notin Range(conversation) \cup waiting \cup refused

\* A message is accepted.  It opens a turn if none is open.
Accept(m) ==
  /\ Fresh(m)
  /\ waiting' = waiting \cup {m}
  /\ open' = IF open = Marker THEN m ELSE open
  /\ UNCHANGED <<conversation, refused>>

\* Waiting messages are said, each once.  Only an open turn speaks, and its
\* own message comes no later than any it says.
Say ==
  LET new == SubSeq(conversation', Len(conversation) + 1, Len(conversation')) IN
  /\ open # Marker
  /\ Len(conversation') > Len(conversation)
  /\ conversation' = conversation \o new
  /\ IsInjective(new) /\ Range(new) \subseteq waiting
  /\ open \in Range(conversation')
  /\ waiting' = waiting \ Range(new)
  /\ UNCHANGED <<refused, open>>

\* The open turn ends, with or without a note that it was interrupted.
Close ==
  /\ open # Marker /\ open \notin waiting
  /\ open' = Marker
  /\ conversation' \in {conversation, Append(conversation, Marker)}
  /\ UNCHANGED <<waiting, refused>>

\* The open turn ends without having said anything: its message is refused.
Refuse ==
  /\ open \in waiting
  /\ waiting' = waiting \ {open}
  /\ refused' = refused \cup {open}
  /\ open' = Marker
  /\ UNCHANGED conversation

\* The open turn ends because a message could not be recorded: some of those it
\* had taken in hand are said, its own among them at the latest, others refused.
Break ==
  LET new == SubSeq(conversation', Len(conversation) + 1, Len(conversation')) IN
  /\ open # Marker
  /\ Len(conversation') > Len(conversation)
  /\ conversation' = conversation \o new
  /\ IsInjective(new) /\ Range(new) \subseteq waiting
  /\ open \in Range(conversation')
  /\ \E dropped \in SUBSET (waiting \ Range(new)) :
       /\ waiting' = waiting \ (Range(new) \cup dropped)
       /\ refused' = refused \cup dropped
  /\ open' = Marker

Next == (\E m \in Messages : Accept(m)) \/ Say \/ Close \/ Refuse \/ Break

Spec == Init /\ [][Next]_vars

\* A message is in one place only, and once.
OncePerMessage ==
  /\ waiting \cap refused = {}
  /\ Range(conversation) \cap (waiting \cup refused) = {}
  /\ \A i, j \in DOMAIN conversation :
       conversation[i] = conversation[j] /\ conversation[i] # Marker => i = j
=============================================================================
