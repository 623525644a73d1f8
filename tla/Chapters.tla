------------------------------ MODULE Chapters ------------------------------
(***************************************************************************)
(* Five chapters that have a loop of their own, one per behaviour: what a  *)
(* turn is told (s03, around the loop of s01), the registry (s04), the     *)
(* approvals (s08), the two queues (s02), and a conversation that is       *)
(* compacted (s11).  A variable that two of them have is the one of the    *)
(* chapter that runs; the others stay as they are.                         *)
(***************************************************************************)
EXTENDS WorldState

CONSTANTS
  Configs, Writes, RecordLimit,            \* s04
  Turns, CallIds, CmdOf, Trusted, MaxQueue,  \* s08
  MaxSubs, MaxCalls,                       \* s02, with MaxQueue
  CharsPerToken, Overhead, MaxTokens, Threshold, Trees, Shapes, Sizes, MaxSaid, DialogueLimit \* s11

VARIABLES
  chapter,                                              \* which one runs
  config, record, stage, items, todo, plan,             \* s04
  approval_policy, sandboxes, submissions, listening,   \* s08
  active, pc, made, cancelled, futures, approved, asked, answers, ran,
  sent, newest, phases, pending, said,                  \* s02, with some of s08's
  tree, start, dialogue, place, open, uttered, compacted \* s11

worldVars    == vars
registryVars == <<config, record, stage, items, plan>>
approvalVars == <<approval_policy, sandboxes, active, pc, made, futures, approved, asked, answers, ran>>
threadVars   == <<submissions, listening, cancelled>>
protocolVars == <<sent, newest, phases, pending, said>>
contextVars  == <<tree, start, dialogue, place, open, uttered, compacted>>
chapterVars  == <<chapter, worldVars, registryVars, todo, approvalVars, threadVars, protocolVars, contextVars>>

-----------------------------------------------------------------------------
Registered == INSTANCE Registry WITH history <- record, phase <- stage, MaxItems <- RecordLimit
Approvals  == INSTANCE Approval WITH Calls <- CallIds
Queues     == INSTANCE Protocol WITH active <- newest, pc <- phases
Conversation == INSTANCE ContextProperties WITH
  history <- dialogue, phase <- place, calls <- open, said <- uttered, MaxItems <- DialogueLimit

-----------------------------------------------------------------------------
None == <<>>

NoWorld ==
  /\ history = None /\ phase = "idle" /\ calls = None /\ today = None /\ defaults = None
  /\ last = None /\ turn = None /\ turns = None
NoRegistry == config = None /\ record = None /\ stage = None /\ items = None /\ plan = None
NoApproval ==
  /\ approval_policy = None /\ sandboxes = None /\ active = None /\ pc = None /\ made = None
  /\ futures = None /\ approved = None /\ asked = None /\ answers = None /\ ran = None
NoThread   == submissions = None /\ listening = None /\ cancelled = None
NoProtocol == sent = 0 /\ newest = 0 /\ phases = [t \in 1 .. MaxSubs |-> "none"] /\ pending = None /\ said = None
NoContext  ==
  /\ tree = None /\ start = None /\ dialogue = None /\ place = None /\ open = None
  /\ uttered = None /\ compacted = None

ChaptersInit ==
  \/ /\ chapter = "s03" /\ Init
     /\ NoRegistry /\ NoApproval /\ NoThread /\ NoProtocol /\ NoContext /\ todo = None
  \/ /\ chapter = "s04" /\ Registered!Init
     /\ NoWorld /\ NoApproval /\ NoThread /\ NoProtocol /\ NoContext
  \/ /\ chapter = "s08" /\ Approvals!Init
     /\ NoWorld /\ NoRegistry /\ NoProtocol /\ NoContext
  \/ /\ chapter = "s02" /\ Queues!Init
     /\ NoWorld /\ NoRegistry /\ NoApproval /\ NoContext
  \/ /\ chapter = "s11" /\ Conversation!Init
     /\ NoWorld /\ NoRegistry /\ NoApproval /\ NoThread /\ NoProtocol /\ todo = None

ChaptersNext ==
  /\ UNCHANGED chapter
  /\ \/ /\ chapter = "s03" /\ Next
        /\ UNCHANGED <<registryVars, todo, approvalVars, threadVars, protocolVars, contextVars>>
     \/ /\ chapter = "s04" /\ Registered!Next
        /\ UNCHANGED <<worldVars, approvalVars, threadVars, protocolVars, contextVars>>
     \/ /\ chapter = "s08" /\ Approvals!Next
        /\ UNCHANGED <<worldVars, registryVars, protocolVars, contextVars>>
     \/ /\ chapter = "s02" /\ Queues!Next
        /\ UNCHANGED <<worldVars, registryVars, approvalVars, contextVars>>
     \/ /\ chapter = "s11" /\ Conversation!Next
        /\ UNCHANGED <<worldVars, registryVars, todo, approvalVars, threadVars, protocolVars>>

ChaptersSpec == ChaptersInit /\ [][ChaptersNext]_chapterVars

\* The properties of the instances, each of its chapter; they are stated and explained there.
EveryCallAnswered == chapter = "s04" => Registered!EveryCallAnswered
ConsentIsTheUsers == chapter = "s08" => Approvals!ConsentIsTheUsers
ThreadSteers      == Queues!ThreadSteers
KeepsNewestRequests    == chapter = "s11" => Conversation!KeepsNewestRequests
CompactionUsesItsBudget == chapter = "s11" => Conversation!CompactionUsesItsBudget
LeadingBlocksSurvive   == chapter = "s11" => Conversation!LeadingBlocksSurvive
KeepsSessionPrefix     == chapter = "s11" => Conversation!KeepsSessionPrefix
=============================================================================
