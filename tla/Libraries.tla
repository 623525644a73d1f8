----------------------------- MODULE Libraries -----------------------------
(***************************************************************************)
(* Four libraries of the kernel, each run on its own: a behaviour locates  *)
(* the chunks of a patch (s05), or decides command lines (s09), or looks   *)
(* for a session's instructions (s12), or sends a turn past its hooks      *)
(* (s14).  What it does not run stays as it is.                            *)
(***************************************************************************)
EXTENDS ChunksProperties

CONSTANTS
  Plain, Paths, Basename(_), RuleFiles, LineLimit, MaxRules, \* s09
  Depth, NoteContents,                                      \* s12
  HookFiles, MaxSize, Plans                                 \* s14

VARIABLES policy, line, readable, tree, config, at, queue, outcome, plan, transcript, answers

chunksVars == <<content, chunks>>
policyVars == <<policy, line, readable>>
hooksVars  == <<config, at, queue, outcome, plan, transcript, answers>>

Policy  == INSTANCE ExecPolicy WITH MaxTokens <- LineLimit
Session == INSTANCE Notes WITH Contents <- NoteContents
Turn    == INSTANCE Hooks

-----------------------------------------------------------------------------
NoChunks == content = (CHOOSE c \in Contents : TRUE) /\ chunks = <<>>
NoPolicy == policy = Policy!PolicyError /\ line = <<>> /\ readable = TRUE
NoTree   == tree = [personal |-> "absent", dirs |-> <<>>]
NoTurn   == /\ config = Turn!Load(Turn!NoFile) /\ outcome = Turn!Fresh(config)
            /\ at = "over" /\ queue = <<>> /\ plan = <<>> /\ transcript = <<>> /\ answers = <<>>

LibrariesInit ==
  \/ Init /\ NoPolicy /\ NoTree /\ NoTurn
  \/ Policy!Init /\ NoChunks /\ NoTree /\ NoTurn
  \/ Session!Init /\ NoChunks /\ NoPolicy /\ NoTurn
  \/ Turn!Init /\ NoChunks /\ NoPolicy /\ NoTree

LibrariesNext ==
  \/ NoPolicy /\ NoTree /\ NoTurn /\ Next /\ UNCHANGED <<policyVars, tree, hooksVars>>
  \/ Policy!Next /\ UNCHANGED <<chunksVars, tree, hooksVars>>
  \/ ~NoTree /\ Session!Next /\ UNCHANGED <<chunksVars, policyVars, hooksVars>>
  \/ Turn!Next /\ UNCHANGED <<chunksVars, policyVars, tree>>

LibrariesSpec == LibrariesInit /\ [][LibrariesNext]_<<chunksVars, policyVars, tree, hooksVars>>

\* The properties of the instances, under their own names; they are stated and explained there.
VerdictIsStrictest     == Policy!VerdictIsStrictest
AmendmentLoosensItsOwn == Policy!AmendmentLoosensItsOwn
NotesAreTheProjects    == Session!NotesAreTheProjects
OnlyUnopposedCallsRun  == Turn!OnlyUnopposedCallsRun
ContextArrivesBounded  == Turn!ContextArrivesBounded
=============================================================================
