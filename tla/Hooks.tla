------------------------------- MODULE Hooks -------------------------------
(***************************************************************************)
(* The hooks of a turn (s14): programs of other people on the agent's way. *)
(*                                                                         *)
(* Each program run is one step, whose answer is whatever such a program   *)
(* may do: say something, say nothing of use, hang, not start, exit.       *)
(***************************************************************************)
EXTENDS Naturals, Sequences, FiniteSets, SequencesExt, Selection

CONSTANTS
  HookFiles, \* what hooks.json may be: whether it is broken, and each event's groups
  MaxSize,   \* bound on what a hook adds to the context
  Plans      \* the calls the stubbed model makes: sequences of tool names

Events == {"SessionStart", "SessionEnd", "UserPromptSubmit", "PreToolUse", "PostToolUse", "Stop", "PreCompact",
           "Interrupt", "PermissionRequest", "SubagentStart", "SubagentStop"}
NoFile == [broken |-> FALSE, hooks |-> <<>>]
Broken == [broken |-> TRUE, hooks |-> <<>>]

\* A group: the subjects its regex finds, or no matcher, or an invalid regex; and
\* its entries.  A hook is [name, limit]; an entry that is none has a limit alone.
NoMatcher == {"no matcher"}
Invalid   == {"invalid"}
NotAHook  == [limit |-> 0]

GroupMatches(group, subject) ==
  \/ group.matcher = NoMatcher
  \/ group.matcher # Invalid /\ subject \in group.matcher

\* What the theorems about this module assume of its constants.
Hook  == [name : STRING, limit : Nat] \cup {NotAHook}
Group == [matcher : SUBSET STRING, hooks : Seq(Hook)]

FilesTyped ==
  /\ Plans \subseteq Seq(STRING)
  /\ \A file \in HookFiles : \A event \in DOMAIN file.hooks : file.hooks[event] \in Seq(Group)

(***************************************************************************)
(* HookConfig.load: a broken file or an unknown event is an error entry    *)
(* and no exception.  (JSON of another shape, which raises, is left out.)  *)
(***************************************************************************)
Commands(group) ==
  [group EXCEPT !.hooks = Selected(group.hooks, { i \in DOMAIN group.hooks : group.hooks[i] # NotAHook })]

Kept(groups) ==
  LET commands == [i \in DOMAIN groups |-> Commands(groups[i])]
  IN  Selected(commands, { i \in DOMAIN groups : commands[i].hooks # <<>> })

Load(file) ==
  LET raw     == file.hooks
      kept(e) == Kept(raw[e])
      known   == DOMAIN raw \cap Events
  IN  [groups |-> [e \in { e \in known : kept(e) # <<>> } |-> kept(e)],
       errors |-> IF file.broken THEN 1 ELSE Cardinality(DOMAIN raw \ known)]

Matching(groups, subject) ==
  LET hooks[n \in 0 .. Len(groups)] ==
        IF n = 0 THEN <<>>
        ELSE hooks[n - 1] \o (IF GroupMatches(groups[n], subject) THEN groups[n].hooks ELSE <<>>)
  IN  hooks[Len(groups)]

ForEvent(cfg, event, subject) ==
  IF event \in DOMAIN cfg.groups THEN Matching(cfg.groups[event], subject) ELSE <<>>

(***************************************************************************)
(* What a program may do, and what _run_one and parse_hook_output make of  *)
(* it: a decision, a size of added context, a message, a warning.          *)
(***************************************************************************)
Opinions == [says : {"allow", "deny", "ask", "nothing", "nonsense"}, context : 0 .. MaxSize, message : BOOLEAN]
Answers  == Opinions \cup [says : {"exit 2", "exit 1", "timed out", "not started", "garbage", "malformed"}]

Result(decision, context, message, warning) ==
  [decision |-> decision, context |-> context, message |-> message, warning |-> warning]
NoOpinion == Result("none", 0, FALSE, FALSE)

\* Mutant: what a hook adds is not cut.
RunOne_Unbounded(hook, answer) ==
  IF answer \in Opinions THEN Result(answer.says, answer.context, answer.message, FALSE) ELSE NoOpinion

RunOne(hook, answer) ==
  IF answer \in Opinions
  THEN Result(IF answer.says \in {"allow", "deny", "ask"} THEN answer.says ELSE "none",
              IF answer.context > hook.limit THEN hook.limit ELSE answer.context, answer.message, FALSE)
  ELSE IF answer.says = "exit 2" THEN Result("deny", 0, FALSE, FALSE)
  ELSE [NoOpinion EXCEPT !.warning = answer.says # "garbage"]

(***************************************************************************)
(* turn_with_hooks                                                         *)
(***************************************************************************)
VARIABLES
  config,
  at,         \* the event being answered, or "over", or "raised"
  queue,      \* its hooks that have not run yet
  outcome,    \* its HookOutcome so far
  plan,       \* the calls still to be made, the one at hand first
  transcript, \* what the turn said
  answers     \* what the programs have answered, event by event: for the properties

vars == <<config, at, queue, outcome, plan, transcript, answers>>

Fresh(cfg) == [decision |-> "allow", contexts |-> <<>>, messages |-> 0, warnings |-> cfg.errors]

\* HookRunner.run begins: the hooks of the event are looked up once.
Fire(event, subject) ==
  /\ at' = event
  /\ queue' = ForEvent(config, event, subject)
  /\ outcome' = Fresh(config)
  /\ answers' = Append(answers, [event |-> event, subject |-> subject, due |-> ForEvent(config, event, subject), said |-> <<>>])

Init ==
  /\ \E file \in HookFiles : config = Load(file)
  /\ at = "SessionStart"
  /\ queue = ForEvent(config, "SessionStart", "startup")
  /\ outcome = Fresh(config)
  /\ plan \in Plans
  /\ transcript = <<>>
  /\ answers = <<[event |-> "SessionStart", subject |-> "startup", due |-> queue, said |-> <<>>]>>

\* Mutant: the last hook with an opinion decides.
Absorb_LastWins(o, r) == [o EXCEPT !.decision = IF r.decision = "none" THEN @ ELSE r.decision]

\* One program runs and its answer is added to the outcome; a denial ends the event.
Absorb(o, r) ==
  [decision |-> IF r.decision = "deny" \/ (r.decision = "ask" /\ o.decision = "allow") THEN r.decision ELSE o.decision,
   contexts |-> IF r.context > 0 THEN Append(o.contexts, r.context) ELSE o.contexts,
   messages |-> o.messages + (IF r.message THEN 1 ELSE 0),
   warnings |-> o.warnings + (IF r.warning THEN 1 ELSE 0)]

Note(answer) == answers' = [answers EXCEPT ![Len(answers)].said = Append(@, answer)]

RunHook ==
  /\ queue # <<>>
  /\ \E answer \in Answers :
       /\ answer.says # "malformed"
       /\ LET r == RunOne(Head(queue), answer)
          IN  /\ outcome' = Absorb(outcome, r)
              /\ queue' = IF r.decision = "deny" THEN <<>> ELSE Tail(queue)
       /\ Note(answer)
  /\ UNCHANGED <<config, at, plan, transcript>>

\* JSON whose hookSpecificOutput is no object: specific.get raises, and nothing catches it.
RunHookRaises ==
  /\ queue # <<>>
  /\ at' = "raised" /\ queue' = <<>>
  /\ Note([says |-> "malformed"])
  /\ UNCHANGED <<config, outcome, plan, transcript>>

Injected(event) == [i \in DOMAIN outcome.contexts |-> [kind |-> "context", what |-> event, size |-> outcome.contexts[i]]]
Line(kind, what) == <<[kind |-> kind, what |-> what, size |-> 0]>>

\* The next call goes to its PreToolUse hooks; after the last one the turn stops.
NextCall(calls) == IF calls = <<>> THEN Fire("Stop", "") ELSE Fire("PreToolUse", Head(calls))

SessionStarted ==
  /\ at = "SessionStart" /\ queue = <<>>
  /\ transcript' = transcript \o Injected(at)
  /\ Fire("UserPromptSubmit", "prompt")
  /\ UNCHANGED <<config, plan>>

PromptSubmitted ==
  /\ at = "UserPromptSubmit" /\ queue = <<>>
  /\ \/ /\ outcome.decision = "deny"
        /\ transcript' = transcript \o Line("refused", "prompt")
        /\ at' = "over"
        /\ UNCHANGED <<queue, outcome, answers>>
     \/ /\ outcome.decision # "deny"
        /\ transcript' = transcript \o Injected(at)
        /\ NextCall(plan)
  /\ UNCHANGED <<config, plan>>

\* Denied, escalated to the user, or run: what a call's own hooks said decides.
CallDecided ==
  /\ at = "PreToolUse" /\ queue = <<>>
  /\ LET name == Head(plan)
         said == transcript \o Injected(name)
     IN  \/ /\ outcome.decision \in {"deny", "ask"}
            /\ transcript' = said \o Line(outcome.decision, name)
            /\ plan' = Tail(plan)
            /\ NextCall(Tail(plan))
         \/ /\ outcome.decision = "allow"
            /\ transcript' = said \o Line("ran", name)
            /\ Fire("PostToolUse", name)
            /\ UNCHANGED plan
  /\ UNCHANGED config

\* What PostToolUse hooks say is not looked at.
CallDone ==
  /\ at = "PostToolUse" /\ queue = <<>>
  /\ plan' = Tail(plan)
  /\ NextCall(Tail(plan))
  /\ UNCHANGED <<config, transcript>>

Stopped ==
  /\ at = "Stop" /\ queue = <<>>
  /\ transcript' = transcript \o [i \in 1 .. outcome.messages |-> Line("system", "Stop")[1]]
  /\ Fire("SessionEnd", "")
  /\ UNCHANGED <<config, plan>>

SessionEnded ==
  /\ at = "SessionEnd" /\ queue = <<>>
  /\ at' = "over"
  /\ UNCHANGED <<config, queue, outcome, plan, transcript, answers>>

Next ==
  \/ RunHook \/ RunHookRaises
  \/ SessionStarted \/ PromptSubmitted \/ CallDecided \/ CallDone \/ Stopped \/ SessionEnded

Spec == Init /\ [][Next]_vars

(***************************************************************************)
(* Properties                                                              *)
(***************************************************************************)
Denies(answer) == answer.says \in {"deny", "exit 2"}

\* The fate of each call, read off the programs' answers: the first PreToolUse hook that denies it stops
\* it and the hooks behind it are not asked; otherwise one that asks leaves it to the user; otherwise every
\* hook has been asked and it runs.  A hook that hangs, fails, or prints what is not the documented shape
\* has no say (HookRunner.run, _run_one).
Fates == Selected(transcript, { i \in DOMAIN transcript : transcript[i].kind \in {"deny", "ask", "ran"} })
Asked == LET decided == Selected(answers, { i \in DOMAIN answers : answers[i].event = "PreToolUse" })
         IN  IF at \in {"PreToolUse", "raised"} /\ Len(decided) > Len(Fates) THEN Front(decided) ELSE decided

OnlyUnopposedCallsRun ==
  /\ Len(Fates) = Len(Asked)
  /\ \A i \in DOMAIN Asked :
       LET said == Asked[i].said
           deniers == { j \in DOMAIN said : Denies(said[j]) }
       IN  /\ Fates[i].what = Asked[i].subject
           /\ Fates[i].kind = IF deniers # {} THEN "deny"
                              ELSE IF \E j \in DOMAIN said : said[j].says = "ask" THEN "ask" ELSE "ran"
           /\ deniers \subseteq {Len(said)}
           /\ deniers = {} => Len(said) = Len(Asked[i].due)

\* What hooks add reaches the conversation once, in the order they ran, a denier's included, each cut to
\* its own limit, and nothing else does; what the hooks of a refused prompt add does not.  What they add
\* after a tool, at the stop or at the end is never shown (turn_with_hooks, additionalContextLimit).
ShownEvents == {"SessionStart", "UserPromptSubmit", "PreToolUse"}

Added(a) ==
  LET size(j) == IF a.said[j].context > a.due[j].limit THEN a.due[j].limit ELSE a.said[j].context
      adding  == { j \in DOMAIN a.said : a.said[j] \in Opinions /\ size(j) > 0 }
  IN  [j \in 1 .. Cardinality(adding) |-> size(SetToSortSeq(adding, <)[j])]

ContextArrivesBounded ==
  LET current == at \in ShownEvents \cup {"raised"}
      refused == \E i \in DOMAIN transcript : transcript[i].kind = "refused"
      shown   == SelectSeq(IF current \/ refused THEN Front(answers) ELSE answers, LAMBDA a : a.event \in ShownEvents)
      context == SelectSeq(transcript, LAMBDA l : l.kind = "context")
  IN  [i \in DOMAIN context |-> context[i].size] = FlattenSeq([i \in DOMAIN shown |-> Added(shown[i])])
=============================================================================
