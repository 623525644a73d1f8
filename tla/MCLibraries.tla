---------------------------- MODULE MCLibraries ----------------------------
(***************************************************************************)
(* Small instances of four libraries of the kernel.                        *)
(***************************************************************************)
EXTENDS Libraries

-----------------------------------------------------------------------------
(* Short files and patches of short chunks.                                 *)
\* Two texts, one of them also with trailing white space; x marks what is new.
SomeTexts == {"", "a", "b", "x"}
Loose     == [Bare("a") EXCEPT !.trail = TRUE]
Lines     == {Bare("a"), Bare("b"), Loose}
ShortSeqs(set, n) == BoundedSeq(set, n)

SomeContents ==
  { Text(lines, newline) : lines \in ShortSeqs(Lines, 3) \ {<<>>}, newline \in {TRUE} }
    \cup { Text(<<Bare("")>>, FALSE), Text(<<Bare("")>>, TRUE), Text(<<Bare("a")>>, FALSE) }

SomeChunks ==
  { Chunk(context, old, <<Bare("x")>>, eof) :
      context \in {NoContext, Bare("a")}, old \in ShortSeqs({Bare("a"), Bare("b")}, 2), eof \in BOOLEAN }
    \cup { Chunk(NoContext, <<Bare("a")>>, <<>>, FALSE), Chunk(NoContext, <<Loose>>, <<>>, TRUE) }

-----------------------------------------------------------------------------
(* Three policies that load: rules of equal length that disagree, a longer  *)
(* rule against a shorter one, a rule for a path, a host declared twice.    *)
(* And five rule files that are refused.                                    *)
Rule(pattern, decision) ==
  [kind |-> "prefix_rule", pattern |-> pattern, decision |-> decision, match |-> {}, not_match |-> {}]
Examples(rule, match, notMatch) == [rule EXCEPT !.match = match, !.not_match = notMatch]
Hosts(paths) == [kind |-> "host_executable", name |-> "git", paths |-> paths]

AnyGit  == Rule(<<{"git"}>>, "forbidden")
GitRead == Rule(<<{"git"}, {"log", "push"}>>, "default")
GitPush == Rule(<<{"git"}, {"push"}>>, "prompt")
PushLog == Rule(<<{"git"}, {"push"}, {"log"}>>, "forbidden")

SomeRuleFiles ==
  { <<AnyGit, GitRead, GitPush, Hosts({"/usr/bin/git"})>>,
    <<GitPush, GitRead, Examples(PushLog, {<<"git", "push", "log">>}, {<<"git", "log">>})>>,
    <<Hosts({"/usr/bin/git"}), Rule(<<{"/usr/bin/git", "log"}>>, "prompt"), Rule(<<{"git"}>>, "allow"), GitPush,
      Hosts({"/tmp/git"})>>,
    <<GitRead, [kind |-> "unknown"]>>, <<Rule(<<>>, "allow")>>, <<Rule(<<{"git"}>>, "deny")>>,
    <<Examples(AnyGit, {<<"log">>}, {})>>, <<Examples(AnyGit, {}, {<<"git", "log">>})>> }

Git(path) == "git"

-----------------------------------------------------------------------------
(* No file, one that is no JSON, and files with every matcher, an entry     *)
(* that is no hook, an event nobody knows, and hooks on every event.        *)
Hook(limit) == [name |-> "hook", limit |-> limit]
Group(matcher, hooks) == [matcher |-> matcher, hooks |-> hooks]
All(hooks) == <<Group({"no matcher"}, hooks)>>

SomeHookFiles ==
  { [broken |-> b, hooks |-> <<>>] : b \in BOOLEAN }
    \cup { [broken |-> FALSE, hooks |-> h] : h \in
             { [PreToolUse |-> <<Group({"exec"}, <<Hook(0), Hook(1)>>), Group({"invalid"}, <<Hook(1)>>)>>
                                 \o All(<<[limit |-> 0]>>),
                PreTool |-> All(<<Hook(1)>>),
                PostToolUse |-> <<Group({"exec"}, <<Hook(1)>>)>>],
               [SessionStart |-> <<Group({"startup"}, <<Hook(1)>>)>>,
                UserPromptSubmit |-> All(<<[limit |-> 0], Hook(0)>>),
                PreToolUse |-> <<Group({"read"}, <<Hook(1)>>)>>],
               [UserPromptSubmit |-> All(<<Hook(1)>>),
                Stop |-> <<Group({"exec"}, <<Hook(1)>>)>> \o All(<<Hook(1)>>),
                SessionEnd |-> All(<<Hook(1)>>)] } }

SomePlans == {<<"exec", "read">>}

ASSUME FilesAssumption == Turn!FilesTyped /\ PatchesTyped /\ Policy!RuleFilesTyped
=============================================================================
