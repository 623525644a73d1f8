----------------------------- MODULE ExecPolicy -----------------------------
(***************************************************************************)
(* The exec policy (s09): what a command line may do without asking.       *)
(*                                                                         *)
(* A line is the sequence of tokens shlex makes of it; readable says that  *)
(* shlex could, and that it holds no substitution.  The machine loads a    *)
(* rule file, types a line one token at a time, and writes "always allow"  *)
(* rules back.                                                             *)
(***************************************************************************)
EXTENDS Naturals, Sequences, SequencesExt, Selection

CONSTANTS
  Plain,       \* tokens without a slash
  Paths,       \* tokens with one
  Basename(_), \* the last component of a path, a member of Plain
  RuleFiles,   \* the rule files: sequences of declarations
  MaxTokens,   \* bound on the tokens of a line
  MaxRules     \* bound on the rules of a policy

Operator  == "operator" \* one of && || ; | &
Words     == Plain \cup Paths
Severity  == [allow |-> 0, prompt |-> 1, forbidden |-> 2]
Decisions == DOMAIN Severity
NoRule    == [pattern |-> <<>>, decision |-> "none"]

\* What a rule file may hold: the two declarations, and anything else.
PrefixRule(pattern, decision, match, notMatch) ==
  [kind |-> "prefix_rule", pattern |-> pattern, decision |-> decision, match |-> match, not_match |-> notMatch]
HostExecutable(name, paths) == [kind |-> "host_executable", name |-> name, paths |-> paths]
Unknown == [kind |-> "unknown"]

Matches(rule, tokens) ==
  /\ Len(tokens) >= Len(rule.pattern)
  /\ \A i \in DOMAIN rule.pattern : tokens[i] \in rule.pattern[i]

\* Mutant: the first rule that matches is kept.
Outranks_FirstWins(r, best) == best = NoRule

\* r replaces the best rule found so far: it is longer, or as long and stricter.
Outranks(r, best) ==
  \/ best = NoRule
  \/ Len(r.pattern) > Len(best.pattern)
  \/ Len(r.pattern) = Len(best.pattern) /\ Severity[r.decision] > Severity[best.decision]

Best(rules, view) ==
  LET best[n \in 0 .. Len(rules)] ==
        IF n = 0 THEN NoRule
        ELSE IF Matches(rules[n], view) /\ Outranks(rules[n], best[n - 1]) THEN rules[n] ELSE best[n - 1]
  IN  best[Len(rules)]

\* A path is vouched for when its name is not declared, or it is one of the declared paths.
Vouched(host, path) == Basename(path) \in DOMAIN host => path \in host[Basename(path)]

TokenViews(policy, tokens) ==
  IF tokens[1] \in Paths /\ Vouched(policy.host, tokens[1])
  THEN <<tokens, <<Basename(tokens[1])>> \o Tail(tokens)>>
  ELSE <<tokens>>

\* The first view that a rule matches decides.
DecideTokens(policy, tokens) ==
  LET views == TokenViews(policy, tokens)
      hits  == { i \in DOMAIN views : Best(policy.rules, views[i]) # NoRule }
  IN  IF hits = {} THEN "prompt" ELSE Best(policy.rules, views[Min(hits)]).decision

\* The commands of a line: the runs of tokens between operators, none of them empty.
SplitSegments(tokens) ==
  LET runs[n \in 0 .. Len(tokens)] ==
        IF n = 0 THEN << <<>> >>
        ELSE IF tokens[n] = Operator THEN Append(runs[n - 1], <<>>)
        ELSE Append(Front(runs[n - 1]), Append(Last(runs[n - 1]), tokens[n]))
      all == runs[Len(tokens)]
  IN  Selected(all, { i \in DOMAIN all : all[i] # <<>> })

Worse(a, b) == IF Severity[b] > Severity[a] THEN b ELSE a

Evaluate(policy, tokens, legible) ==
  LET segments == IF legible THEN SplitSegments(tokens) ELSE <<>>
      worst[n \in 0 .. Len(segments)] ==
        IF n = 0 THEN "allow" ELSE Worse(worst[n - 1], DecideTokens(policy, segments[n]))
  IN  IF segments = <<>> THEN "prompt" ELSE worst[Len(segments)]

(***************************************************************************)
(* Loading                                                                 *)
(***************************************************************************)
PolicyError == [error |-> TRUE]

\* _build_rule: a pattern that is not empty, a decision that is known (none given: allow).
Buildable(d) == d.pattern # <<>> /\ d.decision \in Decisions \cup {"default"}

BuildRule(d) ==
  [pattern |-> d.pattern, decision |-> IF d.decision = "default" THEN "allow" ELSE d.decision]

\* _validate_examples: each rule against its own examples, whatever the other rules say.
ExamplesHold(d) ==
  /\ \A example \in d.match : Matches(BuildRule(d), example)
  /\ \A example \in d.not_match : ~Matches(BuildRule(d), example)

ParsePolicy(declarations) ==
  LET all   == ToSet(declarations)
      rules == Selected(declarations, { i \in DOMAIN declarations : declarations[i].kind = "prefix_rule" })
      hosts == SelectSeq(declarations, LAMBDA d : d.kind = "host_executable")
      names == { d.name : d \in ToSet(hosts) }
      last(name) == SelectLastInSeq(hosts, LAMBDA d : d.name = name)
  IN  IF \/ Unknown \in all
         \/ \E d \in ToSet(rules) : ~Buildable(d) \/ ~ExamplesHold(d)
      THEN PolicyError
      ELSE [rules |-> [i \in DOMAIN rules |-> BuildRule(rules[i])],
            host  |-> [name \in names |-> hosts[last(name)].paths]]

\* What the theorems assume: a rule file is a sequence, and a pattern one of sets of words.
RuleFilesTyped ==
  \A file \in RuleFiles :
    /\ file \in Seq(ToSet(file))
    /\ \A d \in ToSet(file) : d.kind = "prefix_rule" => d.pattern \in Seq(SUBSET Words)

(***************************************************************************)
(* The machine                                                             *)
(***************************************************************************)
VARIABLES
  policy,   \* the loaded policy, or PolicyError: the program does not start
  line,     \* the line typed so far
  readable  \* it can be split into words, and holds no substitution

vars == <<policy, line, readable>>

Verdict == Evaluate(policy, line, readable)

Init ==
  /\ \E file \in RuleFiles : policy = ParsePolicy(file)
  /\ line = <<>>
  /\ readable = TRUE

Running == policy # PolicyError

TypeToken(t) ==
  /\ Running /\ Len(line) < MaxTokens
  /\ line' = Append(line, t)
  /\ UNCHANGED <<policy, readable>>

\* An open quote, a substitution, a backtick: never undone by what follows.
Obscure ==
  /\ Running /\ readable
  /\ readable' = FALSE
  /\ UNCHANGED <<policy, line>>

\* Mutant: the rule is about the program, whatever its arguments.
AllowRule_FirstWord(tokens) == [pattern |-> <<{tokens[1]}>>, decision |-> "allow"]

AllowRule(tokens) == [pattern |-> [i \in DOMAIN tokens |-> {tokens[i]}], decision |-> "allow"]

\* "Always allow this" about one segment of the line.
AddPrefixRule(segment) ==
  /\ Running /\ readable /\ Len(policy.rules) < MaxRules
  /\ policy' = [policy EXCEPT !.rules = Append(@, AllowRule(segment))]
  /\ UNCHANGED <<line, readable>>

NewLine ==
  /\ Running /\ line # <<>>
  /\ line' = <<>> /\ readable' = TRUE
  /\ UNCHANGED policy

Next ==
  \/ \E t \in Words \cup {Operator} : TypeToken(t)
  \/ Obscure
  \/ \E segment \in ToSet(SplitSegments(line)) : AddPrefixRule(segment)
  \/ NewLine

Spec == Init /\ [][Next]_vars

(***************************************************************************)
(* Properties                                                              *)
(***************************************************************************)
\* The segments of the line, by position: the maximal runs without an operator.
Runs(tokens) ==
  LET end(i) == i = 0 \/ i = Len(tokens) + 1 \/ tokens[i] = Operator
  IN  { SubSeq(tokens, ij[1], ij[2]) : ij \in
          { ij \in (1 .. Len(tokens)) \X (1 .. Len(tokens)) :
              /\ ij[1] <= ij[2] /\ end(ij[1] - 1) /\ end(ij[2] + 1)
              /\ \A k \in ij[1] .. ij[2] : tokens[k] # Operator } }

\* The verdicts of the longest rules among those that match.
LongestVerdicts(tokens) ==
  LET hits == { r \in ToSet(policy.rules) : Matches(r, tokens) }
  IN  { r.decision : r \in { h \in hits : \A o \in hits : Len(o.pattern) <= Len(h.pattern) } }

BareName(tokens) == <<Basename(tokens[1])>> \o Tail(tokens)

\* One segment's verdict, said without an order of evaluation.
Permits(tokens, decision) ==
  LET named == /\ tokens[1] \in Paths
               /\ Basename(tokens[1]) \in DOMAIN policy.host => tokens[1] \in policy.host[Basename(tokens[1])]
      written == LongestVerdicts(tokens)
      verdicts == IF written = {} /\ named THEN LongestVerdicts(BareName(tokens)) ELSE written
  IN  \/ /\ verdicts = {}
         /\ decision = "prompt"
      \/ /\ decision \in verdicts
         /\ \A d \in verdicts : Severity[d] <= Severity[decision]

\* The verdict of a line is the strictest of its segments', each decided by its longest rules and the
\* strictest of those, under its own name or under a vouched basename; what cannot be read, or has no
\* segment, is asked about (evaluate, decide_tokens, split_segments).
VerdictIsStrictest ==
  Running =>
    LET segments == IF readable THEN Runs(line) ELSE {}
    IN  IF segments = {} THEN Verdict = "prompt"
        ELSE /\ \E s \in segments : Permits(s, Verdict)
             /\ \A s \in segments, d \in Decisions : Permits(s, d) => Severity[d] <= Severity[Verdict]

Begins(s, words) == Len(words) <= Len(s) /\ SubSeq(s, 1, Len(words)) = words

Concerns(words, s) == Begins(s, words) \/ (s[1] \in Paths /\ Begins(BareName(s), words))

Commands == UNION { [1 .. n -> Words] : n \in 1 .. MaxTokens }

LoosensItsOwn(segment) ==
  \A s \in Commands :
    LET old == DecideTokens(policy, s)
        new == DecideTokens(policy', s)
    IN  new = old \/ (new = "allow" /\ Concerns(segment, s))

\* "Always allow this" changes the verdict of no command but those that begin with the allowed words, as
\* written or by a basename, and changes it to "allow": no amendment loosens what the user was not asked
\* about, and none makes anything stricter (add_prefix_rule, decide_tokens).
AmendmentLoosensItsOwn == [][\A segment \in Runs(line) : AddPrefixRule(segment) => LoosensItsOwn(segment)]_vars
=============================================================================
