---------------------------- MODULE Instructions ----------------------------
(***************************************************************************)
(* What a session is told before its first turn (s12): the permissions,    *)
(* the AGENTS.md files, the index of skills.                               *)
(*                                                                         *)
(* A text is what s11 tells apart of it: whose it is, its size, whether it *)
(* opens with "<", and the sizes at which it, cut there, ends with ">".    *)
(***************************************************************************)
EXTENDS Naturals, Sequences, SequencesExt

BlockSize == 3
Block(id) == [id |-> id, size |-> BlockSize, opens |-> TRUE, closings |-> {BlockSize}]

DeveloperItem(text) == [type |-> "message", role |-> "developer", text |-> text]
UserItem(text)      == [type |-> "message", role |-> "user", text |-> text]

(***************************************************************************)
(* A file is absent, or is there and cannot be opened, or is not UTF-8, or *)
(* is blank, or holds something.  _read turns the second into "" and lets  *)
(* the third raise.                                                        *)
(***************************************************************************)
Absent      == "absent"
Undecodable == "undecodable"
Read(file)  == IF file \in {"unreadable", "blank"} THEN "" ELSE file

\* The directories from / down to cwd, each with its marker and its two files.
FindProjectRoot(dirs) ==
  LET marked == { i \in DOMAIN dirs : dirs[i].marker }
  IN  IF marked = {} THEN Len(dirs) ELSE CHOOSE i \in marked : \A j \in marked : j <= i

\* Mutant: every directory down from / counts.
Chain_FromTop(dirs) == dirs

Chain(dirs) == SubSeq(dirs, FindProjectRoot(dirs), Len(dirs))

\* An override, be it blank or unreadable, takes the place of the directory's AGENTS.md.
Target(dir) == IF dir.override # Absent THEN dir.override ELSE dir.agents

\* discover_agents_docs: the user's own file, then from the project's root down to cwd.
DiscoverAgentsDocs(tree) ==
  SelectSeq(<<tree.personal>> \o [i \in DOMAIN Chain(tree.dirs) |-> Target(Chain(tree.dirs)[i])],
            LAMBDA file : file # Absent)

RenderAgentsDocs(docs) ==
  LET said == SelectSeq([i \in DOMAIN docs |-> Read(docs[i])], LAMBDA content : content # "")
  IN  IF said = <<>> THEN <<>> ELSE <<Block(<<"user_instructions", said>>)>>

\* A SKILL.md is listed if it can be read, its front matter ends, and describes it; it is called by the
\* name given there, or by its folder's.
ParseSkill(skill) ==
  IF skill.form = "complete" /\ skill.description # ""
  THEN <<[name |-> IF skill.name # "" THEN skill.name ELSE skill.folder, scope |-> skill.scope]>>
  ELSE <<>>

\* discover_skills: the user's, then the project's, as they are sorted; one name may be listed twice.
DiscoverSkills(skills) == FlattenSeq([i \in DOMAIN skills |-> ParseSkill(skills[i])])

RenderSkills(skills) == IF skills = <<>> THEN <<>> ELSE <<Block(<<"skills", skills>>)>>

\* A file that is not UTF-8 raises out of build_prompt: there is no session.
Raises(tree) ==
  \/ Undecodable \in ToSet(DiscoverAgentsDocs(tree))
  \/ \E i \in DOMAIN tree.skills : tree.skills[i].form = Undecodable

Permissions == Block(<<"permissions">>)

BuildPrompt(tree, permissionsBlock) ==
  LET blocks == RenderAgentsDocs(DiscoverAgentsDocs(tree)) \o RenderSkills(DiscoverSkills(tree.skills))
  IN  (IF permissionsBlock THEN <<DeveloperItem(Permissions)>> ELSE <<>>)
        \o [i \in DOMAIN blocks |-> UserItem(blocks[i])]
=============================================================================
