------------------------------- MODULE Notes -------------------------------
(***************************************************************************)
(* The files that instruct a session change while none runs: what one that *)
(* started now would be told (s12).                                        *)
(***************************************************************************)
EXTENDS Instructions

CONSTANTS
  Depth,   \* how many directories there are from / to cwd
  Contents \* what a file of notes may be, Absent among them

VARIABLE tree

Init == tree = [personal |-> Absent, skills |-> <<>>,
                dirs |-> [i \in 1 .. Depth |-> [marker |-> FALSE, agents |-> Absent, override |-> Absent]]]

\* Somebody writes, replaces or deletes the file of the user's own, or one in a directory, or its marker.
WritePersonal(file)    == tree' = [tree EXCEPT !.personal = file]
WriteAgents(i, file)   == tree' = [tree EXCEPT !.dirs[i].agents = file]
WriteOverride(i, file) == tree' = [tree EXCEPT !.dirs[i].override = file]
Mark(i)                == tree' = [tree EXCEPT !.dirs[i].marker = ~@]

Next ==
  \/ \E file \in Contents : WritePersonal(file)
  \/ \E i \in 1 .. Depth, file \in Contents : WriteAgents(i, file) \/ WriteOverride(i, file)
  \/ \E i \in 1 .. Depth : Mark(i)

Spec == Init /\ [][Next]_tree

\* What a session would be told, nothing if none could start.
Told(t) == IF Raises(t) THEN <<>> ELSE BuildPrompt(t, FALSE)

OnlyDir(i) == tree'.personal = tree.personal /\ \A j \in DOMAIN tree.dirs \ {i} : tree'.dirs[j] = tree.dirs[j]

Speaks(file)    == Read(file) \notin {"", Absent}
Marked(t, span) == \E i \in span : t.dirs[i].marker

\* What happens above the project makes no difference to a session, and a project without any marker is cwd
\* alone; nor does a file behind an override.  Of the notes a session is told the user's own come first, and
\* those of the directory of the project that is the nearest to cwd, if nothing nearer says anything, come
\* last: the nearest win (find_project_root, discover_agents_docs, render_agents_docs).
NotesAreTheProjects ==
  [][LET notes == Last(Told(tree')).text.id[2] IN
     /\ \A i \in DOMAIN tree.dirs : OnlyDir(i) =>
          LET old      == tree.dirs[i]
              new      == tree'.dirs[i]
              nearer   == i + 1 .. Depth
              above    == i # Depth /\ (Marked(tree, nearer) \/ ~(Marked(tree, 1 .. i) \/ Marked(tree', 1 .. i)))
              shadowed == old.override # Absent /\ new = [old EXCEPT !.agents = new.agents]
              nearest  == \A j \in nearer : ~tree.dirs[j].marker /\ ~Speaks(Target(tree.dirs[j]))
              within   == i = Depth \/ Marked(tree', 1 .. i)
          IN  /\ above \/ shadowed => Told(tree') = Told(tree) /\ (Raises(tree') <=> Raises(tree))
              /\ nearest /\ within /\ Speaks(Target(new)) /\ ~Raises(tree') => Last(notes) = Target(new)
     /\ tree'.dirs = tree.dirs /\ Speaks(tree'.personal) /\ ~Raises(tree') => Head(notes) = tree'.personal]_tree
=============================================================================
