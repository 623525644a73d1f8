------------------------------ MODULE MCPatch ------------------------------
EXTENDS PatchProperties

SomeTexts == {"", "a", "b", "x"}
Plain     == {Bare("a"), Bare("b"), Bare("x")}
OneLiner  == Text(<<Bare("a")>>, TRUE)
TwoLiner  == Text(<<Bare("a"), Bare("b")>>, TRUE)

SomeFiles ==
  { Text(lines, TRUE) : lines \in [{1} -> Plain] \cup [{1, 2} -> Plain] } \cup { Text(<<Bare("")>>, FALSE) }
SomeContents == {OneLiner, TwoLiner}

\* Replace line b by x: it is in one of the contents and not in the other.
Replace(text) == <<Chunk(NoContext, <<Bare(text)>>, <<Bare("x")>>, FALSE)>>
SomeEdits == {Replace("b")}

Symmetry == Permutations(Paths)
=============================================================================
