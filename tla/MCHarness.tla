----------------------------- MODULE MCHarness -----------------------------
EXTENDS HarnessProperties, JsonWriter

\* Both calls may carry the same command, which the rules ask about.
SameCmd    == [c \in Calls |-> CHOOSE cmd \in Cmds : TRUE]
PromptRule == [c \in Cmds |-> "prompt"]
QuietOps   == {"UserTurn", "Interrupt", "Shutdown"}
AllOps     == {"UserTurn", "Interrupt", "Compact", "Shutdown"}
=============================================================================
