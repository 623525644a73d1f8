------------------------------- MODULE MCExec -------------------------------
EXTENDS ExecProperties
=============================================================================
