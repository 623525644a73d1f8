----------------------------- MODULE MCRollout -----------------------------
EXTENDS RolloutProperties
=============================================================================
