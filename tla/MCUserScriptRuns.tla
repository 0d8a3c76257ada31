-------------------------- MODULE MCUserScriptRuns --------------------------
EXTENDS UserScriptRuns
=============================================================================
