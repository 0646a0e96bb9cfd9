--------------------------- MODULE MCAgentSession ---------------------------
EXTENDS AgentSession

MCCalls == {1, 2}
OneCall == {1}
=============================================================================
