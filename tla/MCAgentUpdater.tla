---------------------------- MODULE MCAgentUpdater ----------------------------
EXTENDS AgentUpdater
=============================================================================
