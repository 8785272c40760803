----------------------------- MODULE MCAgentBus -----------------------------
EXTENDS AgentBus, TLC

\* Agents are only compared with each other.
AgentsAlike == Permutations(Agents)
=============================================================================
