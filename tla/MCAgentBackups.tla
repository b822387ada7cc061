---- MODULE MCAgentBackups ----
EXTENDS AgentBackups, TLC
Sym == Permutations(Procs) \cup Permutations(Jobs)
====
