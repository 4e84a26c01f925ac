---------------------------- MODULE MCAgentRuns -----------------------------
EXTENDS AgentRuns, TLC
Symmetric == Permutations(Sends) \cup Permutations(Controls)
=============================================================================
