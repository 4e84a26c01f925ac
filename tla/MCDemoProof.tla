---------------------------- MODULE MCDemoProof -----------------------------
EXTENDS DemoProof, TLC
Symmetric == Permutations(Requests) \cup Permutations(Mandates \ {FirstMandate})
=============================================================================
