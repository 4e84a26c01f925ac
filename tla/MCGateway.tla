----------------------------- MODULE MCGateway ------------------------------
EXTENDS Gateway, TLC
Symmetric == Permutations(Requests) \cup Permutations(Admins) \cup Permutations(Mandates \ {FirstMandate})
=============================================================================
