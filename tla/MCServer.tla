------------------------------ MODULE MCServer ------------------------------
EXTENDS Server, TLC

Symmetry == Permutations(Conn) \cup Permutations(Session) \cup Permutations(Message)
=============================================================================
