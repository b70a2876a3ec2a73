-------------------------- MODULE MCConnectionPool --------------------------
EXTENDS ConnectionPool, TLC

Symmetry == Permutations(Conn) \cup Permutations(Req)
=============================================================================
