--------------------------- MODULE MCTransactions ---------------------------
EXTENDS Transactions, TLC

Symmetry == Permutations(User) \cup Permutations(Conn)
=============================================================================
