----------------------------- MODULE MCPayments ------------------------------
\* Two concurrent callers and up to two requests of one account.
EXTENDS Payments, TLC

Symmetry == Permutations(Handler) \cup Permutations(Key)
=============================================================================
