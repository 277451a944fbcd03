----------------------------- MODULE MCStanding ------------------------------
\* Two orders of one account, one worker, and the owner's calls next to it.
EXTENDS Standing, TLC

Symmetry == Permutations(Key) \cup Permutations(Caller)
=============================================================================
