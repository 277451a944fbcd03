------------------------------ MODULE MCEscrow -------------------------------
\* Two claims sharing the pool, one onboarding call and one expiry run at a
\* time.  Four units a claim: the gas and the reserve leave room for a shortfall.
EXTENDS Escrow, TLC

Symmetry == Permutations(Claim) \cup Permutations(Payee)
=============================================================================
