---------------------------- MODULE SinglePayment ----------------------------
(***************************************************************************)
(* What a confirmed payment promises its owner, with no process, session   *)
(* or ledger in sight: every idempotency key is claimed at most once, pays *)
(* at most once and only after the claim, and is answered only when it has *)
(* paid.  A claimed key may stay unpaid or unanswered for ever: the code   *)
(* promises "at most once", not "exactly once".                            *)
(***************************************************************************)
EXTENDS Naturals

CONSTANT Key        \* idempotency keys, one per parked send or swap

VARIABLES
  phase,            \* [Key -> {"open", "claimed", "answered"}]
  paid              \* [Key -> Nat]: transfers that reached the chain

svars == <<phase, paid>>

SInit ==
  /\ phase = [k \in Key |-> "open"]
  /\ paid  = [k \in Key |-> 0]

Claimed(k) ==
  /\ phase[k] = "open"
  /\ phase' = [phase EXCEPT ![k] = "claimed"]
  /\ UNCHANGED paid

Paid(k) ==
  /\ phase[k] = "claimed"
  /\ paid[k] = 0
  /\ paid' = [paid EXCEPT ![k] = 1]
  /\ UNCHANGED phase

Answered(k) ==
  /\ phase[k] = "claimed"
  /\ paid[k] = 1
  /\ phase' = [phase EXCEPT ![k] = "answered"]
  /\ UNCHANGED paid

SNext == \E k \in Key : Claimed(k) \/ Paid(k) \/ Answered(k)

SSpec == SInit /\ [][SNext]_svars
=============================================================================
