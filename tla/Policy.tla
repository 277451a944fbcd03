------------------------------- MODULE Policy --------------------------------
(***************************************************************************)
(* The spending gate as pure operators: lib/policy.ts, the limits of       *)
(* lib/identity.ts and the frozen rules of lib/policyRules.ts.  Amounts    *)
(* are whole numbers of one small unit.  Each stage of evaluatePolicy is   *)
(* an operator over the values that stage has read; Spending says when     *)
(* each of them is read.                                                   *)
(***************************************************************************)
EXTENDS Integers, Sequences

CONSTANTS
    PerTx, Daily, HardCeiling,  \* limits in USDC by tier (POLICY_T*_PER_TX, _DAILY, _HARD)
    NanopayDaily,               \* daily limit on paid lookups (POLICY_NANOPAY_DAILY)
    PriceChecked,               \* what the gate takes a lookup to cost, whatever it does
    CooldownMax,                \* SIM_COOLDOWN_MAX_SEND
    CallbackOver,               \* CALLBACK_THRESHOLD_USDC; 0 stands for "not set"
    Wordy,                      \* the labels of deny rules that hold no digit
    None

Tier == 0 .. 2

ASSUME LimitsAssumption ==
    /\ PerTx \in [Tier -> Nat] /\ Daily \in [Tier -> Nat] /\ HardCeiling \in [Tier -> Nat]
    /\ NanopayDaily \in Nat /\ PriceChecked \in Nat
    /\ CooldownMax \in Nat /\ CallbackOver \in Nat

\* An unknown tier counts as the nearest one there is.
LimitsForTier(tier) ==
    LET t == IF tier < 0 THEN 0 ELSE IF tier > 2 THEN 2 ELSE tier
    IN  [perTx |-> PerTx[t], daily |-> Daily[t], hardCeiling |-> HardCeiling[t]]

CallbackThreshold(lim) == IF CallbackOver > 0 THEN CallbackOver ELSE lim.perTx

\* A frozen rule is a record [kind, max, label]; a payee is a record
\* [label, phone, address, claim, holds, digits]: "holds" are the rule labels
\* its label contains, "digits" those whose digits its phone contains.

\* What the ledger calls the payee of a send, and what the rules ask it for:
\* they differ for a contact that is an address and no phone.
Counterparty(payee) == IF payee.phone # None THEN payee.phone ELSE payee.address
AskedAs(payee)      == IF payee.phone # None THEN payee.phone ELSE payee.label

\* The digits of a label without any are the empty string, and every phone
\* contains the empty string.
DenyApplies(rule, payee) ==
    \/ rule.label \in payee.holds
    \/ /\ payee.phone # None
       /\ rule.label \in Wordy \/ rule.label \in payee.digits

RuleRefuses(rule, amount, payee, paidBefore) ==
    \/ rule.kind = "deny_label" /\ DenyApplies(rule, payee)
    \/ rule.kind = "max_per_tx_usdc" /\ amount > rule.max
    \/ rule.kind = "max_new_payee_usdc" /\ ~paidBefore /\ amount > rule.max

\* applyUserRules on the active rules and the counterparties paid so far.
RulesRefuse(rules, amount, payee, paid) ==
    \E r \in rules : RuleRefuses(r, amount, payee, AskedAs(payee) \in paid)

\* The stages.  "next" is the verdict of a stage that lets the request go on.

\* Before anything is read but the user row: size, and for what is not a send
\* the cool-down (a send asks its rules first).
FirstVerdict(kind, amount, lim, cooldown) ==
    IF \/ amount <= 0
       \/ amount > lim.hardCeiling
       \/ kind # "send" /\ cooldown /\ amount > CooldownMax
    THEN "reject" ELSE "next"

\* Mutant: a call back lifts the cool-down.
RiskVerdictLifted(amount, lim, refused, cooldown, callback) ==
    IF refused \/ (cooldown /\ ~callback /\ amount > CooldownMax) THEN "reject"
    ELSE IF amount > CallbackThreshold(lim) /\ ~callback THEN "callback"
    ELSE "next"

\* After the rules of a send: cool-down, then the callback.
RiskVerdict(amount, lim, refused, cooldown, callback) ==
    IF refused \/ (cooldown /\ amount > CooldownMax) THEN "reject"
    ELSE IF amount > CallbackThreshold(lim) /\ ~callback THEN "callback"
    ELSE "next"

Available(balance, locked) == IF balance > locked THEN balance - locked ELSE 0

\* Mutant: a swap or a top-up may spend what is locked.
LockVerdictOfSends(kind, amount, lim, available) ==
    IF kind = "send" /\ amount > available THEN "reject"
    ELSE IF kind = "send" /\ amount > lim.perTx THEN "confirm"
    ELSE "next"

\* The savings lock, against what is available as far as it has been read; a
\* send above the soft limit is decided here, before the daily sum is looked at.
LockVerdict(kind, amount, lim, available) ==
    IF amount > available THEN "reject"
    ELSE IF kind = "send" /\ amount > lim.perTx THEN "confirm"
    ELSE "next"

\* Mutant: a send counts the holds only.
CountedHolds(kind) ==
    CASE kind = "send"  -> <<"escrow_hold">>
      [] kind = "price" -> <<"nanopay">>
      [] OTHER          -> <<"send", "escrow_hold", "swap", "airtime">>

\* The daily limit: the sums that are read, one query after the other.  A send
\* counts sends and escrow holds, a swap and a top-up count these and swaps and
\* airtime, a price lookup counts the paid lookups.
Counted(kind) ==
    CASE kind = "send"  -> <<"send", "escrow_hold">>
      [] kind = "price" -> <<"nanopay">>
      [] OTHER          -> <<"send", "escrow_hold", "swap", "airtime">>

\* Mutant: the request itself is not added to the sum.
SumVerdictWithout(kind, amount, lim, already) ==
    LET cap == IF kind = "price" THEN NanopayDaily ELSE lim.daily
    IN  IF already > cap THEN "reject"
        ELSE IF kind = "price" THEN "pass" ELSE "confirm"

SumVerdict(kind, amount, lim, already) ==
    LET cap == IF kind = "price" THEN NanopayDaily ELSE lim.daily
    IN  IF already + amount > cap THEN "reject"
        ELSE IF kind = "price" THEN "pass" ELSE "confirm"
=============================================================================
