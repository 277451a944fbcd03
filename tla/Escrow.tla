------------------------------- MODULE Escrow --------------------------------
(***************************************************************************)
(* The escrow of claims.ts.  A send to a number without a wallet moves its *)
(* money into one pooled account and leaves a pending_claims row; a run of *)
(* fulfillPendingClaimsFor pays the rows of a payee who sets a PIN, a run  *)
(* of expirePendingClaims refunds the rows past their expiry.  Runs are    *)
(* concurrent: callers set PINs while the orchestrator's timer ticks, and  *)
(* cli/standing.ts runs the same expiry in a process of its own.  Each     *)
(* await is a step.                                                        *)
(*                                                                         *)
(* Left out: the daily cap of new claims (an attempt may fail to open one  *)
(* at any time), which phone the refund goes to, ORDER BY id (a run takes  *)
(* its rows in any order), and the write-off of a claim whose sender has   *)
(* no user row: rows are deleted for tg: accounts only, which handleMessage*)
(* turns away, so every sender keeps one.  ESCROW_WALLET_ADDRESS is unset, *)
(* so that deposits reach the wallet payouts are made from.                *)
(***************************************************************************)
EXTENDS Integers, FiniteSets, Functions

CONSTANTS
  Claim,            \* attempts to hold, each of which may open a pending_claims row
  Payee,            \* unknown numbers money is sent to
  Onboarder,        \* set_pin calls that can be running at once
  Worker,           \* expiry runs that can be running at once: the timer's, the CLI's
  Amount,           \* amounts sent, in units of 10^-6 USDC
  Reserve,          \* ESCROW_GAS_RESERVE_USDC
  Fee,              \* gas of one transfer; both are 0 if Circle sponsors the gas
  Demo,             \* DEMO_SIMPLE
  MaxLate,          \* bound: transfers out at once that no run waits for
  None

ASSUME AmountAssumption == Amount \subseteq Nat \ {0} /\ Reserve \in Nat /\ Fee \in Nat
ASSUME DemoAssumption   == Demo \in BOOLEAN /\ MaxLate \in Nat
ASSUME NoneAssumption   == None \notin Claim
ASSUME RunsAssumption   == Onboarder \cap Worker = {} /\ IsFiniteSet(Onboarder \cup Worker)
ASSUME ClaimsAssumption == IsFiniteSet(Claim)

VARIABLES
  pinned, who,      \* payees whose PIN is set; the payee of each set_pin call
  hold,             \* where each attempt to hold stands
  status, want, payee, due,        \* pending_claims: the row, and whether it expired
  pool, burnt,      \* USDC of the escrow wallet; gas it has paid so far
  got,              \* what reached each side of a claim, out of the pool
  late,             \* payouts submitted that no run waits for any more
  booked,           \* ledger: escrow_hold, escrow_claim, escrow_refund of the claim
  pc, todo, at, amt \* each run: its step, rows left, the row in hand, what it pays

callers == <<pinned, who>>
row   == <<status, want, payee, due>>
chain == <<pool, burnt, got, late>>
run   == <<pc, todo, at, amt>>
vars  == <<callers, hold, row, chain, booked, run>>

Run == Onboarder \cup Worker

\* Whom a run pays, what it marks the row, and its ledger kind.
Side(r)   == IF r \in Worker THEN "sender" ELSE "payee"
Mark(r)   == IF r \in Worker THEN "refunded" ELSE "claimed"

Smaller(x, y) == IF x <= y THEN x ELSE y

\* Fault: the amount and the reserve change places in the call.
PayableSwapped(w, balance) == Smaller(Reserve, balance - w)

\* escrowPayable / payableAmount: never more than asked for, nor than is there.
Payable(w, balance) == Smaller(w, balance - Reserve)

Init ==
  /\ pinned = {} /\ who \in [Onboarder -> Payee]
  /\ hold   = [c \in Claim |-> "unused"]
  /\ status = [c \in Claim |-> "none"]
  /\ want \in [Claim -> Amount] /\ payee \in [Claim -> Payee]
  /\ due    = {}
  /\ pool = 0 /\ burnt = 0
  /\ got    = [c \in Claim |-> [payee |-> 0, sender |-> 0]]
  /\ late   = {}
  /\ booked = [c \in Claim |-> [hold |-> 0, payee |-> 0, sender |-> 0]]
  /\ pc     = [r \in Run |-> "idle"]
  /\ todo   = [r \in Run |-> {}]
  /\ at     = [r \in Run |-> None]
  /\ amt    = [r \in Run |-> 0]

-----------------------------------------------------------------------------
(* holdPendingClaim *)

Advance(c, from, to) == hold[c] = from /\ hold' = [hold EXCEPT ![c] = to]

\* The cap lets the claim through and the transfer to escrow is submitted.
HoldSubmit(c) ==
  /\ Advance(c, "unused", "moving")
  /\ UNCHANGED <<callers, row, chain, booked, run>>

\* Fault: the row is written before the deposit is known to land.
HoldRowFirst(c) ==
  /\ Advance(c, "moving", "rowed")
  /\ status' = [status EXCEPT ![c] = "held"]
  /\ UNCHANGED <<callers, want, payee, due, chain, booked, run>>

HoldLands(c) ==
  /\ Advance(c, "moving", "moved")
  /\ pool' = pool + want[c]
  /\ UNCHANGED <<callers, row, burnt, got, late, booked, run>>

\* createPendingClaim.
HoldRow(c) ==
  /\ Advance(c, "moved", "rowed")
  /\ status' = [status EXCEPT ![c] = "held"]
  /\ UNCHANGED <<callers, want, payee, due, chain, booked, run>>

HoldBook(c) ==
  /\ Advance(c, "rowed", "over")
  /\ booked' = [booked EXCEPT ![c].hold = @ + 1]
  /\ UNCHANGED <<callers, row, chain, run>>

\* A throw or a crash: a deposit under way may land with no row to show for it,
\* a row may stay without its ledger line.
HoldFails(c) ==
  /\ hold[c] \in {"moving", "moved", "rowed"}
  /\ hold' = [hold EXCEPT ![c] = "over"]
  /\ pool' \in IF hold[c] = "moving" THEN {pool, pool + want[c]} ELSE {pool}
  /\ UNCHANGED <<callers, row, burnt, got, late, booked, run>>

Hold(c) == HoldSubmit(c) \/ HoldLands(c) \/ HoldRow(c) \/ HoldBook(c) \/ HoldFails(c)

\* Its expires_at passes.
Expires(c) ==
  /\ status[c] = "held" /\ c \notin due
  /\ due' = due \cup {c}
  /\ UNCHANGED <<callers, hold, status, want, payee, chain, booked, run>>

-----------------------------------------------------------------------------
(* Starting a run: the list it works through is read once *)

Goto(r, label) == pc' = [pc EXCEPT ![r] = label]

List(r, claims) ==
  /\ Goto(r, "row")
  /\ todo' = [todo EXCEPT ![r] = claims]
  /\ UNCHANGED <<at, amt>>

\* set_pin, while no PIN is set; in demo mode it may be said again.
SetPin(r) ==
  /\ pc[r] = "idle"
  /\ \E p \in Payee :
       /\ p \notin pinned \/ Demo
       /\ who' = [who EXCEPT ![r] = p]
  /\ Goto(r, "pin")
  /\ UNCHANGED <<pinned, hold, row, chain, booked, todo, at, amt>>

\* completePinSetup stores the PIN; reading the row back and clearing the session
\* follow, which change nothing here ...
StorePin(r) ==
  /\ pc[r] = "pin"
  /\ pinned' = pinned \cup {who[r]}
  /\ Goto(r, "list")
  /\ UNCHANGED <<who, hold, row, chain, booked, todo, at, amt>>

\* ... then the payee's held claims are listed.
Fulfill(r) ==
  /\ pc[r] = "list"
  /\ List(r, {c \in Claim : status[c] = "held" /\ payee[c] = who[r]})
  /\ UNCHANGED <<callers, hold, row, chain, booked>>

\* Fault: the expiry lists rows whatever their status.
ExpireAll(r) ==
  /\ pc[r] = "idle"
  /\ List(r, {c \in Claim : c \in due})
  /\ UNCHANGED <<callers, hold, row, chain, booked>>

Expire(r) ==
  /\ pc[r] = "idle"
  /\ List(r, {c \in Claim : status[c] = "held" /\ c \in due})
  /\ UNCHANGED <<callers, hold, row, chain, booked>>

-----------------------------------------------------------------------------
(* One row of a run *)

\* The row in hand is done with, paid or not; the next one follows.
NextRow(r) ==
  /\ Goto(r, "row")
  /\ at'  = [at EXCEPT ![r] = None]
  /\ amt' = [amt EXCEPT ![r] = 0]
  /\ UNCHANGED todo

TakeRow(r) ==
  /\ pc[r] = "row"
  /\ \E c \in todo[r] :
       /\ at' = [at EXCEPT ![r] = c]
       /\ todo' = [todo EXCEPT ![r] = @ \ {c}]
  /\ Goto(r, "read")
  /\ UNCHANGED <<callers, hold, row, chain, booked, amt>>

ListDone(r) ==
  /\ pc[r] = "row" /\ todo[r] = {}
  /\ Goto(r, "idle")
  /\ UNCHANGED <<callers, hold, row, chain, booked, todo, at, amt>>

\* Fault: a payout of nothing goes through (pay < 0 instead of pay <= 0).
ReadBalanceAllowsZero(r) ==
  /\ pc[r] = "read"
  /\ LET pay == Payable(want[at[r]], pool) IN
       IF pay >= 0
       THEN /\ amt' = [amt EXCEPT ![r] = pay]
            /\ Goto(r, "pay") /\ UNCHANGED <<todo, at>>
       ELSE NextRow(r)
  /\ UNCHANGED <<callers, hold, row, chain, booked>>

\* Fault: the row is marked before its transfer, so that nobody else takes it.
ReadBalanceMarks(r) ==
  /\ pc[r] = "read"
  /\ LET pay == Payable(want[at[r]], pool) IN
       IF pay > 0
       THEN /\ amt' = [amt EXCEPT ![r] = pay]
            /\ status' = [status EXCEPT ![at[r]] = Mark(r)]
            /\ Goto(r, "pay") /\ UNCHANGED <<todo, at>>
       ELSE NextRow(r) /\ UNCHANGED status
  /\ UNCHANGED <<callers, hold, want, payee, due, chain, booked>>

\* The balance is read; the row is not read again.
ReadBalance(r) ==
  /\ pc[r] = "read"
  /\ LET pay == Payable(want[at[r]], pool) IN
       IF pay > 0
       THEN /\ amt' = [amt EXCEPT ![r] = pay]
            /\ Goto(r, "pay") /\ UNCHANGED <<todo, at>>
       ELSE NextRow(r)          \* underfunded: left held
  /\ UNCHANGED <<callers, hold, row, chain, booked>>

\* The transfer lands and its run knows.
PayLands(r) ==
  /\ pc[r] = "pay"
  /\ pool >= amt[r] + Fee
  /\ pool'  = pool - amt[r] - Fee
  /\ burnt' = burnt + Fee
  /\ got'   = [got EXCEPT ![at[r]][Side(r)] = @ + amt[r]]
  /\ Goto(r, "mark")
  /\ UNCHANGED <<callers, hold, row, late, booked, todo, at, amt>>

\* It reverts, at the cost of its gas.
PayReverts(r) ==
  /\ pc[r] = "pay"
  /\ pool'  = pool - Smaller(Fee, pool)
  /\ burnt' = burnt + Smaller(Fee, pool)
  /\ NextRow(r)
  /\ UNCHANGED <<callers, hold, row, got, late, booked>>

\* A submitted transfer that its run forgets.
Abandon(r) ==
  /\ Cardinality(late) < MaxLate
  /\ <<r, at[r], amt[r]>> \notin late
  /\ late' = late \cup {<<r, at[r], amt[r]>>}

\* No receipt in time: it throws, the row stays held, the transfer lives on.
PayTimesOut(r) ==
  /\ pc[r] = "pay"
  /\ Abandon(r)
  /\ NextRow(r)
  /\ UNCHANGED <<callers, hold, row, pool, burnt, got, booked>>

\* markPendingClaim: whatever the status is by now.
MarkRow(r) ==
  /\ pc[r] = "mark"
  /\ status' = [status EXCEPT ![at[r]] = Mark(r)]
  /\ Goto(r, "book")
  /\ UNCHANGED <<callers, hold, want, payee, due, chain, booked, todo, at, amt>>

\* Fault: the ledger records the amount of the claim, not of the payout.
BookWant(r) ==
  /\ pc[r] = "book"
  /\ booked' = [booked EXCEPT ![at[r]][Side(r)] = @ + want[at[r]]]
  /\ NextRow(r)
  /\ UNCHANGED <<callers, hold, row, chain>>

BookRow(r) ==
  /\ pc[r] = "book"
  /\ booked' = [booked EXCEPT ![at[r]][Side(r)] = @ + amt[r]]
  /\ NextRow(r)
  /\ UNCHANGED <<callers, hold, row, chain>>

\* Fault: a row that fails ends the run.
RowFailsEndsRun(r) ==
  /\ pc[r] \in {"read", "pay", "mark", "book"}
  /\ Goto(r, "idle")
  /\ todo' = [todo EXCEPT ![r] = {}]
  /\ at'  = [at EXCEPT ![r] = None]
  /\ amt' = [amt EXCEPT ![r] = 0]
  /\ UNCHANGED <<callers, hold, row, chain, booked>>

\* A call of the row throws before it has any effect: logged, next row.
RowFails(r) ==
  /\ pc[r] \in {"read", "pay", "mark", "book"}
  /\ NextRow(r)
  /\ UNCHANGED <<callers, hold, row, chain, booked>>

\* The process of the run dies; a transfer it waited for lives on.
Crash(r) ==
  /\ pc[r] # "idle"
  /\ IF pc[r] = "pay" THEN Abandon(r) ELSE UNCHANGED late
  /\ Goto(r, "idle")
  /\ todo' = [todo EXCEPT ![r] = {}]
  /\ at'  = [at EXCEPT ![r] = None]
  /\ amt' = [amt EXCEPT ![r] = 0]
  /\ UNCHANGED <<callers, hold, row, pool, burnt, got, booked>>

\* A transfer no run waits for lands after all, or fails.
LateLands(t) ==
  /\ t \in late
  /\ pool >= t[3] + Fee
  /\ pool'  = pool - t[3] - Fee
  /\ burnt' = burnt + Fee
  /\ got'   = [got EXCEPT ![t[2]][Side(t[1])] = @ + t[3]]
  /\ late'  = late \ {t}
  /\ UNCHANGED <<callers, hold, row, booked, run>>

LateFails(t) ==
  /\ t \in late
  /\ late' = late \ {t}
  /\ UNCHANGED <<callers, hold, row, pool, burnt, got, booked, run>>

-----------------------------------------------------------------------------

OneRow(r) ==
  \/ TakeRow(r) \/ ListDone(r) \/ ReadBalance(r)
  \/ PayLands(r) \/ PayReverts(r) \/ PayTimesOut(r)
  \/ MarkRow(r) \/ BookRow(r) \/ RowFails(r)

\* Everything but the death of a worker's process.
WorkersAlive ==
  \/ \E c \in Claim : Hold(c) \/ Expires(c)
  \/ \E r \in Onboarder : SetPin(r) \/ StorePin(r) \/ Fulfill(r) \/ Crash(r)
  \/ \E r \in Worker : Expire(r)
  \/ \E r \in Run : OneRow(r)
  \/ \E t \in late : LateLands(t) \/ LateFails(t)

Next == WorkersAlive \/ \E r \in Worker : Crash(r)

Spec == Init /\ [][Next]_vars

\* setInterval ticks for ever, and an awaited call returns or throws; processes
\* stop dying some day.  That a transfer ever succeeds is not assumed.
Ticking ==
  /\ \A r \in Worker : WF_vars(Expire(r)) /\ WF_vars(OneRow(r))
  /\ <>[][WorkersAlive]_vars

LiveSpec == Spec /\ Ticking

-----------------------------------------------------------------------------
(* The inductive invariant: next to the types and to SettledBacked below *)

\* A run works on a claim that has a row, and pays something.
RunsHold == \A r \in Run :
  /\ pc[r] \in {"read", "pay", "mark", "book"} => at[r] \in Claim
  /\ pc[r] \in {"pay", "mark", "book"} => amt[r] > 0

\* A row exists only once its attempt has moved the money, and runs only know
\* of claims that have one.
RowsAreOpen ==
  /\ \A c \in Claim : status[c] # "none" => hold[c] \in {"rowed", "over"}
  /\ \A r \in Run, c \in Claim : c \in todo[r] \/ at[r] = c => status[c] # "none"

\* Whoever is about to mark or book has paid.
RunsHavePaid == \A r \in Run :
  pc[r] \in {"mark", "book"} => got[at[r]][Side(r)] > 0

-----------------------------------------------------------------------------
(* Properties *)

TypeOK ==
  /\ pinned \subseteq Payee /\ who \in [Onboarder -> Payee] /\ due \subseteq Claim
  /\ hold \in [Claim -> {"unused", "moving", "moved", "rowed", "over"}]
  /\ status \in [Claim -> {"none", "held", "claimed", "refunded"}]
  /\ want \in [Claim -> Amount] /\ payee \in [Claim -> Payee]
  /\ pool \in Nat /\ burnt \in Nat
  /\ got \in [Claim -> [payee : Nat, sender : Nat]]
  /\ late \subseteq Run \X Claim \X (Nat \ {0})
  /\ booked \in [Claim -> [hold : Nat, payee : Nat, sender : Nat]]
  /\ pc \in [Run -> {"idle", "pin", "list", "row", "read", "pay", "mark", "book"}]
  /\ todo \in [Run -> SUBSET Claim]
  /\ at \in [Run -> Claim \cup {None}]
  /\ amt \in [Run -> Nat]

\* A claim is settled only for money that moved: "claimed" means the payee got
\* something out of escrow, "refunded" that the sender did.
SettledBacked == \A c \in Claim :
  /\ status[c] = "claimed"  => got[c].payee > 0
  /\ status[c] = "refunded" => got[c].sender > 0

IInv == TypeOK /\ RunsHold /\ RowsAreOpen /\ RunsHavePaid /\ SettledBacked

\* The ledger never shows more paid out of escrow than reached either side, in
\* whatever order runs land, mark, book, fail and die.
LedgerWithinPayouts == \A c \in Claim :
  booked[c].payee <= got[c].payee /\ booked[c].sender <= got[c].sender

\* What one claim's money pays for: no claim has been paid more than was held.
Paid(c) == got[c].payee + got[c].sender
NonePaidTwice == \A c \in Claim : Paid(c) <= want[c]

\* No money of the pool is lost but gas: it holds what the claims with a row are
\* still owed.  So, unless some claim is paid twice, none is paid with another
\* one's money.
Owed == [c \in Claim |-> want[c] - Paid(c)]
PoolCoversHeld ==
  pool + burnt >= SumFunctionOnSet(Owed, {c \in Claim : status[c] # "none"})

\* Unless some claim is paid twice, a settled claim has been paid out in full, but
\* for gas and the gas reserve.  Not to the side it is settled to: a claim that a
\* run left in part may be finished, and marked, by a run of the other side.
ShortfallIsGas ==
  NonePaidTwice => \A c \in Claim :
    status[c] \in {"claimed", "refunded"} => Paid(c) + burnt + Reserve >= want[c]

\* A settled claim that no run has in hand or on its list, and no transfer is out
\* for, is over: nothing is paid, booked or changed on it again.
Over(c) ==
  /\ status[c] \in {"claimed", "refunded"}
  /\ \A r \in Run : c \notin todo[r] /\ at[r] # c
  /\ \A t \in late : t[2] # c

SettledIsOver ==
  [][\A c \in Claim : Over(c) =>
       Over(c)' /\ status'[c] = status[c] /\ got'[c] = got[c]]_vars

\* An expired claim is never left alone: as long as it is held, a worker gets to
\* it again and again, whatever happens to the rows before it.
HeldIsRetried == \A c \in Claim :
  (status[c] = "held" /\ c \in due) ~>
    (status[c] # "held" \/ \E r \in Worker : at[r] = c)

\* "They receive funds on first onboard, or funds return to sender after expiry":
\* one of the two, and no more than was held.
PaidOnce == NonePaidTwice
=============================================================================
