---------------------------- MODULE EscrowProofs -----------------------------
(***************************************************************************)
(* Escrow, for every set of claims, payees and runs, every amount, fee and *)
(* gas reserve.  The inductive invariant is IInv of Escrow; its type part  *)
(* is proved first, because the other parts need it.                       *)
(***************************************************************************)
EXTENDS Escrow, SumProofs

Label == {"idle", "pin", "list", "row", "read", "pay", "mark", "book"}

RunTyped ==
  /\ pc \in [Run -> Label]
  /\ todo \in [Run -> SUBSET Claim]
  /\ at \in [Run -> Claim \cup {None}]
  /\ amt \in [Run -> Nat]
  /\ RunsHold

StoreTyped ==
  /\ pinned \subseteq Payee /\ who \in [Onboarder -> Payee] /\ due \subseteq Claim
  /\ hold \in [Claim -> {"unused", "moving", "moved", "rowed", "over"}]
  /\ status \in [Claim -> {"none", "held", "claimed", "refunded"}]
  /\ want \in [Claim -> Amount] /\ payee \in [Claim -> Payee]
  /\ pool \in Nat /\ burnt \in Nat
  /\ got \in [Claim -> [payee : Nat, sender : Nat]]
  /\ late \subseteq Run \X Claim \X (Nat \ {0})
  /\ booked \in [Claim -> [hold : Nat, payee : Nat, sender : Nat]]

TypeInv == RunTyped /\ StoreTyped

\* TypeInv is the type invariant the runs check, with RunsHold.
LEMMA TypeInvIsTypeOK == TypeInv <=> TypeOK /\ RunsHold
  BY DEF TypeInv, RunTyped, StoreTyped, TypeOK, Label

-----------------------------------------------------------------------------
(* What the actions are written with *)

\* A run that moves to another step keeps the shape of its state, if it has what
\* that step works on.
LEMMA GotoTyped ==
  ASSUME RunTyped, NEW r \in Run, NEW l \in Label, Goto(r, l), UNCHANGED <<todo, at, amt>>,
         l \in {"read", "pay", "mark", "book"} => at[r] \in Claim,
         l \in {"pay", "mark", "book"} => amt[r] > 0
  PROVE  RunTyped'
  BY DEF RunTyped, RunsHold, Goto

\* A run that takes a list of claims is well formed.
LEMMA ListTyped ==
  ASSUME RunTyped, NEW r \in Run, NEW cs \in SUBSET Claim, List(r, cs)
  PROVE  RunTyped'
  BY DEF RunTyped, RunsHold, List, Goto, Label

\* A run that is through with its row is well formed.
LEMMA NextRowTyped ==
  ASSUME RunTyped, NEW r \in Run, NextRow(r)
  PROVE  RunTyped'
  BY DEF RunTyped, RunsHold, NextRow, Goto, Label

\* A transfer that a paying run abandons is a run, a claim and a positive amount.
LEMMA AbandonTyped ==
  ASSUME TypeInv, NEW r \in Run, pc[r] = "pay", Abandon(r)
  PROVE  late' \subseteq Run \X Claim \X (Nat \ {0})
<1>1. at[r] \in Claim /\ amt[r] \in Nat \ {0}
  BY DEF TypeInv, RunTyped, RunsHold
<1>2. <<r, at[r], amt[r]>> \in Run \X Claim \X (Nat \ {0})
  BY <1>1
<1>3. QED BY <1>2 DEF Abandon, TypeInv, StoreTyped

\* What a side has got of a claim is a number, and stays one when it gets more.
LEMMA GotTyped ==
  ASSUME StoreTyped, NEW c \in Claim, NEW r, NEW n \in Nat,
         got' = [got EXCEPT ![c][Side(r)] = @ + n]
  PROVE  got' \in [Claim -> [payee : Nat, sender : Nat]]
<1>1. CASE Side(r) = "payee"
  BY <1>1 DEF StoreTyped
<1>2. CASE Side(r) = "sender"
  BY <1>2 DEF StoreTyped
<1>3. QED BY <1>1, <1>2 DEF Side

\* The same of the ledger.
LEMMA BookedTyped ==
  ASSUME StoreTyped, NEW c \in Claim, NEW r, NEW n \in Nat,
         booked' = [booked EXCEPT ![c][Side(r)] = @ + n]
  PROVE  booked' \in [Claim -> [hold : Nat, payee : Nat, sender : Nat]]
<1>1. CASE Side(r) = "payee"
  BY <1>1 DEF StoreTyped
<1>2. CASE Side(r) = "sender"
  BY <1>2 DEF StoreTyped
<1>3. QED BY <1>1, <1>2 DEF Side

\* Amounts and fees are numbers, and what is paid is at most the balance.
LEMMA Numbers ==
  /\ Fee \in Nat /\ Reserve \in Nat /\ Amount \subseteq Nat \ {0}
  /\ \A x, y \in Nat : Smaller(x, y) \in Nat /\ Smaller(x, y) <= y
  BY AmountAssumption DEF Smaller

-----------------------------------------------------------------------------
(* Types *)

\* The initial state is well typed.
LEMMA TypeInit == Init => TypeInv
  BY DEF Init, TypeInv, RunTyped, StoreTyped, RunsHold, Label, Run

\* Every step keeps the types.
LEMMA TypeStep == TypeInv /\ [Next]_vars => TypeInv'
<1> SUFFICES ASSUME TypeInv, [Next]_vars PROVE TypeInv'
  OBVIOUS
<1>t. RunTyped /\ StoreTyped
  BY DEF TypeInv
<1>n. Fee \in Nat /\ Reserve \in Nat /\ Amount \subseteq Nat \ {0}
  BY Numbers
<1>1. ASSUME NEW c \in Claim, Hold(c) PROVE TypeInv'
  <2>1. RunTyped'
    BY <1>1, <1>t DEF Hold, HoldSubmit, HoldLands, HoldRow, HoldBook, HoldFails, run, RunTyped, RunsHold
  <2>2. want[c] \in Nat
    BY <1>n, <1>t DEF StoreTyped
  <2>3. pool' \in Nat
    BY <1>1, <1>t, <2>2 DEF Hold, HoldSubmit, HoldLands, HoldRow, HoldBook, HoldFails, chain, StoreTyped
  <2>4. CASE HoldSubmit(c) \/ HoldLands(c) \/ HoldRow(c) \/ HoldFails(c)
    BY <2>1, <2>3, <2>4, <1>t
       DEF TypeInv, HoldSubmit, HoldLands, HoldRow, HoldFails, Advance, callers, row, chain, StoreTyped
  <2>5. CASE HoldBook(c)
    BY <2>1, <2>5, <1>t DEF TypeInv, HoldBook, Advance, callers, row, chain, StoreTyped
  <2>6. QED BY <1>1, <2>4, <2>5 DEF Hold
<1>2. ASSUME NEW c \in Claim, Expires(c) PROVE TypeInv'
  BY <1>2, <1>t DEF TypeInv, Expires, callers, chain, run, StoreTyped, RunTyped, RunsHold
<1>3. ASSUME NEW r \in Onboarder, SetPin(r) \/ StorePin(r) PROVE TypeInv'
  <2>1. r \in Run /\ {"pin", "list"} \subseteq Label
    BY DEF Run, Label
  <2>2. RunTyped'
    BY <1>3, <1>t, <2>1, GotoTyped DEF SetPin, StorePin
  <2>3. StoreTyped'
    BY <1>3, <1>t DEF SetPin, StorePin, row, chain, StoreTyped
  <2>4. QED BY <2>2, <2>3 DEF TypeInv
<1>4. ASSUME NEW r \in Onboarder, Fulfill(r) PROVE TypeInv'
  <2>1. r \in Run
    BY DEF Run
  <2>2. RunTyped'
    BY <1>4, <1>t, <2>1, ListTyped DEF Fulfill
  <2>3. StoreTyped'
    BY <1>4, <1>t DEF Fulfill, callers, row, chain, StoreTyped
  <2>4. QED BY <2>2, <2>3 DEF TypeInv
<1>5. ASSUME NEW r \in Worker, Expire(r) PROVE TypeInv'
  <2>1. r \in Run
    BY DEF Run
  <2>2. RunTyped'
    BY <1>5, <1>t, <2>1, ListTyped DEF Expire
  <2>3. StoreTyped'
    BY <1>5, <1>t DEF Expire, callers, row, chain, StoreTyped
  <2>4. QED BY <2>2, <2>3 DEF TypeInv
<1>6. ASSUME NEW r \in Run, TakeRow(r) PROVE TypeInv'
  <2>1. RunTyped'
    BY <1>6, <1>t DEF TakeRow, Goto, RunTyped, RunsHold, Label
  <2>2. StoreTyped'
    BY <1>6, <1>t DEF TakeRow, callers, row, chain, StoreTyped
  <2>3. QED BY <2>1, <2>2 DEF TypeInv
<1>7. ASSUME NEW r \in Run, ListDone(r) PROVE TypeInv'
  <2>1. RunTyped'
    BY <1>7, <1>t, GotoTyped DEF ListDone, Label
  <2>2. StoreTyped'
    BY <1>7, <1>t DEF ListDone, callers, row, chain, StoreTyped
  <2>3. QED BY <2>1, <2>2 DEF TypeInv
<1>8. ASSUME NEW r \in Run, ReadBalance(r) PROVE TypeInv'
  <2> DEFINE pay == Payable(want[at[r]], pool)
  <2>1. at[r] \in Claim
    BY <1>8, <1>t DEF ReadBalance, RunTyped, RunsHold
  <2>2. want[at[r]] \in Nat /\ pool \in Nat
    BY <2>1, <1>n, <1>t DEF StoreTyped
  <2>3. pay \in Int
    BY <2>2, <1>n DEF Payable, Smaller
  <2>4. RunTyped'
    <3>1. CASE pay > 0
      <4>1. pay \in Nat
        BY <2>3, <3>1
      <4>2. amt' = [amt EXCEPT ![r] = pay] /\ Goto(r, "pay") /\ UNCHANGED <<todo, at>>
        BY <1>8, <3>1 DEF ReadBalance
      <4> HIDE DEF pay
      <4>3. QED BY <4>1, <4>2, <2>1, <3>1, <1>t DEF Goto, RunTyped, RunsHold, Label
    <3>2. CASE ~ (pay > 0)
      BY <1>8, <1>t, <3>2, NextRowTyped DEF ReadBalance
    <3>3. QED BY <3>1, <3>2
  <2>5. StoreTyped'
    BY <1>8, <1>t DEF ReadBalance, callers, row, chain, StoreTyped
  <2>6. QED BY <2>4, <2>5 DEF TypeInv
<1>9. ASSUME NEW r \in Run, PayLands(r) PROVE TypeInv'
  <2>1. at[r] \in Claim /\ amt[r] \in Nat /\ amt[r] > 0
    BY <1>9, <1>t DEF PayLands, RunTyped, RunsHold
  <2>2. RunTyped'
    BY <1>9, <1>t, <2>1, GotoTyped DEF PayLands, Label
  <2>3. got' \in [Claim -> [payee : Nat, sender : Nat]]
    BY <1>9, <1>t, <2>1, GotTyped DEF PayLands
  <2>4. pool' \in Nat /\ burnt' \in Nat
    BY <1>9, <1>t, <1>n, <2>1 DEF PayLands, StoreTyped
  <2>5. StoreTyped'
    BY <1>9, <1>t, <2>3, <2>4 DEF PayLands, callers, row, StoreTyped
  <2>6. QED BY <2>2, <2>5 DEF TypeInv
<1>10. ASSUME NEW r \in Run, PayReverts(r) PROVE TypeInv'
  <2>1. RunTyped'
    BY <1>10, <1>t, NextRowTyped DEF PayReverts
  <2>2. pool' \in Nat /\ burnt' \in Nat
    <3>1. pool \in Nat /\ burnt \in Nat
      BY <1>t DEF StoreTyped
    <3>2. Smaller(Fee, pool) \in Nat /\ Smaller(Fee, pool) <= pool
      BY <3>1, <1>n, Numbers
    <3>3. pool' = pool - Smaller(Fee, pool) /\ burnt' = burnt + Smaller(Fee, pool)
      BY <1>10 DEF PayReverts
    <3>4. QED BY <3>1, <3>2, <3>3
  <2>3. StoreTyped'
    BY <1>10, <1>t, <2>2 DEF PayReverts, callers, row, StoreTyped
  <2>4. QED BY <2>1, <2>3 DEF TypeInv
<1>11. ASSUME NEW r \in Run, PayTimesOut(r) PROVE TypeInv'
  <2>1. RunTyped'
    BY <1>11, <1>t, NextRowTyped DEF PayTimesOut
  <2>2. late' \subseteq Run \X Claim \X (Nat \ {0})
    BY <1>11, AbandonTyped DEF PayTimesOut
  <2>3. StoreTyped'
    BY <1>11, <1>t, <2>2 DEF PayTimesOut, callers, row, StoreTyped
  <2>4. QED BY <2>1, <2>3 DEF TypeInv
<1>12. ASSUME NEW r \in Run, MarkRow(r) PROVE TypeInv'
  <2>1. at[r] \in Claim /\ amt[r] > 0
    BY <1>12, <1>t DEF MarkRow, RunTyped, RunsHold
  <2>2. RunTyped'
    BY <1>12, <1>t, <2>1, GotoTyped DEF MarkRow, Label
  <2>3. StoreTyped'
    BY <1>12, <1>t DEF MarkRow, Mark, callers, chain, StoreTyped
  <2>4. QED BY <2>2, <2>3 DEF TypeInv
<1>13. ASSUME NEW r \in Run, BookRow(r) PROVE TypeInv'
  <2>1. at[r] \in Claim /\ amt[r] \in Nat
    BY <1>13, <1>t DEF BookRow, RunTyped, RunsHold
  <2>2. RunTyped'
    BY <1>13, <1>t, NextRowTyped DEF BookRow
  <2>3. booked' \in [Claim -> [hold : Nat, payee : Nat, sender : Nat]]
    BY <1>13, <1>t, <2>1, BookedTyped DEF BookRow
  <2>4. StoreTyped'
    BY <1>13, <1>t, <2>3 DEF BookRow, callers, row, chain, StoreTyped
  <2>5. QED BY <2>2, <2>4 DEF TypeInv
<1>14. ASSUME NEW r \in Run, RowFails(r) PROVE TypeInv'
  <2>1. RunTyped'
    BY <1>14, <1>t, NextRowTyped DEF RowFails
  <2>2. StoreTyped'
    BY <1>14, <1>t DEF RowFails, callers, row, chain, StoreTyped
  <2>3. QED BY <2>1, <2>2 DEF TypeInv
<1>15. ASSUME NEW r \in Run, Crash(r) PROVE TypeInv'
  <2>1. RunTyped'
    BY <1>15, <1>t DEF Crash, Goto, RunTyped, RunsHold, Label
  <2>2. late' \subseteq Run \X Claim \X (Nat \ {0})
    <3>1. CASE pc[r] = "pay"
      BY <1>15, <3>1, AbandonTyped DEF Crash
    <3>2. CASE pc[r] # "pay"
      BY <1>15, <3>2, <1>t DEF Crash, StoreTyped
    <3>3. QED BY <3>1, <3>2
  <2>3. StoreTyped'
    BY <1>15, <1>t, <2>2 DEF Crash, callers, row, StoreTyped
  <2>4. QED BY <2>1, <2>3 DEF TypeInv
<1>16. ASSUME NEW t \in late, LateLands(t) PROVE TypeInv'
  <2>1. t \in Run \X Claim \X (Nat \ {0})
    BY <1>t DEF StoreTyped
  <2>2. t[2] \in Claim /\ t[3] \in Nat
    BY <2>1
  <2>3. got' \in [Claim -> [payee : Nat, sender : Nat]]
    BY <1>16, <1>t, <2>2, GotTyped DEF LateLands
  <2>4. pool' \in Nat /\ burnt' \in Nat
    BY <1>16, <1>t, <1>n, <2>2 DEF LateLands, StoreTyped
  <2>5. RunTyped' /\ StoreTyped'
    BY <1>16, <1>t, <2>3, <2>4 DEF LateLands, callers, row, run, RunTyped, RunsHold, StoreTyped
  <2>6. QED BY <2>5 DEF TypeInv
<1>17. ASSUME NEW t \in late, LateFails(t) PROVE TypeInv'
  BY <1>17, <1>t DEF TypeInv, LateFails, callers, row, run, RunTyped, RunsHold, StoreTyped
<1>18. CASE UNCHANGED vars
  BY <1>18, <1>t DEF TypeInv, vars, callers, row, chain, run, RunTyped, RunsHold, StoreTyped
<1>19. QED
  BY <1>1, <1>2, <1>3, <1>4, <1>5, <1>6, <1>7, <1>8, <1>9, <1>10, <1>11, <1>12, <1>13,
     <1>14, <1>15, <1>16, <1>17, <1>18 DEF Next, WorkersAlive, Run, OneRow

\* Every variable of the escrow keeps its type, whatever runs at once.
THEOREM EscrowTypeCorrect == Spec => []TypeOK
<1>1. TypeInv => TypeOK
  BY TypeInvIsTypeOK
<1>2. QED BY <1>1, TypeInit, TypeStep, PTL DEF Spec

-----------------------------------------------------------------------------
(* The other parts of the invariant *)

\* The initial state has no row, no run and no payout.
LEMMA IInvInit == Init => IInv
<1> SUFFICES ASSUME Init PROVE IInv
  OBVIOUS
<1>1. TypeOK /\ RunsHold
  BY TypeInit, TypeInvIsTypeOK
<1>2. RowsAreOpen
  BY NoneAssumption DEF Init, RowsAreOpen
<1>3. RunsHavePaid /\ SettledBacked
  BY DEF Init, RunsHavePaid, SettledBacked
<1>4. QED BY <1>1, <1>2, <1>3 DEF IInv

\* The hypotheses of a step from a state of the invariant, with the types spelled out.
Typed == IInv /\ RunTyped /\ StoreTyped

\* Rows and runs: no step forgets a row, opens one before its money has moved, or
\* gives a run a claim without a row.
LEMMA RowsStep == Typed /\ [Next]_vars => RowsAreOpen'
<1> SUFFICES ASSUME Typed, [Next]_vars PROVE RowsAreOpen'
  OBVIOUS
<1>t. RowsAreOpen /\ RunTyped /\ StoreTyped
  BY DEF Typed, IInv
<1>1. ASSUME NEW c \in Claim, Hold(c) PROVE RowsAreOpen'
  <2>1. CASE HoldSubmit(c) \/ HoldLands(c)
    BY <2>1, <1>t DEF HoldSubmit, HoldLands, Advance, row, run, RowsAreOpen, StoreTyped
  <2>2. CASE HoldRow(c)
    BY <2>2, <1>t DEF HoldRow, Advance, run, RowsAreOpen, StoreTyped
  <2>3. CASE HoldBook(c) \/ HoldFails(c)
    BY <2>3, <1>t DEF HoldBook, HoldFails, Advance, row, run, RowsAreOpen, StoreTyped
  <2>4. QED BY <1>1, <2>1, <2>2, <2>3 DEF Hold
<1>2. ASSUME NEW c \in Claim, Expires(c) PROVE RowsAreOpen'
  BY <1>2, <1>t DEF Expires, run, RowsAreOpen
<1>3. ASSUME NEW r \in Onboarder, SetPin(r) \/ StorePin(r) PROVE RowsAreOpen'
  BY <1>3, <1>t DEF SetPin, StorePin, row, RowsAreOpen
<1>4. ASSUME NEW r \in Onboarder, Fulfill(r) PROVE RowsAreOpen'
  BY <1>4, <1>t DEF Fulfill, List, row, RowsAreOpen, RunTyped
<1>5. ASSUME NEW r \in Worker, Expire(r) PROVE RowsAreOpen'
  BY <1>5, <1>t DEF Expire, List, row, RowsAreOpen, RunTyped
<1>6. ASSUME NEW r \in Run, TakeRow(r) PROVE RowsAreOpen'
  BY <1>6, <1>t DEF TakeRow, row, RowsAreOpen, RunTyped
<1>7. ASSUME NEW r \in Run, ListDone(r) PROVE RowsAreOpen'
  BY <1>7, <1>t DEF ListDone, row, RowsAreOpen
<1>8. ASSUME NEW r \in Run, NextRow(r), UNCHANGED <<hold, row>> PROVE RowsAreOpen'
  BY <1>8, <1>t, NoneAssumption DEF NextRow, row, RowsAreOpen, RunTyped
<1>9. ASSUME NEW r \in Run, UNCHANGED <<hold, row, todo, at>> PROVE RowsAreOpen'
  BY <1>9, <1>t DEF row, RowsAreOpen
<1>10. ASSUME NEW r \in Run, MarkRow(r) PROVE RowsAreOpen'
  <2>1. at[r] \in Claim
    BY <1>10, <1>t DEF MarkRow, RunTyped, RunsHold
  <2>2. status[at[r]] # "none"
    BY <2>1, <1>t DEF RowsAreOpen
  <2>3. QED BY <1>10, <2>1, <2>2, <1>t DEF MarkRow, Mark, RowsAreOpen, StoreTyped
<1>11. ASSUME NEW r \in Run, Crash(r) PROVE RowsAreOpen'
  BY <1>11, <1>t, NoneAssumption DEF Crash, row, RowsAreOpen, RunTyped
<1>12. ASSUME NEW t \in late, LateLands(t) \/ LateFails(t) PROVE RowsAreOpen'
  BY <1>12, <1>t DEF LateLands, LateFails, row, run, RowsAreOpen
<1>13. CASE UNCHANGED vars
  BY <1>13, <1>t DEF vars, row, run, RowsAreOpen
<1>14. ASSUME NEW r \in Run, OneRow(r) PROVE RowsAreOpen'
  <2>1. CASE PayReverts(r) \/ PayTimesOut(r) \/ BookRow(r) \/ RowFails(r)
    BY <2>1, <1>8 DEF PayReverts, PayTimesOut, BookRow, RowFails
  <2>2. CASE ReadBalance(r)
    BY <2>2, <1>8, <1>9 DEF ReadBalance
  <2>3. CASE PayLands(r)
    BY <2>3, <1>9 DEF PayLands
  <2>4. QED BY <1>14, <2>1, <2>2, <2>3, <1>6, <1>7, <1>10 DEF OneRow
<1>15. QED
  BY <1>1, <1>2, <1>3, <1>4, <1>5, <1>11, <1>12, <1>13, <1>14 DEF Next, WorkersAlive, Run

\* A step that leaves payouts and marks alone keeps settled claims backed, as long as
\* no run starts to mark or book.
LEMMA BackedKept ==
  ASSUME RunsHavePaid, SettledBacked, UNCHANGED <<status, got>>,
         \A r \in Run : pc'[r] \in {"mark", "book"} => pc[r] = pc'[r] /\ at'[r] = at[r]
  PROVE  RunsHavePaid' /\ SettledBacked'
  BY DEF RunsHavePaid, SettledBacked

\* A step that pays a side more keeps everything that was backed backed.
LEMMA BackedGrows ==
  ASSUME StoreTyped, NEW c \in Claim, NEW s \in Run, NEW n \in Nat,
         got' = [got EXCEPT ![c][Side(s)] = @ + n]
  PROVE  /\ \A d \in Claim : /\ got[d].payee > 0 => got'[d].payee > 0
                             /\ got[d].sender > 0 => got'[d].sender > 0
         /\ \A d \in Claim, r \in Run : got[d][Side(r)] > 0 => got'[d][Side(r)] > 0
         /\ n > 0 => got'[c][Side(s)] > 0
<1>1. CASE Side(s) = "payee"
  BY <1>1 DEF StoreTyped, Side
<1>2. CASE Side(s) = "sender"
  BY <1>2 DEF StoreTyped, Side
<1>3. QED BY <1>1, <1>2 DEF Side

\* Marks are backed: a run marks a row only after its payout has landed.
LEMMA BackedStep == Typed /\ [Next]_vars => RunsHavePaid' /\ SettledBacked'
<1> SUFFICES ASSUME Typed, [Next]_vars PROVE RunsHavePaid' /\ SettledBacked'
  OBVIOUS
<1>t. RunsHavePaid /\ SettledBacked /\ RunTyped /\ StoreTyped
  BY DEF Typed, IInv
<1>1. ASSUME NEW c \in Claim, Hold(c) PROVE RunsHavePaid' /\ SettledBacked'
  <2>1. RunsHavePaid'
    BY <1>1, <1>t DEF Hold, HoldSubmit, HoldLands, HoldRow, HoldBook, HoldFails, run, chain, RunsHavePaid
  <2>2. SettledBacked'
    BY <1>1, <1>t DEF Hold, HoldSubmit, HoldLands, HoldRow, HoldBook, HoldFails, row, chain,
       SettledBacked, StoreTyped
  <2>3. QED BY <2>1, <2>2
<1>2. ASSUME NEW c \in Claim, Expires(c) PROVE RunsHavePaid' /\ SettledBacked'
  BY <1>2, <1>t, BackedKept DEF Expires, run, chain
<1>3. ASSUME NEW r \in Onboarder, SetPin(r) \/ StorePin(r) PROVE RunsHavePaid' /\ SettledBacked'
  BY <1>3, <1>t, BackedKept DEF SetPin, StorePin, Goto, row, chain, RunTyped, Run
<1>4. ASSUME NEW r \in Onboarder, Fulfill(r) PROVE RunsHavePaid' /\ SettledBacked'
  BY <1>4, <1>t, BackedKept DEF Fulfill, List, Goto, row, chain, RunTyped, Run
<1>5. ASSUME NEW r \in Worker, Expire(r) PROVE RunsHavePaid' /\ SettledBacked'
  BY <1>5, <1>t, BackedKept DEF Expire, List, Goto, row, chain, RunTyped, Run
<1>6. ASSUME NEW r \in Run, TakeRow(r) PROVE RunsHavePaid' /\ SettledBacked'
  BY <1>6, <1>t, BackedKept DEF TakeRow, Goto, row, chain, RunTyped
<1>7. ASSUME NEW r \in Run, ListDone(r) PROVE RunsHavePaid' /\ SettledBacked'
  BY <1>7, <1>t, BackedKept DEF ListDone, Goto, row, chain, RunTyped
<1>8. ASSUME NEW r \in Run, NextRow(r), UNCHANGED <<status, got>>
      PROVE  RunsHavePaid' /\ SettledBacked'
  BY <1>8, <1>t, BackedKept DEF NextRow, Goto, RunTyped
<1>9. ASSUME NEW r \in Run, ReadBalance(r) PROVE RunsHavePaid' /\ SettledBacked'
  <2>1. UNCHANGED <<status, got>>
    BY <1>9 DEF ReadBalance, row, chain
  <2>2. CASE NextRow(r)
    BY <2>1, <2>2, <1>8
  <2>3. CASE Goto(r, "pay") /\ UNCHANGED at
    BY <2>1, <2>3, <1>t, BackedKept DEF Goto, RunTyped
  <2>4. QED BY <1>9, <2>2, <2>3 DEF ReadBalance
<1>10. ASSUME NEW r \in Run, PayLands(r) PROVE RunsHavePaid' /\ SettledBacked'
  <2>1. at[r] \in Claim /\ amt[r] \in Nat /\ amt[r] > 0
    BY <1>10, <1>t DEF PayLands, RunTyped, RunsHold
  <2>2. /\ \A d \in Claim : /\ got[d].payee > 0 => got'[d].payee > 0
                            /\ got[d].sender > 0 => got'[d].sender > 0
        /\ \A d \in Claim, q \in Run : got[d][Side(q)] > 0 => got'[d][Side(q)] > 0
        /\ got'[at[r]][Side(r)] > 0
    BY <1>10, <1>t, <2>1, BackedGrows DEF PayLands
  <2>3. SettledBacked'
    BY <1>10, <1>t, <2>2 DEF PayLands, row, SettledBacked
  <2>4. RunsHavePaid'
    <3> SUFFICES ASSUME NEW q \in Run, pc'[q] \in {"mark", "book"} PROVE got'[at'[q]][Side(q)] > 0
      BY DEF RunsHavePaid
    <3>1. at' = at
      BY <1>10 DEF PayLands
    <3>2. CASE q = r
      BY <2>2, <3>1, <3>2
    <3>3. CASE q # r
      <4>1. pc[q] \in {"mark", "book"}
        BY <1>10, <3>3, <1>t DEF PayLands, Goto, RunTyped
      <4>2. at[q] \in Claim /\ got[at[q]][Side(q)] > 0
        BY <4>1, <1>t DEF RunsHavePaid, RunTyped, RunsHold
      <4>3. QED BY <4>2, <3>1, <2>2
    <3>4. QED BY <3>2, <3>3
  <2>5. QED BY <2>3, <2>4
<1>11. ASSUME NEW r \in Run, MarkRow(r) PROVE RunsHavePaid' /\ SettledBacked'
  <2>1. at[r] \in Claim /\ got[at[r]][Side(r)] > 0
    BY <1>11, <1>t DEF MarkRow, RunTyped, RunsHold, RunsHavePaid
  <2>2. RunsHavePaid'
    BY <1>11, <1>t DEF MarkRow, Goto, chain, RunTyped, RunsHavePaid
  <2>3. SettledBacked'
    BY <1>11, <1>t, <2>1 DEF MarkRow, Mark, Side, chain, StoreTyped, SettledBacked
  <2>4. QED BY <2>2, <2>3
<1>12. ASSUME NEW r \in Run, Crash(r) PROVE RunsHavePaid' /\ SettledBacked'
  BY <1>12, <1>t, BackedKept DEF Crash, Goto, row, RunTyped
<1>13. ASSUME NEW t \in late, LateLands(t) PROVE RunsHavePaid' /\ SettledBacked'
  <2>1. t \in Run \X Claim \X (Nat \ {0})
    BY <1>t DEF StoreTyped
  <2>2. t[1] \in Run /\ t[2] \in Claim /\ t[3] \in Nat
    BY <2>1
  <2>3. /\ \A d \in Claim : /\ got[d].payee > 0 => got'[d].payee > 0
                            /\ got[d].sender > 0 => got'[d].sender > 0
        /\ \A d \in Claim, q \in Run : got[d][Side(q)] > 0 => got'[d][Side(q)] > 0
    BY <1>13, <1>t, <2>2, BackedGrows DEF LateLands
  <2>4. SettledBacked'
    BY <1>13, <1>t, <2>3 DEF LateLands, row, SettledBacked
  <2>5. RunsHavePaid'
    BY <1>13, <1>t, <2>3 DEF LateLands, run, RunsHavePaid, RunTyped, RunsHold
  <2>6. QED BY <2>4, <2>5
<1>14. ASSUME NEW t \in late, LateFails(t) PROVE RunsHavePaid' /\ SettledBacked'
  BY <1>14, <1>t DEF LateFails, row, run, RunsHavePaid, SettledBacked
<1>15. CASE UNCHANGED vars
  BY <1>15, <1>t DEF vars, row, run, chain, RunsHavePaid, SettledBacked
<1>16. ASSUME NEW r \in Run, OneRow(r) PROVE RunsHavePaid' /\ SettledBacked'
  <2>1. CASE PayReverts(r) \/ PayTimesOut(r) \/ BookRow(r) \/ RowFails(r)
    BY <2>1, <1>8 DEF PayReverts, PayTimesOut, BookRow, RowFails, row, chain
  <2>2. QED BY <1>16, <2>1, <1>6, <1>7, <1>9, <1>10, <1>11 DEF OneRow
<1>17. QED
  BY <1>1, <1>2, <1>3, <1>4, <1>5, <1>12, <1>13, <1>14, <1>15, <1>16 DEF Next, WorkersAlive, Run

\* The invariant is inductive.
LEMMA IInvStep == IInv /\ [Next]_vars => IInv'
<1>1. IInv => Typed
  BY TypeInvIsTypeOK DEF IInv, Typed, TypeInv
<1>2. Typed /\ [Next]_vars => TypeOK' /\ RunsHold'
  <2>1. TypeInv' => TypeOK' /\ RunsHold'
    BY DEF TypeInv, RunTyped, StoreTyped, TypeOK, Label
  <2>2. QED BY <2>1, TypeStep DEF Typed, TypeInv
<1>3. QED BY <1>1, <1>2, RowsStep, BackedStep DEF IInv

\* The inductive invariant of Escrow holds of every reachable state.
THEOREM IInvAlways == Spec => []IInv
  BY IInvInit, IInvStep, PTL DEF Spec

\* claims.ts settles a claim only for money that moved: under any number of
\* concurrent onboardings and expiry runs, with reverts, timeouts, late landings and
\* crashes, "claimed" means the payee was paid and "refunded" the sender.
THEOREM SettledClaimsAreBacked == Spec => []SettledBacked
<1>1. IInv => SettledBacked
  BY DEF IInv
<1>2. QED BY <1>1, IInvAlways, PTL

-----------------------------------------------------------------------------
(* Settled claims stay settled *)

\* One step of a claim that is over.
LEMMA OverStep ==
  ASSUME Typed, [Next]_vars, NEW c \in Claim, Over(c)
  PROVE  Over(c)' /\ status'[c] = status[c] /\ got'[c] = got[c]
<1> DEFINE Same == Over(c)' /\ status'[c] = status[c] /\ got'[c] = got[c]
<1>t. RowsAreOpen /\ RunTyped /\ StoreTyped
  BY DEF Typed, IInv
<1>o. /\ status[c] \in {"claimed", "refunded"} /\ hold[c] \in {"rowed", "over"}
      /\ \A r \in Run : c \notin todo[r] /\ at[r] # c
      /\ \A t \in late : t[2] # c
  BY <1>t DEF Over, RowsAreOpen
<1>1. ASSUME NEW d \in Claim, Hold(d) PROVE Same
  BY <1>1, <1>o, <1>t DEF Hold, HoldSubmit, HoldLands, HoldRow, HoldBook, HoldFails, Advance,
     row, run, chain, Over, StoreTyped
<1>2. ASSUME NEW d \in Claim, Expires(d) PROVE Same
  BY <1>2, <1>o DEF Expires, run, chain, Over
<1>3. ASSUME NEW r \in Onboarder, SetPin(r) \/ StorePin(r) PROVE Same
  BY <1>3, <1>o DEF SetPin, StorePin, row, chain, Over
<1>4. ASSUME NEW r \in Onboarder, Fulfill(r) PROVE Same
  BY <1>4, <1>o, <1>t DEF Fulfill, List, row, chain, Over, RunTyped
<1>5. ASSUME NEW r \in Worker, Expire(r) PROVE Same
  BY <1>5, <1>o, <1>t DEF Expire, List, row, chain, Over, RunTyped
<1>6. ASSUME NEW r \in Run, TakeRow(r) PROVE Same
  BY <1>6, <1>o, <1>t DEF TakeRow, row, chain, Over, RunTyped
<1>7. ASSUME NEW r \in Run, ListDone(r) PROVE Same
  BY <1>7, <1>o DEF ListDone, row, chain, Over
<1>8. ASSUME NEW r \in Run, NextRow(r), UNCHANGED <<status, got, late>> PROVE Same
  BY <1>8, <1>o, <1>t, NoneAssumption DEF NextRow, Over, RunTyped
<1>9. ASSUME NEW r \in Run, ReadBalance(r) PROVE Same
  <2>1. UNCHANGED <<status, got, late>>
    BY <1>9 DEF ReadBalance, row, chain
  <2>2. CASE NextRow(r)
    BY <2>1, <2>2, <1>8
  <2>3. CASE UNCHANGED <<todo, at>>
    BY <2>1, <2>3, <1>o DEF Over
  <2>4. QED BY <1>9, <2>2, <2>3 DEF ReadBalance
<1>10. ASSUME NEW r \in Run, PayLands(r) PROVE Same
  BY <1>10, <1>o, <1>t DEF PayLands, row, Over, StoreTyped
<1>11. ASSUME NEW r \in Run, PayTimesOut(r) PROVE Same
  BY <1>11, <1>o, <1>t, NoneAssumption DEF PayTimesOut, Abandon, NextRow, row, Over, RunTyped
<1>12. ASSUME NEW r \in Run, MarkRow(r) PROVE Same
  BY <1>12, <1>o, <1>t DEF MarkRow, chain, Over, StoreTyped
<1>13. ASSUME NEW r \in Run, Crash(r) PROVE Same
  BY <1>13, <1>o, <1>t, NoneAssumption DEF Crash, Abandon, row, Over, RunTyped
<1>14. ASSUME NEW t \in late, LateLands(t) PROVE Same
  BY <1>14, <1>o, <1>t DEF LateLands, row, run, Over, StoreTyped
<1>15. ASSUME NEW t \in late, LateFails(t) PROVE Same
  BY <1>15, <1>o DEF LateFails, row, run, Over
<1>16. CASE UNCHANGED vars
  BY <1>16, <1>o DEF vars, row, run, chain, Over
<1>17. ASSUME NEW r \in Run, OneRow(r) PROVE Same
  <2>1. CASE PayReverts(r) \/ BookRow(r) \/ RowFails(r)
    BY <2>1, <1>8 DEF PayReverts, BookRow, RowFails, row, chain
  <2>2. QED BY <1>17, <2>1, <1>6, <1>7, <1>9, <1>10, <1>11, <1>12 DEF OneRow
<1>18. QED
  BY <1>1, <1>2, <1>3, <1>4, <1>5, <1>13, <1>14, <1>15, <1>16, <1>17 DEF Next, WorkersAlive, Run

\* Once a claim is settled and nobody who saw it held is still at work on it, it is
\* over: whatever runs start later, it is not paid or marked again.
THEOREM SettledClaimsAreOver == Spec => SettledIsOver
<1> DEFINE Stays == \A c \in Claim : Over(c) =>
      Over(c)' /\ status'[c] = status[c] /\ got'[c] = got[c]
<1>1. IInv /\ [Next]_vars => [Stays]_vars
  <2>1. IInv => Typed
    BY TypeInvIsTypeOK DEF IInv, Typed, TypeInv
  <2>2. QED BY <2>1, OverStep
<1>2. Spec => [][Stays]_vars
  BY <1>1, IInvAlways, PTL DEF Spec
<1>3. QED BY <1>2 DEF SettledIsOver

-----------------------------------------------------------------------------
(* The ledger *)

Sides == {"payee", "sender"}

\* What a run has paid to a side of a claim and not booked yet, and all the runs.
Share(r, c, s) ==
  IF pc[r] \in {"mark", "book"} /\ at[r] = c /\ Side(r) = s THEN amt[r] ELSE 0
Waiting(c, s) == SumFunctionOnSet([r \in Run |-> Share(r, c, s)], Run)

\* What is booked, and what is still to be booked, has been paid.
LedgerInv == \A c \in Claim, s \in Sides : booked[c][s] + Waiting(c, s) <= got[c][s]

\* A step of one run changes what is waiting by what that run has waiting.
LEMMA WaitingMoves ==
  ASSUME RunTyped, RunTyped', NEW r \in Run, NEW c, NEW s,
         \A q \in Run \ {r} : pc'[q] = pc[q] /\ at'[q] = at[q] /\ amt'[q] = amt[q]
  PROVE  /\ Waiting(c, s)' = Waiting(c, s) + (Share(r, c, s)' - Share(r, c, s))
         /\ Waiting(c, s) \in Nat /\ Waiting(c, s)' \in Nat
         /\ Share(r, c, s) \in Nat /\ Share(r, c, s)' \in Nat
<1> DEFINE f == [q \in Run |-> Share(q, c, s)]
           g == [q \in Run |-> Share(q, c, s)']
<1>1. IsFiniteSet(Run)
  BY RunsAssumption DEF Run
<1>2. ASSUME NEW q \in Run
      PROVE  Share(q, c, s) \in Nat /\ Share(q, c, s)' \in Nat
  BY DEF Share, RunTyped
<1>3. \A q \in Run : f[q] \in Nat /\ g[q] \in Nat /\ f[q] \in Int /\ g[q] \in Int
  BY <1>2
<1>4. \A q \in Run \ {r} : f[q] = g[q]
  BY DEF Share
<1>5. Waiting(c, s) = SumFunctionOnSet(f, Run) /\ Waiting(c, s)' = SumFunctionOnSet(g, Run)
  BY DEF Waiting
<1>6. f[r] = Share(r, c, s) /\ g[r] = Share(r, c, s)'
  OBVIOUS
<1> HIDE DEF f, g
<1>7. SumFunctionOnSet(g, Run) = SumFunctionOnSet(f, Run) + (g[r] - f[r])
  BY <1>1, <1>3, <1>4, SumChanges
<1>8. SumFunctionOnSet(f, Run) \in Nat /\ SumFunctionOnSet(g, Run) \in Nat
  BY <1>1, <1>3, SumIsNat
<1> QED
  BY <1>2, <1>5, <1>6, <1>7, <1>8

\* What one side has booked, and what it has got, as numbers.
LEMMA SidesTyped ==
  ASSUME StoreTyped, NEW c \in Claim, NEW s \in Sides
  PROVE  booked[c][s] \in Nat /\ got[c][s] \in Nat
<1>1. CASE s = "payee"
  BY <1>1 DEF StoreTyped
<1>2. CASE s = "sender"
  BY <1>2 DEF StoreTyped
<1> QED
  BY <1>1, <1>2 DEF Sides

\* A step of one run keeps the ledger within the payouts, if it books no more than it
\* takes from what is waiting and leaves no more to wait than it pays.
LEMMA LedgerMoves ==
  ASSUME LedgerInv, RunTyped, RunTyped', StoreTyped, StoreTyped', NEW r \in Run,
         \A q \in Run \ {r} : pc'[q] = pc[q] /\ at'[q] = at[q] /\ amt'[q] = amt[q],
         \A c \in Claim, s \in Sides :
           booked'[c][s] + Share(r, c, s)' + got[c][s]
             <= got'[c][s] + booked[c][s] + Share(r, c, s)
  PROVE  LedgerInv'
<1> SUFFICES ASSUME NEW c \in Claim, NEW s \in Sides
             PROVE  booked'[c][s] + Waiting(c, s)' <= got'[c][s]
  BY DEF LedgerInv
<1>1. booked[c][s] + Waiting(c, s) <= got[c][s]
  BY DEF LedgerInv
<1>2. /\ Waiting(c, s)' = Waiting(c, s) + (Share(r, c, s)' - Share(r, c, s))
      /\ Waiting(c, s) \in Nat /\ Waiting(c, s)' \in Nat
      /\ Share(r, c, s) \in Nat /\ Share(r, c, s)' \in Nat
  BY WaitingMoves
<1>3. booked[c][s] \in Nat /\ got[c][s] \in Nat
  BY SidesTyped
<1>4. booked'[c][s] \in Nat /\ got'[c][s] \in Nat
  <2>1. CASE s = "payee"
    BY <2>1 DEF StoreTyped
  <2>2. CASE s = "sender"
    BY <2>2 DEF StoreTyped
  <2> QED
    BY <2>1, <2>2 DEF Sides
<1>5. booked'[c][s] + Share(r, c, s)' + got[c][s]
        <= got'[c][s] + booked[c][s] + Share(r, c, s)
  OBVIOUS
<1> HIDE DEF LedgerInv
<1> QED
  BY <1>1, <1>2, <1>3, <1>4, <1>5

\* A step that leaves ledger and payouts alone keeps the one within the other, if no
\* run gets more to book by it.
LEMMA LedgerMovesOn ==
  ASSUME LedgerInv, RunTyped, RunTyped', StoreTyped, StoreTyped', NEW r \in Run,
         \A q \in Run \ {r} : pc'[q] = pc[q] /\ at'[q] = at[q] /\ amt'[q] = amt[q],
         UNCHANGED <<booked, got>>,
         pc'[r] \notin {"mark", "book"} \/
           (pc[r] \in {"mark", "book"} /\ UNCHANGED <<at, amt>>)
  PROVE  LedgerInv'
<1>1. ASSUME NEW c \in Claim, NEW s \in Sides
      PROVE  booked'[c][s] + Share(r, c, s)' + got[c][s]
               <= got'[c][s] + booked[c][s] + Share(r, c, s)
  <2>1. booked[c][s] \in Nat /\ got[c][s] \in Nat
    BY SidesTyped
  <2>2. Share(r, c, s)' \in Nat /\ Share(r, c, s) \in Nat /\ Share(r, c, s)' <= Share(r, c, s)
    BY DEF Share, RunTyped
  <2> QED
    BY <2>1, <2>2
<1> QED
  BY <1>1, LedgerMoves

\* A step of no run keeps the ledger within the payouts, if it books nothing to a
\* side and takes nothing from it.
LEMMA LedgerStays ==
  ASSUME LedgerInv, RunTyped, StoreTyped, StoreTyped', UNCHANGED run,
         \A c \in Claim, s \in Sides :
           booked'[c][s] = booked[c][s] /\ got[c][s] <= got'[c][s]
  PROVE  LedgerInv'
<1> SUFFICES ASSUME NEW c \in Claim, NEW s \in Sides
             PROVE  booked'[c][s] + Waiting(c, s)' <= got'[c][s]
  BY DEF LedgerInv
<1>1. booked[c][s] + Waiting(c, s) <= got[c][s] /\ booked'[c][s] = booked[c][s]
      /\ got[c][s] <= got'[c][s]
  BY DEF LedgerInv
<1>2. Waiting(c, s)' = Waiting(c, s)
  BY DEF run, Waiting, Share
<1>3. booked[c][s] \in Nat /\ got[c][s] \in Nat
  BY SidesTyped
<1>4. got'[c][s] \in Nat
  <2>1. CASE s = "payee"
    BY <2>1 DEF StoreTyped
  <2>2. CASE s = "sender"
    BY <2>2 DEF StoreTyped
  <2> QED
    BY <2>1, <2>2 DEF Sides
<1>5. Waiting(c, s) \in Int
  <2>1. IsFiniteSet(Run)
    BY RunsAssumption DEF Run
  <2>2. \A q \in Run : [p \in Run |-> Share(p, c, s)][q] \in Int
    BY DEF Share, RunTyped
  <2> QED
    BY <2>1, <2>2, SumIsInt DEF Waiting
<1> HIDE DEF LedgerInv
<1> QED
  BY <1>1, <1>2, <1>3, <1>4, <1>5

\* A payment is recorded after it has landed, and what waits to be booked is what has
\* been paid: no step takes the ledger past the payouts.
LEMMA LedgerStep == Typed /\ TypeInv' /\ LedgerInv /\ [Next]_vars => LedgerInv'
<1> SUFFICES ASSUME Typed, TypeInv', LedgerInv, [Next]_vars
             PROVE  LedgerInv'
  OBVIOUS
<1>t. RunTyped /\ StoreTyped /\ RunTyped' /\ StoreTyped'
  BY DEF Typed, TypeInv
<1>n. \A c \in Claim, s \in Sides : booked[c][s] \in Nat /\ got[c][s] \in Nat
  BY <1>t, SidesTyped
<1>1. ASSUME NEW c \in Claim, Hold(c)
      PROVE  LedgerInv'
  <2>1. UNCHANGED <<run, got>>
    BY <1>1 DEF Hold, HoldSubmit, HoldLands, HoldRow, HoldBook, HoldFails, chain
  <2>2. ASSUME NEW d \in Claim, NEW s \in Sides
        PROVE  booked'[d][s] = booked[d][s]
    BY <1>1, <1>t DEF Hold, HoldSubmit, HoldLands, HoldRow, HoldBook, HoldFails, StoreTyped, Sides
  <2>3. ASSUME NEW d \in Claim, NEW s \in Sides
        PROVE  got[d][s] <= got'[d][s]
    BY <1>n, <2>1
  <2> QED
    BY <1>t, <2>1, <2>2, <2>3, LedgerStays
<1>2. ASSUME UNCHANGED <<run, booked, got>>
      PROVE  LedgerInv'
  BY <1>2, <1>t, <1>n, LedgerStays
<1>3. ASSUME NEW r \in Onboarder, SetPin(r) \/ StorePin(r)
      PROVE  LedgerInv'
  BY <1>3, <1>t, LedgerMovesOn DEF SetPin, StorePin, Goto, chain, RunTyped, Run
<1>4. ASSUME NEW r \in Onboarder, Fulfill(r)
      PROVE  LedgerInv'
  BY <1>4, <1>t, LedgerMovesOn DEF Fulfill, List, Goto, chain, RunTyped, Run
<1>5. ASSUME NEW r \in Worker, Expire(r)
      PROVE  LedgerInv'
  BY <1>5, <1>t, LedgerMovesOn DEF Expire, List, Goto, chain, RunTyped, Run
<1>6. ASSUME NEW r \in Run, TakeRow(r)
      PROVE  LedgerInv'
  BY <1>6, <1>t, LedgerMovesOn DEF TakeRow, Goto, chain, RunTyped
<1>7. ASSUME NEW r \in Run, ListDone(r)
      PROVE  LedgerInv'
  BY <1>7, <1>t, LedgerMovesOn DEF ListDone, Goto, chain, RunTyped
<1>8. ASSUME NEW r \in Run, NextRow(r), UNCHANGED <<booked, got>>
      PROVE  LedgerInv'
  BY <1>8, <1>t, LedgerMovesOn DEF NextRow, Goto, RunTyped
<1>9. ASSUME NEW r \in Run, ReadBalance(r)
      PROVE  LedgerInv'
  <2> DEFINE pay == Payable(want[at[r]], pool)
  <2>1. UNCHANGED <<booked, got>>
    BY <1>9 DEF ReadBalance, chain
  <2>2. CASE NextRow(r)
    BY <2>1, <2>2, <1>8
  <2>3. CASE amt' = [amt EXCEPT ![r] = pay] /\ Goto(r, "pay") /\ UNCHANGED <<todo, at>>
    <3> HIDE DEF pay
    <3> QED
      BY <2>1, <2>3, <1>t, LedgerMovesOn DEF Goto, RunTyped
  <2> QED
    BY <1>9, <2>2, <2>3 DEF ReadBalance
<1>10. ASSUME NEW r \in Run, PayLands(r)
       PROVE  LedgerInv'
  <2>1. at[r] \in Claim /\ amt[r] \in Nat /\ Side(r) \in Sides /\ pc[r] = "pay"
    BY <1>10, <1>t DEF PayLands, RunTyped, RunsHold, Side, Sides
  <2>2. pc' = [pc EXCEPT ![r] = "mark"] /\ UNCHANGED <<at, amt, booked>>
    BY <1>10 DEF PayLands, Goto
  <2>3. ASSUME NEW c \in Claim, NEW s \in Sides
        PROVE  got'[c][s] = got[c][s] + Share(r, c, s)' /\ Share(r, c, s) = 0
    <3>1. pc'[r] = "mark"
      BY <2>2, <1>t DEF RunTyped
    <3>2. Share(r, c, s)' = IF at[r] = c /\ Side(r) = s THEN amt[r] ELSE 0
      BY <2>2, <3>1 DEF Share
    <3>3. got' = [got EXCEPT ![at[r]][Side(r)] = @ + amt[r]]
      BY <1>10 DEF PayLands
    <3>4. got'[c][s] = got[c][s] + IF at[r] = c /\ Side(r) = s THEN amt[r] ELSE 0
      BY <3>3, <2>1, <1>t, <1>n DEF StoreTyped, Sides
    <3> QED
      BY <2>1, <3>2, <3>4 DEF Share
  <2>4. ASSUME NEW c \in Claim, NEW s \in Sides
        PROVE  booked'[c][s] + Share(r, c, s)' + got[c][s]
                 <= got'[c][s] + booked[c][s] + Share(r, c, s)
    <3>1. Share(r, c, s)' \in Nat
      BY <1>t DEF Share, RunTyped
    <3>2. booked'[c][s] = booked[c][s]
      BY <2>2
    <3> QED
      BY <2>3, <3>1, <3>2, <1>n
  <2>5. \A q \in Run \ {r} : pc'[q] = pc[q] /\ at'[q] = at[q] /\ amt'[q] = amt[q]
    BY <2>2, <1>t DEF RunTyped
  <2> QED
    BY <1>t, <2>4, <2>5, LedgerMoves
<1>11. ASSUME NEW r \in Run, MarkRow(r)
       PROVE  LedgerInv'
  BY <1>11, <1>t, LedgerMovesOn DEF MarkRow, Goto, chain, RunTyped
<1>12. ASSUME NEW r \in Run, BookRow(r)
       PROVE  LedgerInv'
  <2>1. at[r] \in Claim /\ amt[r] \in Nat /\ Side(r) \in Sides /\ pc[r] = "book"
    BY <1>12, <1>t DEF BookRow, RunTyped, RunsHold, Side, Sides
  <2>2. NextRow(r) /\ UNCHANGED got
    BY <1>12 DEF BookRow, chain
  <2>3. ASSUME NEW c \in Claim, NEW s \in Sides
        PROVE  booked'[c][s] = booked[c][s] + Share(r, c, s) /\ Share(r, c, s)' = 0
    <3>1. pc'[r] = "row"
      BY <2>2, <1>t DEF NextRow, Goto, RunTyped
    <3>2. Share(r, c, s) = IF at[r] = c /\ Side(r) = s THEN amt[r] ELSE 0
      BY <2>1 DEF Share
    <3>3. booked' = [booked EXCEPT ![at[r]][Side(r)] = @ + amt[r]]
      BY <1>12 DEF BookRow
    <3>4. booked'[c][s] = booked[c][s] + IF at[r] = c /\ Side(r) = s THEN amt[r] ELSE 0
      BY <3>3, <2>1, <1>t, <1>n DEF StoreTyped, Sides
    <3> QED
      BY <3>1, <3>2, <3>4 DEF Share
  <2>4. ASSUME NEW c \in Claim, NEW s \in Sides
        PROVE  booked'[c][s] + Share(r, c, s)' + got[c][s]
                 <= got'[c][s] + booked[c][s] + Share(r, c, s)
    <3>1. Share(r, c, s) \in Nat
      BY <1>t DEF Share, RunTyped
    <3>2. got'[c][s] = got[c][s]
      BY <2>2
    <3> QED
      BY <2>3, <3>1, <3>2, <1>n
  <2>5. \A q \in Run \ {r} : pc'[q] = pc[q] /\ at'[q] = at[q] /\ amt'[q] = amt[q]
    BY <2>2, <1>t DEF NextRow, Goto, RunTyped
  <2> QED
    BY <1>t, <2>4, <2>5, LedgerMoves
<1>13. ASSUME NEW r \in Run, Crash(r)
       PROVE  LedgerInv'
  BY <1>13, <1>t, LedgerMovesOn DEF Crash, Goto, RunTyped
<1>14. ASSUME NEW t \in late, LateLands(t)
       PROVE  LedgerInv'
  <2>1. t[1] \in Run /\ t[2] \in Claim /\ t[3] \in Nat
    BY <1>t DEF StoreTyped
  <2>2. UNCHANGED <<run, booked>> /\ got' = [got EXCEPT ![t[2]][Side(t[1])] = @ + t[3]]
    BY <1>14 DEF LateLands
  <2>3. ASSUME NEW c \in Claim, NEW s \in Sides
        PROVE  got[c][s] <= got'[c][s]
    <3>1. CASE c = t[2] /\ s = Side(t[1])
      BY <3>1, <2>1, <2>2, <1>t, <1>n DEF StoreTyped, Sides
    <3>2. CASE ~(c = t[2] /\ s = Side(t[1]))
      BY <3>2, <2>1, <2>2, <1>t, <1>n DEF StoreTyped, Sides, Side
    <3> QED
      BY <3>1, <3>2
  <2> QED
    BY <1>t, <2>2, <2>3, LedgerStays
<1>15. ASSUME NEW r \in Run, OneRow(r)
       PROVE  LedgerInv'
  <2>1. CASE PayReverts(r) \/ PayTimesOut(r) \/ RowFails(r)
    BY <2>1, <1>8 DEF PayReverts, PayTimesOut, RowFails, chain
  <2> QED
    BY <1>15, <2>1, <1>6, <1>7, <1>9, <1>10, <1>11, <1>12 DEF OneRow
<1>16. ASSUME NEW c \in Claim, Expires(c)
       PROVE  LedgerInv'
  BY <1>16, <1>2 DEF Expires, chain
<1>17. ASSUME NEW t \in late, LateFails(t)
       PROVE  LedgerInv'
  BY <1>17, <1>2 DEF LateFails
<1>18. CASE UNCHANGED vars
  BY <1>18, <1>2 DEF vars, chain
<1> QED
  BY <1>1, <1>3, <1>4, <1>5, <1>13, <1>14, <1>15, <1>16, <1>17, <1>18
     DEF Next, WorkersAlive, Run

\* Nothing is booked and nothing waits at first.
LEMMA LedgerInit == Init => LedgerInv
<1> SUFFICES ASSUME Init, NEW c \in Claim, NEW s \in Sides
             PROVE  booked[c][s] + Waiting(c, s) <= got[c][s]
  BY DEF LedgerInv
<1>1. IsFiniteSet(Run)
  BY RunsAssumption DEF Run
<1>2. \A r \in Run : [q \in Run |-> Share(q, c, s)][r] = 0
  BY DEF Init, Share
<1>3. Waiting(c, s) = 0
  BY <1>1, <1>2, SumOfZeros DEF Waiting
<1>4. booked[c][s] = 0 /\ got[c][s] = 0
  BY DEF Init, Sides
<1> QED
  BY <1>3, <1>4

\* The escrow_claim and escrow_refund lines of the ledger never add up to more than
\* reached that side of the claim: a line is written after its payout has landed, for
\* the amount of the payout, and by the run that made it (claims.ts:137-146), however
\* many runs are at work on the claim.
THEOREM LedgerNeverExceedsPayouts == Spec => []LedgerWithinPayouts
<1>1. IInv => Typed /\ TypeInv
  BY TypeInvIsTypeOK DEF IInv, Typed, TypeInv
<1>2. IInv' => TypeInv'
  BY DEF IInv, TypeInv, RunTyped, StoreTyped, TypeOK, Label
<1>3. IInv /\ LedgerInv => LedgerWithinPayouts
  <2> SUFFICES ASSUME IInv, LedgerInv, NEW c \in Claim, NEW s \in Sides
               PROVE  booked[c][s] <= got[c][s]
    BY DEF LedgerWithinPayouts, Sides
  <2>1. RunTyped /\ StoreTyped
    BY <1>1 DEF TypeInv
  <2>2. Waiting(c, s) \in Nat
    <3>1. IsFiniteSet(Run)
      BY RunsAssumption DEF Run
    <3>2. \A r \in Run : [q \in Run |-> Share(q, c, s)][r] \in Nat
      BY <2>1 DEF Share, RunTyped
    <3> QED
      BY <3>1, <3>2, SumIsNat DEF Waiting
  <2>3. booked[c][s] \in Nat /\ got[c][s] \in Nat
    BY <2>1, SidesTyped
  <2>4. booked[c][s] + Waiting(c, s) <= got[c][s]
    BY DEF LedgerInv
  <2> QED
    BY <2>2, <2>3, <2>4
<1>4. IInv /\ IInv' /\ LedgerInv /\ [Next]_vars => LedgerInv'
  BY <1>1, <1>2, LedgerStep
<1> QED
  BY <1>3, <1>4, LedgerInit, IInvAlways, PTL DEF Spec

-----------------------------------------------------------------------------
(* The pool *)

\* The claims whose money is in the pool and accounted for.
Landed == {c \in Claim : status[c] # "none" \/ hold[c] = "moved"}

\* Nothing is paid on a claim without a row.
RowBeforePay ==
  /\ \A c \in Claim : status[c] = "none" => Paid(c) = 0
  /\ \A t \in late : status[t[2]] # "none"

PoolInv == RowBeforePay /\ pool + burnt >= SumFunctionOnSet(Owed, Landed)

\* What is owed on a claim is a number, and so are the sums of it.
LEMMA OwedTyped ==
  ASSUME StoreTyped
  PROVE  /\ \A c \in Claim : Paid(c) \in Nat /\ want[c] \in Nat
         /\ \A c \in Claim : Owed[c] = want[c] - Paid(c) /\ Owed[c] \in Int
         /\ \A S \in SUBSET Claim : IsFiniteSet(S) /\ SumFunctionOnSet(Owed, S) \in Int
<1>1. ASSUME NEW c \in Claim
      PROVE  Paid(c) \in Nat /\ want[c] \in Nat
  <2>1. got[c].payee \in Nat /\ got[c].sender \in Nat /\ want[c] \in Amount
    BY DEF StoreTyped
  <2>2. want[c] \in Nat
    BY <2>1, AmountAssumption
  <2>3. got[c].payee + got[c].sender \in Nat
    BY <2>1
  <2> QED
    BY <2>2, <2>3 DEF Paid
<1>2. ASSUME NEW c \in Claim
      PROVE  Owed[c] = want[c] - Paid(c) /\ Owed[c] \in Int
  BY <1>1 DEF Owed
<1>3. ASSUME NEW S \in SUBSET Claim
      PROVE  IsFiniteSet(S) /\ SumFunctionOnSet(Owed, S) \in Int
  <2>1. IsFiniteSet(S)
    BY ClaimsAssumption, FS_Subset
  <2> QED
    BY <1>2, <2>1, SumIsInt
<1> QED
  BY <1>1, <1>2, <1>3

\* A payout on a claim that has a row takes from the pool what it takes off the debt.
LEMMA PoolPays ==
  ASSUME PoolInv, StoreTyped, StoreTyped', NEW c \in Claim, NEW r, NEW n \in Nat,
         status[c] # "none", UNCHANGED <<status, hold, want>>,
         got' = [got EXCEPT ![c][Side(r)] = @ + n],
         pool' = pool - n - Fee, burnt' = burnt + Fee, late' \subseteq late
  PROVE  PoolInv'
<1>1. /\ Paid(c)' = Paid(c) + n
      /\ \A d \in Claim \ {c} : Paid(d)' = Paid(d)
  <2>1. CASE Side(r) = "payee"
    BY <2>1 DEF StoreTyped, Paid
  <2>2. CASE Side(r) = "sender"
    BY <2>2 DEF StoreTyped, Paid
  <2> QED
    BY <2>1, <2>2 DEF Side
<1>2. RowBeforePay'
  BY <1>1 DEF PoolInv, RowBeforePay
<1> DEFINE g == [d \in Claim |-> want[d] - Paid(d)']
<1>3. Owed' = g /\ Landed' = Landed
  BY DEF Owed, Landed
<1>4. /\ \A d \in Claim : Paid(d) \in Nat /\ want[d] \in Nat
      /\ \A d \in Claim : Owed[d] = want[d] - Paid(d) /\ Owed[d] \in Int
      /\ \A S \in SUBSET Claim : IsFiniteSet(S) /\ SumFunctionOnSet(Owed, S) \in Int
  BY OwedTyped
<1>5. c \in Landed /\ Landed \in SUBSET Claim
  BY DEF Landed
<1>6. /\ \A d \in Claim : g[d] \in Int
      /\ \A d \in Claim \ {c} : g[d] = Owed[d]
      /\ g[c] = Owed[c] - n
  BY <1>1, <1>4
<1> HIDE DEF g
<1>7. SumFunctionOnSet(g, Landed) = SumFunctionOnSet(Owed, Landed) + (g[c] - Owed[c])
  BY <1>4, <1>5, <1>6, SumChanges
<1>8. SumFunctionOnSet(g, Landed) = SumFunctionOnSet(Owed, Landed) - n
  BY <1>4, <1>5, <1>6, <1>7
<1>9. pool' + burnt' >= SumFunctionOnSet(g, Landed)
  <2>1. pool + burnt >= SumFunctionOnSet(Owed, Landed)
    BY DEF PoolInv
  <2>2. pool \in Nat /\ burnt \in Nat /\ Fee \in Nat
    BY Numbers DEF StoreTyped
  <2> QED
    BY <1>4, <1>5, <1>8, <2>1, <2>2
<1> QED
  BY <1>2, <1>3, <1>9 DEF PoolInv

\* A step that pays nothing, and has no row appear or vanish, keeps the pool covered
\* if it takes nothing from it but gas.
LEMMA PoolStays ==
  ASSUME PoolInv, StoreTyped, Landed' = Landed, UNCHANGED <<want, got>>,
         pool' + burnt' = pool + burnt,
         \A c \in Claim : status[c] # "none" <=> status'[c] # "none",
         \A t \in late' : t[2] \in Claim /\ (t \in late \/ status[t[2]] # "none")
  PROVE  PoolInv'
<1>1. Owed' = Owed
  BY DEF Owed, Paid
<1>2. RowBeforePay'
  BY DEF PoolInv, RowBeforePay, Paid
<1> QED
  BY <1>1, <1>2 DEF PoolInv

\* The steps of a hold: the deposit is counted once it has landed, and forgotten if
\* no row follows.
LEMMA PoolHolds ==
  ASSUME Typed, PoolInv, NEW c \in Claim, Hold(c)
  PROVE  PoolInv'
<1>t. RowsAreOpen /\ StoreTyped
  BY DEF Typed, IInv
<1>p. /\ RowBeforePay /\ pool + burnt >= SumFunctionOnSet(Owed, Landed)
      /\ pool \in Nat /\ burnt \in Nat
  BY <1>t DEF PoolInv, StoreTyped
<1>o. /\ \A d \in Claim : Paid(d) \in Nat /\ want[d] \in Nat
      /\ \A d \in Claim : Owed[d] = want[d] - Paid(d) /\ Owed[d] \in Int
      /\ \A S \in SUBSET Claim : IsFiniteSet(S) /\ SumFunctionOnSet(Owed, S) \in Int
  BY <1>t, OwedTyped
<1>w. UNCHANGED <<want, got, late, burnt>>
  BY DEF Hold, HoldSubmit, HoldLands, HoldRow, HoldBook, HoldFails, row, chain
<1>s. Owed' = Owed /\ Landed \in SUBSET Claim
  BY <1>w DEF Owed, Paid, Landed
<1>l. \A t \in late : t[2] \in Claim
  BY <1>t DEF StoreTyped
<1>1. CASE HoldSubmit(c) \/ HoldBook(c)
  <2>1. UNCHANGED <<status, pool>>
    BY <1>1 DEF HoldSubmit, HoldBook, row, chain
  <2>2. Landed' = Landed
    BY <1>1, <2>1, <1>t DEF HoldSubmit, HoldBook, Advance, Landed, StoreTyped
  <2> QED
    BY <1>t, <1>w, <1>l, <2>1, <2>2, PoolStays
<1>2. CASE HoldRow(c)
  <2>1. /\ hold[c] = "moved" /\ hold' = [hold EXCEPT ![c] = "rowed"]
        /\ status' = [status EXCEPT ![c] = "held"] /\ pool' = pool
    BY <1>2 DEF HoldRow, Advance, chain
  <2>2. Landed' = Landed
    BY <2>1, <1>t DEF Landed, StoreTyped
  <2>3. RowBeforePay'
    BY <2>1, <1>p, <1>t, <1>w, <1>l DEF RowBeforePay, Paid, StoreTyped
  <2> QED
    BY <2>1, <2>2, <2>3, <1>p, <1>s, <1>w DEF PoolInv
<1>3. CASE HoldLands(c)
  <2>1. /\ hold[c] = "moving" /\ hold' = [hold EXCEPT ![c] = "moved"]
        /\ status' = status /\ pool' = pool + want[c]
    BY <1>3 DEF HoldLands, Advance, row
  <2>2. c \notin Landed /\ Landed' = Landed \cup {c}
    BY <2>1, <1>t DEF Landed, RowsAreOpen, StoreTyped
  <2>3. SumFunctionOnSet(Owed, Landed \cup {c}) = Owed[c] + SumFunctionOnSet(Owed, Landed)
    BY <2>2, <1>o, <1>s, SumAdds
  <2>4. pool' + burnt' >= SumFunctionOnSet(Owed, Landed \cup {c})
    BY <2>1, <2>3, <1>o, <1>p, <1>s, <1>w
  <2>5. RowBeforePay'
    BY <2>1, <1>p, <1>w DEF RowBeforePay, Paid
  <2> QED
    BY <2>2, <2>4, <2>5, <1>s DEF PoolInv
<1>4. CASE HoldFails(c)
  <2>1. /\ hold[c] \in {"moving", "moved", "rowed"} /\ hold' = [hold EXCEPT ![c] = "over"]
        /\ status' = status /\ pool' \in {pool, pool + want[c]}
    BY <1>4 DEF HoldFails, row
  <2>2. Landed' \subseteq Landed /\ \A d \in Landed \ Landed' : status[d] = "none"
    BY <2>1, <1>t DEF Landed, StoreTyped
  <2>3. \A d \in Landed \ Landed' : Owed[d] >= 0
    BY <2>2, <1>o, <1>p, <1>s DEF RowBeforePay
  <2>4. SumFunctionOnSet(Owed, Landed') <= SumFunctionOnSet(Owed, Landed)
    BY <2>2, <2>3, <1>o, <1>s, SumOfPart
  <2>5. Landed' \in SUBSET Claim
    BY <2>2, <1>s
  <2>6. pool' + burnt' >= SumFunctionOnSet(Owed, Landed')
    BY <2>1, <2>4, <2>5, <1>o, <1>p, <1>s, <1>w
  <2>7. RowBeforePay'
    BY <2>1, <1>p, <1>w DEF RowBeforePay, Paid
  <2> QED
    BY <2>6, <2>7, <1>s DEF PoolInv
<1> QED
  BY <1>1, <1>2, <1>3, <1>4 DEF Hold
\* The steps of a run that pay a claim.
LEMMA PoolPaysOut ==
  ASSUME Typed, TypeInv', PoolInv, NEW r \in Run, PayLands(r)
  PROVE  PoolInv'
<1>t. RowsAreOpen /\ RunTyped /\ StoreTyped /\ StoreTyped'
  BY DEF Typed, IInv, TypeInv
<1>1. at[r] \in Claim /\ amt[r] \in Nat
  BY <1>t DEF PayLands, RunTyped, RunsHold
<1>2. status[at[r]] # "none"
  BY <1>1, <1>t DEF RowsAreOpen
<1>3. /\ got' = [got EXCEPT ![at[r]][Side(r)] = @ + amt[r]]
      /\ pool' = pool - amt[r] - Fee /\ burnt' = burnt + Fee
      /\ UNCHANGED <<status, hold, want, late>>
  BY DEF PayLands, row
<1> QED
  BY <1>1, <1>2, <1>3, <1>t, PoolPays

\* A transfer that lands late pays a claim too.
LEMMA PoolPaysLate ==
  ASSUME Typed, TypeInv', PoolInv, NEW t \in late, LateLands(t)
  PROVE  PoolInv'
<1>t. StoreTyped /\ StoreTyped'
  BY DEF Typed, TypeInv
<1>1. t[2] \in Claim /\ t[3] \in Nat
  BY <1>t DEF StoreTyped
<1>2. status[t[2]] # "none"
  BY DEF PoolInv, RowBeforePay
<1>3. /\ got' = [got EXCEPT ![t[2]][Side(t[1])] = @ + t[3]]
      /\ pool' = pool - t[3] - Fee /\ burnt' = burnt + Fee
      /\ UNCHANGED <<status, hold, want>> /\ late' \subseteq late
  BY DEF LateLands, row
<1> QED
  BY <1>1, <1>2, <1>3, <1>t, PoolPays

\* A transfer that its run forgets is for a claim with a row.
LEMMA AbandonsRow ==
  ASSUME Typed, NEW r \in Run, pc[r] = "pay", Abandon(r)
  PROVE  \A t \in late' : t[2] \in Claim /\ (t \in late \/ status[t[2]] # "none")
<1>t. RowsAreOpen /\ RunTyped /\ StoreTyped
  BY DEF Typed, IInv
<1>1. at[r] \in Claim
  BY <1>t DEF RunTyped, RunsHold
<1>2. status[at[r]] # "none"
  BY <1>1, <1>t DEF RowsAreOpen
<1>3. \A t \in late : t[2] \in Claim
  BY <1>t DEF StoreTyped
<1> QED
  BY <1>1, <1>2, <1>3 DEF Abandon

\* Every step keeps the pool covered.
LEMMA PoolStep == Typed /\ TypeInv' /\ PoolInv /\ [Next]_vars => PoolInv'
<1> SUFFICES ASSUME Typed, TypeInv', PoolInv, [Next]_vars
             PROVE  PoolInv'
  OBVIOUS
<1>t. RowsAreOpen /\ RunTyped /\ StoreTyped
  BY DEF Typed, IInv
<1>l. \A t \in late : t[2] \in Claim
  BY <1>t DEF StoreTyped
<1>1. ASSUME UNCHANGED <<hold, row, pool, burnt, got>>,
             \A t \in late' : t[2] \in Claim /\ (t \in late \/ status[t[2]] # "none")
      PROVE  PoolInv'
  <2>1. Landed' = Landed
    BY <1>1 DEF Landed, row
  <2> QED
    BY <1>1, <1>t, <2>1, PoolStays DEF row
<1>2. ASSUME UNCHANGED <<hold, row, chain>>
      PROVE  PoolInv'
  BY <1>1, <1>2, <1>l DEF chain
<1>3. ASSUME NEW c \in Claim, Expires(c)
      PROVE  PoolInv'
  <2>1. Landed' = Landed
    BY <1>3 DEF Expires, Landed
  <2> QED
    BY <1>3, <1>t, <1>l, <2>1, PoolStays DEF Expires, chain
<1>4. ASSUME NEW r \in Onboarder, SetPin(r) \/ StorePin(r) \/ Fulfill(r)
      PROVE  PoolInv'
  BY <1>2, <1>4 DEF SetPin, StorePin, Fulfill
<1>5. ASSUME NEW r \in Worker, Expire(r)
      PROVE  PoolInv'
  BY <1>2, <1>5 DEF Expire
<1>6. ASSUME NEW r \in Run, PayReverts(r)
      PROVE  PoolInv'
  <2>1. UNCHANGED <<hold, row, got, late>> /\ Landed' = Landed
    BY <1>6 DEF PayReverts, Landed, row
  <2>2. pool' + burnt' = pool + burnt
    <3>1. pool \in Nat /\ burnt \in Nat
      BY <1>t DEF StoreTyped
    <3>2. Smaller(Fee, pool) \in Nat
      BY <3>1, Numbers
    <3>3. pool' = pool - Smaller(Fee, pool) /\ burnt' = burnt + Smaller(Fee, pool)
      BY <1>6 DEF PayReverts
    <3> QED
      BY <3>1, <3>2, <3>3
  <2> QED
    BY <1>t, <1>l, <2>1, <2>2, PoolStays DEF row
<1>7. ASSUME NEW r \in Run, PayTimesOut(r)
      PROVE  PoolInv'
  BY <1>1, <1>7, AbandonsRow DEF PayTimesOut
<1>8. ASSUME NEW r \in Run, MarkRow(r)
      PROVE  PoolInv'
  <2>1. at[r] \in Claim
    BY <1>8, <1>t DEF MarkRow, RunTyped, RunsHold
  <2>2. status[at[r]] # "none"
    BY <2>1, <1>t DEF RowsAreOpen
  <2>3. status' = [status EXCEPT ![at[r]] = Mark(r)] /\ Mark(r) # "none"
        /\ UNCHANGED <<hold, want, chain>>
    BY <1>8 DEF MarkRow, Mark
  <2>4. \A c \in Claim : status[c] # "none" <=> status'[c] # "none"
    BY <2>2, <2>3, <1>t DEF StoreTyped
  <2>5. Landed' = Landed
    BY <2>3, <2>4 DEF Landed
  <2> QED
    BY <2>3, <2>4, <2>5, <1>t, <1>l, PoolStays DEF chain
<1>9. ASSUME NEW r \in Run, Crash(r)
      PROVE  PoolInv'
  <2>1. CASE pc[r] = "pay"
    BY <1>1, <1>9, <2>1, AbandonsRow DEF Crash
  <2>2. CASE pc[r] # "pay"
    BY <1>1, <1>9, <1>l, <2>2 DEF Crash
  <2> QED
    BY <2>1, <2>2
<1>10. ASSUME NEW t \in late, LateFails(t)
       PROVE  PoolInv'
  BY <1>1, <1>10, <1>l DEF LateFails
<1>11. ASSUME NEW r \in Run, OneRow(r)
       PROVE  PoolInv'
  <2>1. CASE TakeRow(r) \/ ListDone(r) \/ ReadBalance(r) \/ BookRow(r) \/ RowFails(r)
    BY <1>2, <2>1 DEF TakeRow, ListDone, ReadBalance, BookRow, RowFails
  <2> QED
    BY <1>6, <1>7, <1>8, <1>11, <2>1, PoolPaysOut DEF OneRow
<1>12. CASE UNCHANGED vars
  BY <1>2, <1>12 DEF vars
<1> QED
  BY <1>3, <1>4, <1>5, <1>9, <1>10, <1>11, <1>12, PoolHolds, PoolPaysLate
     DEF Next, WorkersAlive, Run

\* Nothing is owed at first.
LEMMA PoolInit == Init => PoolInv
<1> SUFFICES ASSUME Init
             PROVE  PoolInv
  OBVIOUS
<1>1. Landed = {}
  BY DEF Init, Landed
<1>2. SumFunctionOnSet(Owed, Landed) = 0
  BY <1>1, SumOfNone
<1>3. RowBeforePay
  BY DEF Init, RowBeforePay, Paid
<1> QED
  BY <1>2, <1>3 DEF Init, PoolInv

\* The pool is never short of what is counted.
LEMMA PoolAlways == Spec => []PoolInv
<1>1. IInv => Typed
  BY TypeInvIsTypeOK DEF IInv, Typed, TypeInv
<1>2. IInv' => TypeInv'
  BY DEF IInv, TypeInv, RunTyped, StoreTyped, TypeOK, Label
<1>3. IInv /\ IInv' /\ PoolInv /\ [Next]_vars => PoolInv'
  BY <1>1, <1>2, PoolStep
<1> QED
  BY <1>3, PoolInit, IInvAlways, PTL DEF Spec

\* The escrow wallet holds what all the claims with a row are still owed, less the gas
\* it burnt, whatever runs land, revert, time out or die: a row appears only after its
\* deposit (claims.ts:86-96), and a payout is never more than what leaves the pool.
THEOREM PoolAlwaysCoversHeld == Spec => []PoolCoversHeld
<1>1. TypeOK /\ PoolInv => PoolCoversHeld
  <2> SUFFICES ASSUME TypeOK, PoolInv
               PROVE  PoolCoversHeld
    OBVIOUS
  <2> DEFINE Rows == {c \in Claim : status[c] # "none"}
  <2>1. StoreTyped
    BY DEF TypeOK, StoreTyped
  <2>2. /\ \A c \in Claim : Paid(c) \in Nat /\ want[c] \in Nat
        /\ \A c \in Claim : Owed[c] = want[c] - Paid(c) /\ Owed[c] \in Int
        /\ \A S \in SUBSET Claim : IsFiniteSet(S) /\ SumFunctionOnSet(Owed, S) \in Int
    BY <2>1, OwedTyped
  <2>3. Rows \subseteq Landed /\ Landed \in SUBSET Claim /\ Rows \in SUBSET Claim
    BY DEF Landed
  <2>4. \A c \in Landed \ Rows : Owed[c] >= 0
    BY <2>2 DEF PoolInv, RowBeforePay, Landed
  <2> HIDE DEF Rows
  <2>5. SumFunctionOnSet(Owed, Rows) <= SumFunctionOnSet(Owed, Landed)
    BY <2>2, <2>3, <2>4, SumOfPart
  <2>6. pool + burnt >= SumFunctionOnSet(Owed, Rows)
    BY <2>1, <2>2, <2>3, <2>5 DEF PoolInv, StoreTyped
  <2> QED
    BY <2>6 DEF PoolCoversHeld, Rows
<1> QED
  BY <1>1, PoolAlways, EscrowTypeCorrect, PTL

-----------------------------------------------------------------------------
(* What a settled claim was short of *)

\* A run that is about to pay, or has paid, sees its claim paid out in full but for
\* gas and the gas reserve.
RunsCover == \A r \in Run :
  /\ pc[r] = "pay" => amt[r] + Paid(at[r]) + burnt + Reserve >= want[at[r]]
  /\ pc[r] \in {"mark", "book"} => Paid(at[r]) + burnt + Reserve >= want[at[r]]

ShortInv == ShortfallIsGas /\ (NonePaidTwice => RunsCover)

\* What has been paid and burnt only grows.
LEMMA PaidGrows ==
  ASSUME Typed, TypeInv', [Next]_vars
  PROVE  /\ want' = want /\ burnt \in Nat /\ burnt' \in Nat /\ burnt <= burnt'
         /\ \A c \in Claim : /\ want[c] \in Nat /\ Paid(c) \in Nat /\ Paid(c)' \in Nat
                             /\ Paid(c) <= Paid(c)'
<1>t. RunTyped /\ StoreTyped /\ StoreTyped'
  BY DEF Typed, TypeInv
<1>1. burnt \in Nat /\ burnt' \in Nat /\ \A c \in Claim : want[c] \in Nat /\ Paid(c) \in Nat
  BY <1>t, OwedTyped DEF StoreTyped
<1>2. \A c \in Claim : Paid(c)' \in Nat
  BY <1>t DEF StoreTyped, Paid
<1>g. ASSUME NEW c \in Claim, NEW r, NEW n \in Nat, got' = [got EXCEPT ![c][Side(r)] = @ + n]
      PROVE  \A d \in Claim : Paid(d) <= Paid(d)'
  <2>1. CASE Side(r) = "payee"
    BY <1>g, <2>1, <1>t DEF StoreTyped, Paid
  <2>2. CASE Side(r) = "sender"
    BY <1>g, <2>2, <1>t DEF StoreTyped, Paid
  <2> QED
    BY <2>1, <2>2 DEF Side
<1>s. ASSUME UNCHANGED got
      PROVE  \A d \in Claim : Paid(d) <= Paid(d)'
  BY <1>1, <1>s DEF Paid
<1> DEFINE Grows == /\ want' = want /\ burnt <= burnt'
                    /\ \A d \in Claim : Paid(d) <= Paid(d)'
<1>3. ASSUME UNCHANGED <<want, burnt, got>>
      PROVE  Grows
  BY <1>1, <1>3, <1>s
<1>4. ASSUME NEW c \in Claim, Hold(c) \/ Expires(c)
      PROVE  Grows
  BY <1>3, <1>4 DEF Hold, HoldSubmit, HoldLands, HoldRow, HoldBook, HoldFails, Expires, row, chain
<1>5. ASSUME NEW r \in Onboarder, SetPin(r) \/ StorePin(r) \/ Fulfill(r)
      PROVE  Grows
  BY <1>3, <1>5 DEF SetPin, StorePin, Fulfill, row, chain
<1>6. ASSUME NEW r \in Worker, Expire(r)
      PROVE  Grows
  BY <1>3, <1>6 DEF Expire, row, chain
<1>7. ASSUME NEW r \in Run, Crash(r)
      PROVE  Grows
  BY <1>3, <1>7 DEF Crash, row
<1>8. ASSUME NEW r \in Run, PayLands(r)
      PROVE  Grows
  <2>1. at[r] \in Claim /\ amt[r] \in Nat
    BY <1>8, <1>t DEF PayLands, RunTyped, RunsHold
  <2>2. got' = [got EXCEPT ![at[r]][Side(r)] = @ + amt[r]] /\ burnt' = burnt + Fee /\ want' = want
    BY <1>8 DEF PayLands, row
  <2>3. \A d \in Claim : Paid(d) <= Paid(d)'
    BY <1>g, <2>1, <2>2
  <2> QED
    BY <1>1, <2>2, <2>3, Numbers
<1>9. ASSUME NEW r \in Run, PayReverts(r)
      PROVE  Grows
  <2>1. burnt' = burnt + Smaller(Fee, pool) /\ UNCHANGED <<want, got>>
    BY <1>9 DEF PayReverts, row
  <2>2. Smaller(Fee, pool) \in Nat
    BY <1>t, Numbers DEF StoreTyped
  <2> QED
    BY <1>1, <1>s, <2>1, <2>2
<1>10. ASSUME NEW r \in Run, OneRow(r)
       PROVE  Grows
  <2>1. CASE TakeRow(r) \/ ListDone(r) \/ ReadBalance(r) \/ BookRow(r) \/ RowFails(r)
             \/ PayTimesOut(r) \/ MarkRow(r)
    BY <1>3, <2>1
       DEF TakeRow, ListDone, ReadBalance, BookRow, RowFails, PayTimesOut, MarkRow, row, chain
  <2> QED
    BY <1>8, <1>9, <1>10, <2>1 DEF OneRow
<1>11. ASSUME NEW t \in late, LateLands(t)
       PROVE  Grows
  <2>1. t[2] \in Claim /\ t[3] \in Nat
    BY <1>t DEF StoreTyped
  <2>2. got' = [got EXCEPT ![t[2]][Side(t[1])] = @ + t[3]] /\ burnt' = burnt + Fee /\ want' = want
    BY <1>11 DEF LateLands, row
  <2>3. \A d \in Claim : Paid(d) <= Paid(d)'
    BY <1>g, <2>1, <2>2
  <2> QED
    BY <1>1, <2>2, <2>3, Numbers
<1>12. ASSUME NEW t \in late, LateFails(t)
       PROVE  Grows
  BY <1>3, <1>12 DEF LateFails, row
<1>13. ASSUME UNCHANGED vars
       PROVE  Grows
  BY <1>3, <1>13 DEF vars, row, chain
<1>14. Grows
  BY <1>4, <1>5, <1>6, <1>7, <1>10, <1>11, <1>12, <1>13 DEF Next, WorkersAlive, Run
<1> QED
  BY <1>1, <1>2, <1>14

\* Unless some claim was paid twice, the balance a run reads covers what its claim is
\* still owed, so that only gas and the reserve can be missing from what it will pay.
LEMMA ReadCovers ==
  ASSUME Typed, PoolInv, NonePaidTwice, NEW r \in Run, pc[r] = "read",
         NEW pay, pay = Payable(want[at[r]], pool)
  PROVE  pay + Paid(at[r]) + burnt + Reserve >= want[at[r]]
<1>t. RowsAreOpen /\ RunTyped /\ StoreTyped
  BY DEF Typed, IInv
<1> DEFINE c == at[r]
<1>1. c \in Claim
  BY <1>t DEF RunTyped, RunsHold
<1>2. status[c] # "none"
  BY <1>1, <1>t DEF RowsAreOpen
<1>3. /\ \A d \in Claim : Paid(d) \in Nat /\ want[d] \in Nat
      /\ \A d \in Claim : Owed[d] = want[d] - Paid(d) /\ Owed[d] \in Int
      /\ \A S \in SUBSET Claim : IsFiniteSet(S) /\ SumFunctionOnSet(Owed, S) \in Int
  BY <1>t, OwedTyped
<1>4. c \in Landed /\ Landed \in SUBSET Claim
  BY <1>1, <1>2 DEF Landed
<1>5. \A d \in Landed : Owed[d] \in Nat
  BY <1>3, <1>4 DEF NonePaidTwice
<1>6. Owed[c] <= SumFunctionOnSet(Owed, Landed)
  BY <1>3, <1>4, <1>5, SumIsNat
<1>7. pool + burnt >= SumFunctionOnSet(Owed, Landed) /\ pool \in Nat /\ burnt \in Nat
  BY <1>t DEF PoolInv, StoreTyped
<1>8. SumFunctionOnSet(Owed, Landed) \in Int
  BY <1>3, <1>4
<1>9. Reserve \in Nat /\ Paid(c) \in Nat /\ want[c] \in Nat /\ Owed[c] = want[c] - Paid(c)
  BY <1>1, <1>3, Numbers
<1> HIDE DEF c
<1>10. pool + burnt >= want[c] - Paid(c)
  BY <1>6, <1>7, <1>8, <1>9
<1>11. pay = want[c] \/ pay = pool - Reserve
  BY DEF Payable, Smaller, c
<1>12. pay + Paid(c) + burnt + Reserve >= want[c]
  BY <1>7, <1>9, <1>10, <1>11
<1> QED
  BY <1>12 DEF c

\* Every step keeps what a settled claim is short of down to gas and the reserve.
LEMMA ShortStep ==
  Typed /\ TypeInv' /\ PoolInv /\ ShortInv /\ [Next]_vars => ShortInv'
<1> SUFFICES ASSUME Typed, TypeInv', PoolInv, ShortInv, [Next]_vars, NonePaidTwice'
             PROVE  RunsCover' /\ ShortfallIsGas'
  BY DEF ShortInv, ShortfallIsGas
<1>t. RowsAreOpen /\ RunTyped /\ StoreTyped /\ RunTyped' /\ StoreTyped'
  BY DEF Typed, IInv, TypeInv
<1>r. Reserve \in Nat /\ Fee \in Nat
  BY Numbers
<1>g. /\ want' = want /\ burnt \in Nat /\ burnt' \in Nat /\ burnt <= burnt'
      /\ \A c \in Claim : /\ want[c] \in Nat /\ Paid(c) \in Nat /\ Paid(c)' \in Nat
                          /\ Paid(c) <= Paid(c)'
  BY PaidGrows
<1>n. NonePaidTwice
  BY <1>g DEF NonePaidTwice
<1>h. RunsCover /\ \A c \in Claim :
        status[c] \in {"claimed", "refunded"} => Paid(c) + burnt + Reserve >= want[c]
  BY <1>n DEF ShortInv, ShortfallIsGas
<1>c. ASSUME NEW c \in Claim, Paid(c) + burnt + Reserve >= want[c]
      PROVE  Paid(c)' + burnt' + Reserve >= want'[c]
  BY <1>c, <1>g, <1>r
\* A claim that is not settled by the step stays covered.
<1>1. ASSUME NEW c \in Claim, status'[c] = status[c],
             status'[c] \in {"claimed", "refunded"}
      PROVE  Paid(c)' + burnt' + Reserve >= want'[c]
  BY <1>1, <1>c, <1>h
\* So does the claim of a run that the step leaves where it is.
<1>2. ASSUME NEW q \in Run, at'[q] = at[q], amt'[q] = amt[q],
             pc'[q] = pc[q] \/ (pc[q] = "mark" /\ pc'[q] = "book")
      PROVE  /\ pc'[q] = "pay" => amt'[q] + Paid(at[q])' + burnt' + Reserve >= want'[at'[q]]
             /\ pc'[q] \in {"mark", "book"} => Paid(at[q])' + burnt' + Reserve >= want'[at'[q]]
  <2>1. CASE pc'[q] \in {"mark", "book"}
    <3>1. at[q] \in Claim /\ pc[q] \in {"mark", "book"}
      BY <1>2, <2>1, <1>t DEF RunTyped, RunsHold
    <3>2. Paid(at[q]) + burnt + Reserve >= want[at[q]]
      BY <1>h, <3>1 DEF RunsCover
    <3>3. Paid(at[q])' + burnt' + Reserve >= want'[at[q]]
      BY <3>1, <3>2, <1>2, <1>c DEF Paid
    <3> QED
      BY <1>2, <2>1, <3>3
  <2>2. CASE pc'[q] = "pay"
    <3>1. at[q] \in Claim /\ pc[q] = "pay" /\ amt[q] \in Nat
      BY <1>2, <2>2, <1>t DEF RunTyped, RunsHold
    <3>2. amt[q] + Paid(at[q]) + burnt + Reserve >= want[at[q]]
      BY <1>h, <3>1 DEF RunsCover
    <3>3. amt[q] + Paid(at[q])' + burnt' + Reserve >= want'[at[q]]
      <4>1. Paid(at[q])' >= Paid(at[q]) /\ Paid(at[q]) \in Nat /\ Paid(at[q])' \in Nat
            /\ want[at[q]] \in Nat
        BY <3>1, <1>2, <1>g DEF Paid
      <4> QED
        BY <4>1, <3>1, <3>2, <1>g, <1>r
    <3> QED
      BY <1>2, <2>2, <3>3
  <2> QED
    BY <2>1, <2>2
<1> DEFINE Covered(q) ==
      /\ pc'[q] = "pay" => amt'[q] + Paid(at[q])' + burnt' + Reserve >= want'[at'[q]]
      /\ pc'[q] \in {"mark", "book"} => Paid(at[q])' + burnt' + Reserve >= want'[at'[q]]
<1>3. ASSUME \A q \in Run : Covered(q)
      PROVE  RunsCover'
  BY <1>3 DEF RunsCover
<1>4. ASSUME \A c \in Claim : status'[c] = status[c] \/ status'[c] = "held"
      PROVE  ShortfallIsGas'
  BY <1>1, <1>4 DEF ShortfallIsGas
<1>5. ASSUME NEW r \in Run, Covered(r),
             \A q \in Run \ {r} : pc'[q] = pc[q] /\ at'[q] = at[q] /\ amt'[q] = amt[q]
      PROVE  RunsCover'
  <2>1. \A q \in Run \ {r} : Covered(q)
    BY <1>2, <1>5
  <2> QED
    BY <1>3, <1>5, <2>1
\* A run that neither pays nor marks next is covered, and so is every other one.
<1>6. ASSUME NEW r \in Run, pc'[r] \notin {"pay", "mark", "book"}, UNCHANGED status,
             \A q \in Run \ {r} : pc'[q] = pc[q] /\ at'[q] = at[q] /\ amt'[q] = amt[q]
      PROVE  RunsCover' /\ ShortfallIsGas'
  BY <1>4, <1>5, <1>6
<1>7. ASSUME NEW r \in Run, NextRow(r), UNCHANGED status
      PROVE  RunsCover' /\ ShortfallIsGas'
  BY <1>6, <1>7, <1>t DEF NextRow, Goto, RunTyped
<1>8. ASSUME UNCHANGED run, \A c \in Claim : status'[c] = status[c] \/ status'[c] = "held"
      PROVE  RunsCover' /\ ShortfallIsGas'
  <2>1. \A q \in Run : Covered(q)
    BY <1>2, <1>8 DEF run
  <2> QED
    BY <1>3, <1>4, <1>8, <2>1
<1>9. ASSUME NEW c \in Claim, Hold(c)
      PROVE  RunsCover' /\ ShortfallIsGas'
  <2>1. UNCHANGED run
    BY <1>9 DEF Hold, HoldSubmit, HoldLands, HoldRow, HoldBook, HoldFails
  <2>2. status' = status \/ status' = [status EXCEPT ![c] = "held"]
    BY <1>9 DEF Hold, HoldSubmit, HoldLands, HoldRow, HoldBook, HoldFails, row
  <2> QED
    BY <1>8, <1>t, <2>1, <2>2 DEF StoreTyped
<1>10. ASSUME NEW c \in Claim, Expires(c)
       PROVE  RunsCover' /\ ShortfallIsGas'
  BY <1>8, <1>10 DEF Expires
<1>11. ASSUME NEW r \in Onboarder, SetPin(r) \/ StorePin(r) \/ Fulfill(r)
       PROVE  RunsCover' /\ ShortfallIsGas'
  BY <1>6, <1>11, <1>t DEF SetPin, StorePin, Fulfill, List, Goto, RunTyped, Run, row
<1>12. ASSUME NEW r \in Worker, Expire(r)
       PROVE  RunsCover' /\ ShortfallIsGas'
  BY <1>6, <1>12, <1>t DEF Expire, List, Goto, RunTyped, Run, row
<1>13. ASSUME NEW r \in Run, TakeRow(r) \/ ListDone(r)
       PROVE  RunsCover' /\ ShortfallIsGas'
  BY <1>6, <1>13, <1>t DEF TakeRow, ListDone, Goto, RunTyped, row
<1>14. ASSUME NEW r \in Run, ReadBalance(r)
       PROVE  RunsCover' /\ ShortfallIsGas'
  <2> DEFINE pay == Payable(want[at[r]], pool)
  <2>1. UNCHANGED <<status, got, burnt>> /\ pc[r] = "read"
    BY <1>14 DEF ReadBalance, row, chain
  <2>2. CASE NextRow(r)
    BY <1>7, <2>1, <2>2
  <2>3. CASE amt' = [amt EXCEPT ![r] = pay] /\ Goto(r, "pay") /\ UNCHANGED <<todo, at>>
    <3>1. pay + Paid(at[r]) + burnt + Reserve >= want[at[r]]
      BY <1>n, <2>1, ReadCovers
    <3> HIDE DEF pay
    <3>2. pc'[r] = "pay" /\ amt'[r] = pay /\ at'[r] = at[r]
      BY <2>3, <1>t DEF Goto, RunTyped
    <3>3. Paid(at[r])' = Paid(at[r])
      BY <2>1, <3>2 DEF Paid
    <3>4. Covered(r)
      BY <2>1, <3>1, <3>2, <3>3, <1>g
    <3>5. \A q \in Run \ {r} : pc'[q] = pc[q] /\ at'[q] = at[q] /\ amt'[q] = amt[q]
      BY <2>3, <1>t DEF Goto, RunTyped
    <3> QED
      BY <1>4, <1>5, <2>1, <3>4, <3>5
  <2> QED
    BY <1>14, <2>2, <2>3 DEF ReadBalance
<1>15. ASSUME NEW r \in Run, PayLands(r)
       PROVE  RunsCover' /\ ShortfallIsGas'
  <2>1. at[r] \in Claim /\ amt[r] \in Nat /\ pc[r] = "pay"
    BY <1>15, <1>t DEF PayLands, RunTyped, RunsHold
  <2>2. /\ pc' = [pc EXCEPT ![r] = "mark"] /\ UNCHANGED <<at, amt, status>>
        /\ burnt' = burnt + Fee
        /\ got' = [got EXCEPT ![at[r]][Side(r)] = @ + amt[r]]
    BY <1>15 DEF PayLands, Goto, row
  <2>3. Paid(at[r])' = Paid(at[r]) + amt[r]
    <3>1. CASE Side(r) = "payee"
      BY <3>1, <2>1, <2>2, <1>t DEF StoreTyped, Paid
    <3>2. CASE Side(r) = "sender"
      BY <3>2, <2>1, <2>2, <1>t DEF StoreTyped, Paid
    <3> QED
      BY <3>1, <3>2 DEF Side
  <2>4. amt[r] + Paid(at[r]) + burnt + Reserve >= want[at[r]]
    BY <1>h, <2>1 DEF RunsCover
  <2>5. Paid(at[r])' + burnt' + Reserve >= want[at[r]]
    BY <1>g, <1>r, <2>1, <2>2, <2>3, <2>4
  <2>6. Covered(r)
    BY <1>g, <1>t, <2>2, <2>5 DEF RunTyped
  <2>7. \A q \in Run \ {r} : pc'[q] = pc[q] /\ at'[q] = at[q] /\ amt'[q] = amt[q]
    BY <2>2, <1>t DEF RunTyped
  <2> QED
    BY <1>4, <1>5, <2>2, <2>6, <2>7
<1>16. ASSUME NEW r \in Run, MarkRow(r)
       PROVE  RunsCover' /\ ShortfallIsGas'
  <2>1. at[r] \in Claim /\ pc[r] = "mark"
    BY <1>16, <1>t DEF MarkRow, RunTyped, RunsHold
  <2>2. pc' = [pc EXCEPT ![r] = "book"] /\ UNCHANGED <<at, amt>>
    BY <1>16 DEF MarkRow, Goto
  <2>3. \A q \in Run : Covered(q)
    BY <1>2, <2>1, <2>2, <1>t DEF RunTyped
  <2>4. Paid(at[r])' + burnt' + Reserve >= want'[at[r]]
    BY <2>1, <2>2, <2>3, <1>t DEF RunTyped
  <2>5. \A c \in Claim \ {at[r]} : status'[c] = status[c]
    BY <1>16, <1>t DEF MarkRow, StoreTyped
  <2>6. ShortfallIsGas'
    <3> SUFFICES ASSUME NEW c \in Claim, status'[c] \in {"claimed", "refunded"}
                 PROVE  Paid(c)' + burnt' + Reserve >= want'[c]
      BY DEF ShortfallIsGas
    <3>1. CASE c = at[r]
      BY <2>2, <2>4, <3>1 DEF Paid
    <3>2. CASE c # at[r]
      BY <1>1, <2>5, <3>2
    <3> QED
      BY <3>1, <3>2
  <2> QED
    BY <1>3, <2>3, <2>6
<1>17. ASSUME NEW r \in Run, OneRow(r)
       PROVE  RunsCover' /\ ShortfallIsGas'
  <2>1. CASE PayReverts(r) \/ PayTimesOut(r) \/ BookRow(r) \/ RowFails(r)
    BY <2>1, <1>7 DEF PayReverts, PayTimesOut, BookRow, RowFails, row
  <2> QED
    BY <2>1, <1>13, <1>14, <1>15, <1>16, <1>17 DEF OneRow
<1>18. ASSUME NEW r \in Run, Crash(r)
       PROVE  RunsCover' /\ ShortfallIsGas'
  BY <1>6, <1>18, <1>t DEF Crash, Goto, RunTyped, row
<1>19. ASSUME NEW t \in late, LateLands(t) \/ LateFails(t)
       PROVE  RunsCover' /\ ShortfallIsGas'
  BY <1>8, <1>19 DEF LateLands, LateFails, row
<1>20. CASE UNCHANGED vars
  BY <1>8, <1>20 DEF vars, row
<1> QED
  BY <1>9, <1>10, <1>11, <1>12, <1>17, <1>18, <1>19, <1>20 DEF Next, WorkersAlive, Run

\* No claim is settled at first, and no run has one in hand.
LEMMA ShortInit == Init => ShortInv
  BY DEF Init, ShortInv, ShortfallIsGas, RunsCover

\* Unless some claim is paid twice, a settled claim has been paid out in full, but for
\* the gas the escrow wallet burnt and the reserve it keeps (claims.ts:124-135): the
\* balance a payout is cut down to covers what every open claim is owed.
THEOREM ShortfallIsOnlyGas == Spec => []ShortfallIsGas
<1>1. IInv => Typed
  BY TypeInvIsTypeOK DEF IInv, Typed, TypeInv
<1>2. IInv' => TypeInv'
  BY DEF IInv, TypeInv, RunTyped, StoreTyped, TypeOK, Label
<1>3. IInv /\ IInv' /\ PoolInv /\ ShortInv /\ [Next]_vars => ShortInv'
  BY <1>1, <1>2, ShortStep
<1>4. ShortInv => ShortfallIsGas
  BY DEF ShortInv
<1> QED
  BY <1>3, <1>4, ShortInit, IInvAlways, PoolAlways, PTL DEF Spec
=============================================================================
