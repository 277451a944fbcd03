------------------------------ MODULE Standing -------------------------------
(***************************************************************************)
(* Standing orders: retention.ts, the due-order run of workers.ts, and the *)
(* part of pipeline.ts that creates, cancels and pays them.  The worker    *)
(* pays an order by talking to handleMessage like its owner would: one     *)
(* message parks a send in the owner's session, the next says CONFIRM with *)
(* STANDING_PIN.  The owner's own calls use the same session meanwhile.    *)
(*                                                                         *)
(* One account and all its orders; time is counted in cadences, so that    *)
(* "the first of next month" and "in seven days" are both the next period. *)
(* A payment is what Payments shows it to be: its key is claimed once and  *)
(* pays at most once; the steps of run() in between are not repeated here. *)
(* Left out: the claim expiry at the end of a tick (module Escrow), pending*)
(* kinds that neither pay nor create an order (they act like AskSend), and *)
(* the wording of what is answered.                                        *)
(***************************************************************************)
EXTENDS Naturals, FiniteSets

CONSTANTS
  Order,            \* ids of standing_orders, given out in ascending order
  Key,              \* idempotency keys, fresh for each parked send
  Caller,           \* calls of the owner that can be running at once
  Worker,           \* runs of due orders at once: the timer's, the CLI's
  Limit,            \* LIMIT of the due query (50 in the code)
  Store,            \* databases it may run on: "sqlite", "postgres"
  Horizon,          \* bound: the last period that is modelled
  Own, NewOrder,    \* what a key was made for: the owner; a parked standing request
  None

ASSUME OrderAssumption == Order \subseteq Nat /\ Limit \in Nat \ {0} /\ Horizon \in Nat
ASSUME StoreAssumption == Store \subseteq {"sqlite", "postgres"}
ASSUME ActorAssumption == Caller \cap Worker = {}
ASSUME NoneAssumption ==
  /\ None \notin Key /\ NewOrder \notin Key /\ NewOrder # None
  /\ None # Own /\ {None, Own} \cap (Order \X Nat) = {}

VARIABLES
  demo, async, pin, \* DEMO_SIMPLE, ASYNC_SETTLE=1, whether STANDING_PIN is set
  store,            \* the database
  now,              \* the current period
  status, due,      \* standing_orders: status and next_run_at
  pending,          \* the session: a parked send's key, a standing request, or None
  made,             \* what each key was made for: an order's date, or Own
  claimed, spent,   \* keys in the idempotency table; keys whose money left
  settling,         \* keys whose run() goes on behind an answer already given
  lost,             \* history: dates that a run worked on and left unmarked
  pc, work,         \* each actor: its step, and the parked request it has read
  todo, at          \* each run: the orders still to do and the one in hand, with dates

env    == <<demo, async, pin, store>>
table  == <<status, due>>
keys   == <<made, claimed, spent, settling>>
list   == <<todo, at>>
vars   == <<env, now, table, pending, keys, lost, pc, work, list>>

Actor == Caller \cup Worker
Date  == 0 .. Horizon + 1

Init ==
  /\ demo \in BOOLEAN /\ async \in BOOLEAN /\ pin \in BOOLEAN /\ store \in Store
  /\ now = 0
  /\ status  = [o \in Order |-> "none"]
  /\ due     = [o \in Order |-> 0]
  /\ pending = None
  /\ made    = [k \in Key |-> None]
  /\ claimed = {} /\ spent = {} /\ settling = {} /\ lost = {}
  /\ pc      = [a \in Actor |-> "idle"]
  /\ work    = [a \in Actor |-> None]
  /\ todo    = [w \in Worker |-> {}]
  /\ at      = [w \in Worker |-> None]

Goto(a, label) == pc' = [pc EXCEPT ![a] = label]
Hold(a, what)  == work' = [work EXCEPT ![a] = what]

\* handleMessage returns: the worker goes on to mark the order, a caller is done.
Finish(a) == Goto(a, IF a \in Worker THEN "mark" ELSE "idle") /\ Hold(a, None)

\* The order in hand stays as it is in the table.
Unmarked(w) ==
  /\ at'   = [at EXCEPT ![w] = None]
  /\ lost' = IF at[w] = None THEN lost ELSE lost \cup {at[w]}

Passes ==
  /\ now < Horizon
  /\ now' = now + 1
  /\ UNCHANGED <<env, table, pending, keys, lost, pc, work, list>>

-----------------------------------------------------------------------------
(* The owner's session *)

\* A send is let through under a fresh key, made for m: parked, or paid at once.
Park(a, m, label) ==
  \E k \in Key :
    /\ made[k] = None
    /\ made' = [made EXCEPT ![k] = m]
    /\ IF demo
       THEN Goto(a, "pay") /\ Hold(a, k) /\ UNCHANGED pending
       ELSE Goto(a, label) /\ pending' = k /\ UNCHANGED work
    /\ UNCHANGED <<claimed, spent, settling>>

AskSend(c) ==
  /\ pc[c] = "idle"
  /\ Park(c, Own, "idle")
  /\ UNCHANGED <<env, now, table, lost, list>>

AskStanding(c) ==
  /\ pc[c] = "idle"
  /\ pending' = NewOrder
  /\ UNCHANGED <<env, now, table, keys, lost, pc, work, list>>

AskCancel(c) ==
  /\ pc[c] = "idle" /\ pending # None
  /\ pending' = None
  /\ UNCHANGED <<env, now, table, keys, lost, pc, work, list>>

CancelStanding(c) ==
  /\ pc[c] = "idle"
  /\ \E o \in Order :
       /\ status[o] = "active"
       /\ status' = [status EXCEPT ![o] = "cancelled"]
  /\ UNCHANGED <<env, now, due, pending, keys, lost, pc, work, list>>

AskConfirm(c) ==
  /\ pc[c] = "idle"
  /\ Goto(c, "confirm")
  /\ UNCHANGED <<env, now, table, pending, keys, lost, work, list>>

-----------------------------------------------------------------------------
(* CONFIRM, from the owner or from a worker *)

\* getPending: whatever is parked by now is what gets confirmed.
ReadPending(a) ==
  /\ pc[a] = "confirm"
  /\ IF pending = None
     THEN Finish(a)
     ELSE Goto(a, IF pending = NewOrder THEN "create" ELSE "pay") /\ Hold(a, pending)
  /\ UNCHANGED <<env, now, table, pending, keys, lost, list>>

\* Not onboarded, locked, or a wrong PIN; the wrong PIN that locks the account
\* clears the session of a send.
Refused(a) ==
  /\ pc[a] \in {"pay", "create"}
  /\ pending' \in IF pc[a] = "pay" THEN {pending, None} ELSE {pending}
  /\ Finish(a)
  /\ UNCHANGED <<env, now, table, keys, lost, list>>

\* Fault: the key is paid without being claimed.
PayUnclaimed(a) ==
  /\ pc[a] = "pay"
  /\ work[a] \notin claimed
  /\ spent' = spent \cup {work[a]}
  /\ Goto(a, "clear")
  /\ UNCHANGED <<env, now, table, pending, made, claimed, settling, lost, work, list>>

\* executeSend: the key is claimed and its money leaves, or run() fails before
\* that; a key claimed before moves nothing.
Pay(a) ==
  /\ pc[a] = "pay"
  /\ claimed' = claimed \cup {work[a]}
  /\ \/ /\ work[a] \notin claimed
        /\ spent' = spent \cup {work[a]}
        /\ IF async
           THEN Finish(a) /\ settling' = settling \cup {work[a]}
           ELSE Goto(a, "clear") /\ UNCHANGED <<work, settling>>
     \/ Finish(a) /\ UNCHANGED <<spent, settling>>
  /\ UNCHANGED <<env, now, table, pending, made, lost, list>>

\* run() fails after the money left: timed out, or a write went wrong.
RunFails(a) ==
  /\ pc[a] = "clear" /\ work[a] \in Key
  /\ Finish(a)
  /\ UNCHANGED <<env, now, table, pending, keys, lost, list>>

\* A background run() gets to its setPending(null), or fails or dies before it.
Settle(k) ==
  /\ k \in settling
  /\ settling' = settling \ {k}
  /\ pending' \in {pending, None}
  /\ UNCHANGED <<env, now, table, made, claimed, spent, lost, pc, work, list>>

\* openStandingOrder: the next id, first due in the next period.
CreateOrder(a) ==
  /\ pc[a] = "create"
  /\ \E o \in Order :
       /\ status[o] = "none" /\ \A p \in Order : p < o => status[p] # "none"
       /\ status' = [status EXCEPT ![o] = "active"]
       /\ due'    = [due EXCEPT ![o] = now + 1]
  /\ Goto(a, "clear")
  /\ UNCHANGED <<env, now, pending, keys, lost, work, list>>

ClearPending(a) ==
  /\ pc[a] = "clear"
  /\ pending' = None
  /\ Finish(a)
  /\ UNCHANGED <<env, now, table, keys, lost, list>>

Confirm(a) ==
  \/ ReadPending(a) \/ Refused(a) \/ Pay(a) \/ RunFails(a)
  \/ CreateOrder(a) \/ ClearPending(a)

-----------------------------------------------------------------------------
(* A tick: the due orders are listed once and worked off one by one *)

\* ORDER BY id LIMIT: the first so many of a set of orders.
FirstOf(orders) == {o \in orders : Cardinality({p \in orders : p <= o}) <= Limit}

\* Fault: cancelled orders are listed with the others.
ListIgnoresStatus(w) ==
  /\ pc[w] = "idle"
  /\ todo' = [todo EXCEPT ![w] = {<<o, due[o]>> :
       o \in FirstOf({o \in Order : status[o] # "none" /\ due[o] <= now})}]
  /\ Goto(w, "next")
  /\ UNCHANGED <<env, now, table, pending, keys, lost, work, at>>

\* claimDueStanding lists, and changes nothing in the table.
ListDue(w) ==
  /\ pc[w] = "idle"
  /\ todo' = [todo EXCEPT ![w] = {<<o, due[o]>> :
       o \in FirstOf({o \in Order : status[o] = "active" /\ due[o] <= now})}]
  /\ Goto(w, "next")
  /\ UNCHANGED <<env, now, table, pending, keys, lost, work, at>>

\* The first of the orders left.
NextOrder(w) ==
  /\ pc[w] = "next"
  /\ \E e \in todo[w] :
       /\ \A f \in todo[w] : e[1] <= f[1]
       /\ at'   = [at EXCEPT ![w] = e]
       /\ todo' = [todo EXCEPT ![w] = @ \ {e}]
  /\ Goto(w, "send")
  /\ store # "postgres"
  /\ UNCHANGED <<env, now, table, pending, keys, lost, work>>

\* Postgres gives next_run_at as a Date, which has no slice: the loop throws
\* outside its try, and the tick is over.
SliceThrows(w) ==
  /\ pc[w] = "next" /\ todo[w] # {}
  /\ store = "postgres"
  /\ todo' = [todo EXCEPT ![w] = {}]
  /\ Goto(w, "idle")
  /\ UNCHANGED <<env, now, table, pending, keys, lost, work, at>>

TickEnds(w) ==
  /\ pc[w] = "next" /\ todo[w] = {}
  /\ Goto(w, "idle")
  /\ UNCHANGED <<env, now, table, pending, keys, lost, work, list>>

\* "send ... to ..." is let through.
Send(w) ==
  /\ pc[w] = "send"
  /\ Park(w, at[w], "pin")
  /\ UNCHANGED <<env, now, table, lost, list>>

\* The message ends in an answer that asks for no PIN: unknown payee, policy.
SendRefused(w) ==
  /\ pc[w] = "send"
  /\ Goto(w, "mark")
  /\ UNCHANGED <<env, now, table, pending, keys, lost, work, list>>

WithPin(w) ==
  /\ pc[w] = "pin" /\ pin
  /\ Goto(w, "confirm")
  /\ UNCHANGED <<env, now, table, pending, keys, lost, work, list>>

\* No PIN to confirm with: on to the next order; the send stays parked.
NoPin(w) ==
  /\ pc[w] = "pin" /\ ~pin
  /\ Unmarked(w)
  /\ Goto(w, "next")
  /\ UNCHANGED <<env, now, table, pending, keys, work, todo>>

\* Fault: the next run is counted from the date that was due, and lands on it.
MarkSameDate(w) ==
  /\ pc[w] = "mark"
  /\ due' = [due EXCEPT ![at[w][1]] = at[w][2]]
  /\ at'  = [at EXCEPT ![w] = None]
  /\ Goto(w, "next")
  /\ UNCHANGED <<env, now, status, pending, keys, lost, work, todo>>

\* markStandingRan: next run one cadence from now, whatever the answer was.
Mark(w) ==
  /\ pc[w] = "mark"
  /\ due' = [due EXCEPT ![at[w][1]] = now + 1]
  /\ at'  = [at EXCEPT ![w] = None]
  /\ Goto(w, "next")
  /\ UNCHANGED <<env, now, status, pending, keys, lost, work, todo>>

\* Fault: an exception ends the run instead of one order.
ThrowEndsRun(w) ==
  /\ pc[w] \in {"send", "confirm", "pay", "create", "clear", "mark"}
  /\ Unmarked(w) /\ Hold(w, None)
  /\ todo' = [todo EXCEPT ![w] = {}]
  /\ Goto(w, "idle")
  /\ UNCHANGED <<env, now, table, pending, keys>>

\* A message or the mark throws: caught, on to the next order.
OrderThrows(w) ==
  /\ pc[w] \in {"send", "confirm", "pay", "create", "clear", "mark"}
  /\ Unmarked(w) /\ Hold(w, None)
  /\ Goto(w, "next")
  /\ UNCHANGED <<env, now, table, pending, keys, todo>>

WorkOff(w) ==
  \/ NextOrder(w) \/ SliceThrows(w) \/ TickEnds(w)
  \/ Send(w) \/ SendRefused(w) \/ WithPin(w) \/ NoPin(w)
  \/ Mark(w) \/ OrderThrows(w) \/ Confirm(w)

-----------------------------------------------------------------------------

\* The process of a run dies; what it listed is gone with it.
WorkerDies(w) ==
  /\ pc[w] # "idle"
  /\ Unmarked(w) /\ Hold(w, None)
  /\ todo' = [todo EXCEPT ![w] = {}]
  /\ Goto(w, "idle")
  /\ UNCHANGED <<env, now, table, pending, keys>>

\* A call throws, or its process dies.
CallDies(c) ==
  /\ pc[c] # "idle"
  /\ Goto(c, "idle") /\ Hold(c, None)
  /\ UNCHANGED <<env, now, table, pending, keys, lost, list>>

Ask(c) ==
  AskSend(c) \/ AskStanding(c) \/ AskCancel(c) \/ CancelStanding(c) \/ AskConfirm(c)

\* Everything but the death of a worker's process.
WorkersAlive ==
  \/ Passes
  \/ \E k \in Key : Settle(k)
  \/ \E c \in Caller : Ask(c) \/ Confirm(c) \/ CallDies(c)
  \/ \E w \in Worker : ListDue(w) \/ WorkOff(w)

Next == WorkersAlive \/ \E w \in Worker : WorkerDies(w)

Spec == Init /\ [][Next]_vars

\* setInterval ticks for ever, an awaited call returns or throws, and processes
\* stop dying some day.  That any order is ever paid is not assumed.
Ticking ==
  /\ \A w \in Worker : WF_vars(ListDue(w)) /\ WF_vars(WorkOff(w))
  /\ <>[][WorkersAlive]_vars

LiveSpec == Spec /\ Ticking

-----------------------------------------------------------------------------
(* Properties *)

Dated == Order \X Date

TypeOK ==
  /\ {demo, async, pin} \subseteq BOOLEAN /\ store \in Store /\ now \in 0 .. Horizon
  /\ status \in [Order -> {"none", "active", "cancelled"}]
  /\ due \in [Order -> Date]
  /\ pending \in Key \cup {NewOrder, None}
  /\ made \in [Key -> Dated \cup {Own, None}]
  /\ claimed \subseteq Key /\ spent \subseteq claimed /\ settling \subseteq spent
  /\ lost \subseteq Dated
  /\ pc \in [Actor -> {"idle", "confirm", "pay", "create", "clear",
                      "next", "send", "pin", "mark"}]
  /\ work \in [Actor -> Key \cup {NewOrder, None}]
  /\ \A a \in Actor : pc[a] = "pay" => work[a] \in Key
  /\ todo \in [Worker -> SUBSET Dated]
  /\ at \in [Worker -> Dated \cup {None}]
  /\ \A w \in Worker :
       at[w] = None <=> pc[w] \in {"idle", "next"}

\* Due dates are worked off by one run at a time (the `running` flag of the timer).
OneWorker == \A v, w \in Worker : v = w

\* An order pays once per due date, whatever the owner confirms or parks next to
\* the worker: two payments for one date mean that a run lost its mark in between.
RepeatNeedsLostMark ==
  OneWorker => \A j, k \in spent :
    j # k /\ made[j] = made[k] /\ made[k] \in Dated => made[k] \in lost

\* Why: what a run has listed is still due as listed, every date a key was made for
\* is in hand, marked or lost, and two keys were made only for a lost one.
ListIsCurrent ==
  \A w \in Worker :
    /\ at[w] \notin todo[w]
    /\ \A e \in Dated : e \in todo[w] \/ e = at[w] =>
         due[e[1]] = e[2] /\ e[2] <= now /\ status[e[1]] # "none"

WorkedDates ==
  \A k \in Key, e \in Dated : made[k] = e =>
    /\ status[e[1]] # "none"
    /\ \/ e \in lost
       \/ due[e[1]] > e[2]
       \/ \E w \in Worker : at[w] = e /\ pc[w] # "send"

OneKeyPerDate ==
  \A j, k \in Key, e \in Dated : j # k /\ made[j] = e /\ made[k] = e => e \in lost

IInv == TypeOK /\ (OneWorker => ListIsCurrent /\ WorkedDates /\ OneKeyPerDate)

\* A cancelled order that no run has listed and nobody can confirm any more stays
\* cancelled and is never listed, parked or paid again.
KeyLive(k) == pending = k \/ \E a \in Actor : work[a] = k

Retired(o) ==
  /\ status[o] = "cancelled"
  /\ \A w \in Worker, d \in Date : <<o, d>> \notin todo[w] /\ at[w] # <<o, d>>
  /\ \A k \in Key : (\E d \in Date : made[k] = <<o, d>>) => ~KeyLive(k)

CancelIsFinal ==
  [][\A o \in Order : Retired(o) =>
       /\ Retired(o)'
       /\ \A k \in spent' \ spent, d \in Date : made'[k] # <<o, d>>]_vars

\* A due order is never left alone: as long as it is active and due, a run gets to
\* it, whatever happens to the orders before it.
DueIsServed == \A o \in Order :
  (status[o] = "active" /\ due[o] <= now) ~>
    (~(status[o] = "active" /\ due[o] <= now) \/ \E w \in Worker, d \in Date : at[w] = <<o, d>>)

\* STANDING_PIN is there for unattended standing orders: a worker's CONFIRM spends
\* no money but for the order it has in hand.
PinIsForTheOrder ==
  [][\A w \in Worker :
       pc[w] = "pay" /\ pc'[w] # "pay" /\ work[w] \in spent' \ spent => made[work[w]] = at[w]]_vars
=============================================================================
