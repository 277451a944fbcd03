--------------------------- MODULE StandingProofs ----------------------------
(***************************************************************************)
(* Standing, for every set of orders, keys, calls and runs, every LIMIT    *)
(* and database.  IInv of Standing is inductive; its types come first.     *)
(***************************************************************************)
EXTENDS Standing, TLAPS

Label == {"idle", "confirm", "pay", "create", "clear", "next", "send", "pin", "mark"}

ActorTyped ==
  /\ pc \in [Actor -> Label]
  /\ work \in [Actor -> Key \cup {NewOrder, None}]
  /\ \A a \in Actor : pc[a] = "pay" => work[a] \in Key

ListTyped ==
  /\ todo \in [Worker -> SUBSET Dated]
  /\ at \in [Worker -> Dated \cup {None}]
  /\ \A w \in Worker : at[w] = None <=> pc[w] \in {"idle", "next"}

StoreTyped ==
  /\ {demo, async, pin} \subseteq BOOLEAN /\ store \in Store /\ now \in 0 .. Horizon
  /\ status \in [Order -> {"none", "active", "cancelled"}]
  /\ due \in [Order -> Date]
  /\ pending \in Key \cup {NewOrder, None}
  /\ made \in [Key -> Dated \cup {Own, None}]
  /\ claimed \subseteq Key /\ spent \subseteq claimed /\ settling \subseteq spent
  /\ lost \subseteq Dated

TypeInv == ActorTyped /\ ListTyped /\ StoreTyped

\* TypeInv is the type invariant the runs check.
LEMMA TypeInvIsTypeOK == TypeInv <=> TypeOK
  BY DEF TypeInv, ActorTyped, ListTyped, StoreTyped, TypeOK, Label

\* Dates are numbers, the next period is one of them, and None is no order's date.
LEMMA Dates ==
  /\ Horizon \in Nat /\ 0 \in Date /\ None \notin Dated /\ Own \notin Dated /\ None # Own
  /\ \A t \in 0 .. Horizon : t + 1 \in Date
  /\ \A d \in Date : d \in Nat
  /\ \A o \in Order, d \in Date : <<o, d>> \in Dated
  /\ \A e \in Dated : e[1] \in Order /\ e[2] \in Date /\ e = <<e[1], e[2]>>
<1>1. Horizon \in Nat
  BY OrderAssumption
<1>2. \A d \in Date : d \in Nat
  BY <1>1 DEF Date
<1>3. None \notin Dated /\ Own \notin Dated
  <2>1. Dated \subseteq Order \X Nat
    BY <1>2 DEF Dated
  <2>2. QED BY <2>1, NoneAssumption
<1>4. \A t \in 0 .. Horizon : t + 1 \in Date
  BY <1>1 DEF Date
<1>5. 0 \in Date
  BY <1>1 DEF Date
<1>6. QED
  BY <1>1, <1>2, <1>3, <1>4, <1>5, NoneAssumption DEF Dated

\* Callers and runs are different actors.
LEMMA Actors == Worker \subseteq Actor /\ Caller \subseteq Actor /\ Caller \cap Worker = {}
  BY ActorAssumption DEF Actor

\* What a run lists are orders with the dates they are due.
LEMMA DueDated ==
  ASSUME StoreTyped, NEW S \in SUBSET Order
  PROVE  \A e \in {<<o, due[o]>> : o \in FirstOf(S)} :
           e \in Dated /\ e[1] \in S /\ due[e[1]] = e[2]
<1>1. \A o \in FirstOf(S) : o \in S /\ o \in Order
  BY DEF FirstOf
<1>2. \A o \in FirstOf(S) : <<o, due[o]>> \in Dated
  BY <1>1, Dates DEF StoreTyped
<1>3. QED BY <1>1, <1>2

-----------------------------------------------------------------------------
(* Types *)

\* Init is well typed.
LEMMA TypeInit == Init => TypeInv
  BY Dates, NoneAssumption DEF Init, TypeInv, ActorTyped, ListTyped, StoreTyped, Label, Actor

\* What a call of the owner does to the actors leaves the runs alone.
LEMMA CallerLeavesLists ==
  ASSUME TypeInv, NEW c \in Caller, NEW l, Goto(c, l), UNCHANGED list
  PROVE  ListTyped'
  BY Actors DEF TypeInv, ListTyped, ActorTyped, Goto, list

\* A step of CONFIRM keeps the types, whoever takes it.
LEMMA ConfirmTyped ==
  ASSUME TypeInv, NEW a \in Actor, Confirm(a)
  PROVE  TypeInv'
<1>t. ActorTyped /\ ListTyped /\ StoreTyped
  BY DEF TypeInv
<1>1. UNCHANGED list /\ pc[a] \in {"confirm", "pay", "create", "clear"}
  BY DEF Confirm, ReadPending, Refused, Pay, RunFails, CreateOrder, ClearPending
<1>2. \/ Finish(a)
      \/ Goto(a, "clear") /\ UNCHANGED work
      \/ Goto(a, "create") /\ Hold(a, NewOrder)
      \/ pending \in Key /\ Goto(a, "pay") /\ Hold(a, pending)
  BY <1>t DEF Confirm, ReadPending, Refused, Pay, RunFails, CreateOrder, ClearPending, StoreTyped
<1>3. ActorTyped'
  BY <1>t, <1>2 DEF ActorTyped, Finish, Goto, Hold, Label
<1>4. ListTyped'
  BY <1>t, <1>1, <1>2, Actors DEF ListTyped, ActorTyped, Finish, Goto, list
<1>5. StoreTyped'
  <2>1. CASE ReadPending(a) \/ Refused(a) \/ RunFails(a) \/ ClearPending(a)
    BY <2>1, <1>t DEF ReadPending, Refused, RunFails, ClearPending, env, table, keys, StoreTyped
  <2>2. CASE Pay(a)
    <3>1. work[a] \in Key
      BY <2>2, <1>t DEF Pay, ActorTyped
    <3>2. QED BY <2>2, <3>1, <1>t DEF Pay, env, table, StoreTyped
  <2>3. CASE CreateOrder(a)
    BY <2>3, <1>t, Dates DEF CreateOrder, env, keys, StoreTyped
  <2>4. QED BY <2>1, <2>2, <2>3 DEF Confirm
<1>6. QED BY <1>3, <1>4, <1>5 DEF TypeInv

\* Parking a send made for an order's date or for the owner keeps the store typed.
LEMMA ParkTyped ==
  ASSUME TypeInv, NEW a \in Actor, NEW m \in Dated \cup {Own}, NEW l \in Label,
         Park(a, m, l), l # "pay", UNCHANGED <<env, now, table, lost>>
  PROVE  ActorTyped' /\ StoreTyped'
<1>t. ActorTyped /\ StoreTyped
  BY DEF TypeInv
<1>1. PICK k \in Key :
        /\ made' = [made EXCEPT ![k] = m]
        /\ IF demo THEN Goto(a, "pay") /\ Hold(a, k) /\ UNCHANGED pending
                   ELSE Goto(a, l) /\ pending' = k /\ UNCHANGED work
        /\ UNCHANGED <<claimed, spent, settling>>
  BY DEF Park
<1>2. ActorTyped'
  <2>1. CASE demo
    BY <1>1, <1>t, <2>1 DEF ActorTyped, Goto, Hold, Label
  <2>2. CASE ~demo
    BY <1>1, <1>t, <2>2 DEF ActorTyped, Goto, Hold, Label
  <2>3. QED BY <2>1, <2>2
<1>3. pending' \in Key \cup {NewOrder, None}
  <2>1. CASE demo
    BY <1>1, <1>t, <2>1 DEF StoreTyped
  <2>2. CASE ~demo
    BY <1>1, <2>2
  <2>3. QED BY <2>1, <2>2
<1>4. StoreTyped'
  BY <1>1, <1>3, <1>t DEF StoreTyped, env, table
<1>5. QED BY <1>2, <1>4

\* Every step keeps the types.
LEMMA TypeStep == TypeInv /\ [Next]_vars => TypeInv'
<1> SUFFICES ASSUME TypeInv, [Next]_vars PROVE TypeInv'
  OBVIOUS
<1>t. ActorTyped /\ ListTyped /\ StoreTyped
  BY DEF TypeInv
<1>1. CASE Passes
  BY <1>1, <1>t, Dates DEF Passes, env, table, keys, list, TypeInv, ActorTyped, ListTyped, StoreTyped
<1>2. ASSUME NEW k \in Key, Settle(k) PROVE TypeInv'
  BY <1>2, <1>t DEF Settle, env, table, list, TypeInv, ActorTyped, ListTyped, StoreTyped
<1>3. ASSUME NEW a \in Actor, Confirm(a) PROVE TypeInv'
  BY <1>3, ConfirmTyped
<1>4. ASSUME NEW c \in Caller, Ask(c) PROVE TypeInv'
  <2>1. CASE AskSend(c)
    <3>1. c \in Actor /\ "idle" \in Label /\ c \notin Worker
      BY Actors DEF Label
    <3>2. ActorTyped' /\ StoreTyped'
      BY <2>1, <3>1, ParkTyped DEF AskSend
    <3>3. \A w \in Worker : pc'[w] = pc[w]
      BY <2>1, <3>1, <1>t, Actors DEF AskSend, Park, Goto, ActorTyped
    <3>4. ListTyped'
      BY <2>1, <3>3, <1>t DEF AskSend, list, ListTyped
    <3>5. QED BY <3>2, <3>4 DEF TypeInv
  <2>2. CASE AskStanding(c) \/ AskCancel(c)
    BY <2>2, <1>t DEF AskStanding, AskCancel, env, table, keys, list, TypeInv, ActorTyped, ListTyped, StoreTyped
  <2>3. CASE CancelStanding(c)
    BY <2>3, <1>t DEF CancelStanding, env, keys, list, TypeInv, ActorTyped, ListTyped, StoreTyped
  <2>4. CASE AskConfirm(c)
    <3>1. ListTyped'
      BY <2>4, CallerLeavesLists DEF AskConfirm
    <3>2. QED
      BY <2>4, <3>1, <1>t, Actors DEF AskConfirm, Goto, Label, env, table, keys, TypeInv, ActorTyped, StoreTyped
  <2>5. QED BY <1>4, <2>1, <2>2, <2>3, <2>4 DEF Ask
<1>5. ASSUME NEW c \in Caller, CallDies(c) PROVE TypeInv'
  <2>1. ListTyped'
    BY <1>5, CallerLeavesLists DEF CallDies
  <2>2. QED
    BY <1>5, <2>1, <1>t, Actors DEF CallDies, Goto, Hold, Label, env, table, keys, TypeInv, ActorTyped, StoreTyped
<1>6. ASSUME NEW w \in Worker, ListDue(w) PROVE TypeInv'
  <2> DEFINE Active == {o \in Order : status[o] = "active" /\ due[o] <= now}
  <2>1. {<<o, due[o]>> : o \in FirstOf(Active)} \subseteq Dated
    BY DueDated, <1>t
  <2>2. QED
    BY <1>6, <2>1, <1>t, Actors
       DEF ListDue, Goto, Label, env, table, keys, TypeInv, ActorTyped, ListTyped, StoreTyped
<1>7. ASSUME NEW w \in Worker, NextOrder(w) PROVE TypeInv'
  BY <1>7, <1>t, Actors, Dates
     DEF NextOrder, Goto, Label, env, table, keys, TypeInv, ActorTyped, ListTyped, StoreTyped
<1>8. ASSUME NEW w \in Worker, SliceThrows(w) \/ TickEnds(w) PROVE TypeInv'
  BY <1>8, <1>t, Actors
     DEF SliceThrows, TickEnds, Goto, Label, env, table, keys, list, TypeInv, ActorTyped, ListTyped, StoreTyped
<1>9. ASSUME NEW w \in Worker, Send(w) PROVE TypeInv'
  <2>1. w \in Actor /\ "pin" \in Label /\ at[w] \in Dated
    BY <1>9, <1>t, Actors DEF Send, Label, ListTyped
  <2>2. ActorTyped' /\ StoreTyped'
    BY <1>9, <2>1, ParkTyped DEF Send
  <2>3. pc'[w] \in {"pay", "pin"} /\ \A v \in Worker : v # w => pc'[v] = pc[v]
    BY <1>9, <2>1, <1>t, Actors DEF Send, Park, Goto, ActorTyped
  <2>4. ListTyped'
    BY <1>9, <2>1, <2>3, <1>t, Dates DEF Send, list, ListTyped
  <2>5. QED BY <2>2, <2>4 DEF TypeInv
<1>10. ASSUME NEW w \in Worker, SendRefused(w) \/ WithPin(w) PROVE TypeInv'
  BY <1>10, <1>t, Actors
     DEF SendRefused, WithPin, Goto, Label, env, table, keys, list, TypeInv, ActorTyped, ListTyped, StoreTyped
<1>11. ASSUME NEW w \in Worker, NoPin(w) PROVE TypeInv'
  BY <1>11, <1>t, Actors
     DEF NoPin, Unmarked, Goto, Label, env, table, keys, TypeInv, ActorTyped, ListTyped, StoreTyped
<1>12. ASSUME NEW w \in Worker, Mark(w) PROVE TypeInv'
  <2>1. at[w] \in Dated /\ now + 1 \in Date
    BY <1>12, <1>t, Dates DEF Mark, ListTyped, StoreTyped
  <2>2. at[w][1] \in Order
    BY <2>1, Dates
  <2>3. due' \in [Order -> Date]
    BY <1>12, <2>1, <2>2, <1>t DEF Mark, StoreTyped
  <2>4. QED
    BY <1>12, <2>3, <1>t, Actors
       DEF Mark, Goto, Label, env, keys, TypeInv, ActorTyped, ListTyped, StoreTyped
<1>13. ASSUME NEW w \in Worker, OrderThrows(w) \/ WorkerDies(w) PROVE TypeInv'
  BY <1>13, <1>t, Actors
     DEF OrderThrows, WorkerDies, Unmarked, Goto, Hold, Label, env, table, keys,
         TypeInv, ActorTyped, ListTyped, StoreTyped
<1>14. CASE UNCHANGED vars
  BY <1>14, <1>t DEF vars, env, table, keys, list, TypeInv, ActorTyped, ListTyped, StoreTyped
<1>15. QED
  BY <1>1, <1>2, <1>3, <1>4, <1>5, <1>6, <1>7, <1>8, <1>9, <1>10, <1>11, <1>12, <1>13, <1>14
     DEF Next, WorkersAlive, WorkOff, Actor

\* The standing-order flow is well typed: in particular a run has an order in hand
\* whenever it talks to handleMessage or marks one, and only claimed keys pay.
THEOREM StandingTypeCorrect == Spec => []TypeOK
<1>1. Spec => []TypeInv
  BY TypeInit, TypeStep, PTL DEF Spec
<1>2. QED BY <1>1, TypeInvIsTypeOK, PTL

-----------------------------------------------------------------------------
(* One payment for a date, unless a mark was lost *)

Current == ListIsCurrent /\ WorkedDates /\ OneKeyPerDate

\* Nothing is listed or made yet.
LEMMA CurrentInit == Init => Current
  BY Dates DEF Init, Current, ListIsCurrent, WorkedDates, OneKeyPerDate

\* A step that makes no key for a date, moves no due date of an order that exists
\* and sends no run to a new order.
Quiet ==
  /\ \A k \in Key, e \in Dated : made'[k] = e <=> made[k] = e
  /\ lost' = lost /\ at' = at
  /\ \A w \in Worker : todo'[w] \subseteq todo[w] /\ (pc'[w] = "send" => pc[w] = "send")
  /\ \A o \in Order : status[o] # "none" => status'[o] # "none" /\ due'[o] = due[o]
  /\ now <= now'

\* A quiet step keeps what is listed current and every worked date accounted for.
LEMMA QuietKeeps ==
  ASSUME Current, TypeInv, TypeInv', Quiet
  PROVE  Current'
<1>1. now \in Nat /\ now' \in Nat /\ (\A e \in Dated : e[1] \in Order /\ e[2] \in Nat)
  BY Dates DEF TypeInv, StoreTyped
<1>2. ListIsCurrent'
  BY <1>1 DEF Current, ListIsCurrent, Quiet
<1>3. WorkedDates'
  BY <1>1 DEF Current, WorkedDates, Quiet
<1>4. OneKeyPerDate'
  BY DEF Current, OneKeyPerDate, Quiet
<1>5. QED BY <1>2, <1>3, <1>4 DEF Current

\* A run that leaves its order unmarked loses the date.
LEMMA LeavingKeeps ==
  ASSUME OneWorker, Current, TypeInv, NEW w \in Worker, Unmarked(w), at[w] \in Dated \cup {None},
         todo'[w] \subseteq todo[w], \A v \in Worker : v # w => todo'[v] = todo[v],
         UNCHANGED <<now, table, made>>
  PROVE  Current'
<1>1. at \in [Worker -> Dated \cup {None}] /\ None \notin Dated
  BY Dates DEF TypeInv, ListTyped
<1>2. at'[w] = None /\ (\A v \in Worker : v = w) /\ todo[w] \subseteq Dated /\ todo'[w] \subseteq Dated
  BY <1>1 DEF OneWorker, Unmarked, TypeInv, ListTyped
<1>3. ListIsCurrent'
  BY <1>1, <1>2 DEF Current, ListIsCurrent, table
<1>4. \A e \in Dated : e = at[w] => e \in lost'
  BY <1>1 DEF Unmarked
<1>5. lost \subseteq lost'
  BY DEF Unmarked
<1>6. WorkedDates'
  BY <1>2, <1>4, <1>5 DEF Current, WorkedDates, table
<1>7. OneKeyPerDate'
  BY <1>5 DEF Current, OneKeyPerDate
<1>8. QED BY <1>3, <1>6, <1>7 DEF Current

\* A run sends for a date in hand that no key was made for, or that was lost.
LEMMA SendKeeps ==
  ASSUME OneWorker, Current, TypeInv, TypeInv', NEW w \in Worker, Send(w)
  PROVE  Current'
<1>1. at[w] \in Dated /\ (\A v \in Worker : v = w) /\ None \notin Dated
  BY Dates DEF TypeInv, ListTyped, Send, OneWorker
<1>2. PICK k \in Key :
        made[k] = None /\ made' = [made EXCEPT ![k] = at[w]] /\ pc'[w] # "send"
  BY Actors DEF Send, Park, Goto, TypeInv, ActorTyped
<1>3. made \in [Key -> Dated \cup {Own, None}] /\ UNCHANGED <<now, status, due, lost, todo, at>>
  BY DEF TypeInv, StoreTyped, Send, table, list
<1>4. \A j \in Key : j # k => made'[j] = made[j]
  BY <1>2, <1>3
<1>5. made'[k] = at[w]
  BY <1>2, <1>3
<1>6. due[at[w][1]] = at[w][2] /\ status[at[w][1]] # "none" /\ at[w][2] \in Nat
  BY <1>1, Dates DEF Current, ListIsCurrent
<1>7. \A j \in Key : made[j] = at[w] => at[w] \in lost
  <2>1. ~ \E v \in Worker : at[v] = at[w] /\ pc[v] # "send"
    BY <1>1 DEF Send
  <2>2. ~(due[at[w][1]] > at[w][2])
    BY <1>6
  <2>3. QED BY <1>1, <2>1, <2>2 DEF Current, WorkedDates
<1>8. ListIsCurrent'
  BY <1>3 DEF Current, ListIsCurrent
<1>9. WorkedDates'
  BY <1>1, <1>2, <1>3, <1>4, <1>5, <1>6 DEF Current, WorkedDates
<1>10. OneKeyPerDate'
  BY <1>3, <1>4, <1>5, <1>7 DEF Current, OneKeyPerDate
<1>11. QED BY <1>8, <1>9, <1>10 DEF Current

\* A marked date is past: the order is due later than that.
LEMMA MarkKeeps ==
  ASSUME OneWorker, Current, TypeInv, TypeInv', NEW w \in Worker, Mark(w)
  PROVE  Current'
<1>1. at[w] \in Dated /\ (\A v \in Worker : v = w) /\ None \notin Dated
  BY Dates DEF TypeInv, ListTyped, Mark, OneWorker
<1>2. at[w][2] <= now /\ now \in Nat /\ at[w][2] \in Nat /\ at[w][1] \in Order /\ at[w] \notin todo[w]
      /\ due[at[w][1]] = at[w][2] /\ at[w] = <<at[w][1], at[w][2]>>
  BY <1>1, Dates DEF Current, ListIsCurrent, TypeInv, StoreTyped
<1>3. /\ \A o \in Order : o # at[w][1] => due'[o] = due[o]
      /\ due'[at[w][1]] = now + 1
      /\ at'[w] = None
      /\ UNCHANGED <<now, status, made, lost, todo>>
  BY <1>1, <1>2 DEF Mark, TypeInv, StoreTyped, ListTyped, keys
<1>4. \A e \in todo[w] : e \in Dated /\ e[1] \in Order /\ e[2] \in Nat /\ e = <<e[1], e[2]>>
  BY Dates DEF TypeInv, ListTyped
<1>5. \A e \in todo[w] : e[1] # at[w][1]
  <2> SUFFICES ASSUME NEW e \in todo[w], e[1] = at[w][1] PROVE FALSE
    OBVIOUS
  <2>1. due[e[1]] = e[2]
    BY <1>4 DEF Current, ListIsCurrent
  <2>2. QED BY <2>1, <1>2, <1>4
<1>6. ListIsCurrent'
  BY <1>1, <1>3, <1>4, <1>5 DEF Current, ListIsCurrent
<1>7. WorkedDates'
  <2> SUFFICES ASSUME NEW k \in Key, NEW e \in Dated, made'[k] = e
               PROVE  /\ status'[e[1]] # "none"
                      /\ e \in lost' \/ due'[e[1]] > e[2]
    BY DEF WorkedDates
  <2>1. /\ status[e[1]] # "none" /\ e[1] \in Order /\ e[2] \in Nat
        /\ e \in lost \/ due[e[1]] > e[2] \/ e = at[w]
    BY <1>1, <1>3, Dates DEF Current, WorkedDates
  <2>2. CASE e = at[w]
    BY <2>1, <2>2, <1>2, <1>3
  <2>3. CASE e # at[w] /\ e[1] = at[w][1]
    BY <2>1, <2>3, <1>2, <1>3
  <2>4. CASE e[1] # at[w][1]
    <3>1. e # at[w]
      BY <2>4
    <3>2. QED BY <2>1, <2>4, <3>1, <1>3
  <2>5. QED BY <2>2, <2>3, <2>4
<1>8. OneKeyPerDate'
  BY <1>3 DEF Current, OneKeyPerDate
<1>9. QED BY <1>6, <1>7, <1>8 DEF Current

\* A run lists what is due, or takes the next of what it listed.
LEMMA ListingKeeps ==
  ASSUME OneWorker, Current, TypeInv, NEW w \in Worker, ListDue(w) \/ NextOrder(w)
  PROVE  Current'
<1>1. (\A v \in Worker : v = w) /\ None \notin Dated /\ at[w] = None /\ todo[w] \subseteq Dated
  BY Dates DEF OneWorker, TypeInv, ListTyped, ListDue, NextOrder
<1>2. UNCHANGED <<now, status, due, made, lost>>
  BY DEF ListDue, NextOrder, table, keys
<1>3. WorkedDates'
  BY <1>1, <1>2 DEF Current, WorkedDates
<1>4. OneKeyPerDate'
  BY <1>2 DEF Current, OneKeyPerDate
<1>5. CASE ListDue(w)
  <2> DEFINE Active == {o \in Order : status[o] = "active" /\ due[o] <= now}
  <2>1. \A e \in {<<o, due[o]>> : o \in FirstOf(Active)} :
          e \in Dated /\ e[1] \in Active /\ due[e[1]] = e[2]
    BY DueDated DEF TypeInv
  <2>2. todo'[w] = {<<o, due[o]>> : o \in FirstOf(Active)} /\ at'[w] = None
    BY <1>1, <1>5 DEF ListDue, TypeInv, ListTyped
  <2>3. ListIsCurrent'
    <3> HIDE DEF Active
    <3>1. \A e \in todo'[w] : e \in Dated /\ e[1] \in Active /\ due[e[1]] = e[2]
      BY <2>1, <2>2
    <3>2. \A o \in Active : status[o] # "none" /\ due[o] <= now
      BY DEF Active
    <3>3. QED BY <3>1, <3>2, <2>2, <1>1, <1>2 DEF ListIsCurrent
  <2>4. QED BY <2>3, <1>3, <1>4 DEF Current
<1>6. CASE NextOrder(w)
  <2>1. PICK e \in todo[w] : at' = [at EXCEPT ![w] = e] /\ todo' = [todo EXCEPT ![w] = @ \ {e}]
    BY <1>6 DEF NextOrder
  <2>2. at'[w] = e /\ todo'[w] = todo[w] \ {e}
    BY <2>1 DEF TypeInv, ListTyped
  <2>3. ListIsCurrent'
    BY <1>1, <1>2, <2>2 DEF Current, ListIsCurrent
  <2>4. QED BY <2>3, <1>3, <1>4 DEF Current
<1>7. QED BY <1>5, <1>6

\* With one run of due orders, every step keeps the dates accounted for: one case
\* per action, most of them quiet.
LEMMA CurrentStep == OneWorker /\ Current /\ TypeInv /\ TypeInv' /\ [Next]_vars => Current'
<1> SUFFICES ASSUME OneWorker, Current, TypeInv, TypeInv', [Next]_vars PROVE Current'
  OBVIOUS
<1>t. ActorTyped /\ ListTyped /\ StoreTyped
  BY DEF TypeInv
<1>1. CASE Passes
  <2>1. Quiet
    BY <1>1, <1>t, Dates DEF Passes, Quiet, table, keys, list, StoreTyped
  <2>2. QED BY <2>1, QuietKeeps
<1>2. ASSUME NEW k \in Key, Settle(k) PROVE Current'
  <2>1. Quiet
    BY <1>2, <1>t, Dates DEF Settle, Quiet, table, list, StoreTyped
  <2>2. QED BY <2>1, QuietKeeps
<1>3. ASSUME NEW a \in Actor, Confirm(a) PROVE Current'
  <2>1. \A w \in Worker : pc'[w] = "send" => pc[w] = "send"
    BY <1>3, <1>t, Actors
       DEF Confirm, ReadPending, Refused, Pay, RunFails, CreateOrder, ClearPending, Finish, Goto, ActorTyped
  <2>2. UNCHANGED <<made, lost, at, todo, now>>
    BY <1>3 DEF Confirm, ReadPending, Refused, Pay, RunFails, CreateOrder, ClearPending, keys, list
  <2>3. \A o \in Order : status[o] # "none" => status'[o] # "none" /\ due'[o] = due[o]
    BY <1>3, <1>t
       DEF Confirm, ReadPending, Refused, Pay, RunFails, CreateOrder, ClearPending, table, StoreTyped
  <2>4. now <= now'
    BY <2>2, <1>t, Dates DEF StoreTyped
  <2>5. Quiet
    BY <2>1, <2>2, <2>3, <2>4 DEF Quiet
  <2>6. QED BY <2>5, QuietKeeps
<1>4. ASSUME NEW c \in Caller, Ask(c) PROVE Current'
  <2>1. \A w \in Worker : pc'[w] = pc[w]
    BY <1>4, <1>t, Actors
       DEF Ask, AskSend, Park, AskStanding, AskCancel, CancelStanding, AskConfirm, Goto, ActorTyped
  <2>2. UNCHANGED <<lost, at, todo, now, due>>
    BY <1>4 DEF Ask, AskSend, AskStanding, AskCancel, CancelStanding, AskConfirm, table, list
  <2>3. \A o \in Order : status[o] # "none" => status'[o] # "none"
    BY <1>4, <1>t DEF Ask, AskSend, AskStanding, AskCancel, CancelStanding, AskConfirm, table, StoreTyped
  <2>4. \A k \in Key, e \in Dated : made'[k] = e <=> made[k] = e
    <3>1. CASE AskSend(c)
      BY <3>1, <1>t, Dates DEF AskSend, Park, StoreTyped
    <3>2. CASE ~AskSend(c)
      BY <3>2, <1>4 DEF Ask, AskStanding, AskCancel, CancelStanding, AskConfirm, keys
    <3>3. QED BY <3>1, <3>2
  <2>5. now <= now'
    BY <2>2, <1>t, Dates DEF StoreTyped
  <2>6. Quiet
    BY <2>1, <2>2, <2>3, <2>4, <2>5 DEF Quiet
  <2>7. QED BY <2>6, QuietKeeps
<1>5. ASSUME NEW c \in Caller, CallDies(c) PROVE Current'
  <2>1. \A w \in Worker : pc'[w] = pc[w]
    BY <1>5, <1>t, Actors DEF CallDies, Goto, ActorTyped
  <2>2. Quiet
    BY <1>5, <2>1, <1>t, Dates DEF CallDies, Quiet, table, keys, list, StoreTyped
  <2>3. QED BY <2>2, QuietKeeps
<1>6. ASSUME NEW w \in Worker, SliceThrows(w) \/ TickEnds(w) \/ SendRefused(w) \/ WithPin(w)
      PROVE  Current'
  <2>1. \A v \in Worker : todo'[v] \subseteq todo[v] /\ (pc'[v] = "send" => pc[v] = "send")
    BY <1>6, <1>t, Actors DEF SliceThrows, TickEnds, SendRefused, WithPin, Goto, list, ActorTyped, ListTyped
  <2>2. UNCHANGED <<made, lost, at, now, status, due>>
    BY <1>6 DEF SliceThrows, TickEnds, SendRefused, WithPin, keys, table, list
  <2>3. Quiet
    BY <2>1, <2>2, <1>t, Dates DEF Quiet, StoreTyped
  <2>4. QED BY <2>3, QuietKeeps
<1>7. ASSUME NEW w \in Worker, NoPin(w) \/ OrderThrows(w) \/ WorkerDies(w) PROVE Current'
  <2>1. Unmarked(w) /\ at[w] \in Dated \cup {None} /\ UNCHANGED <<now, table, made>>
    BY <1>7, <1>t DEF NoPin, OrderThrows, WorkerDies, ListTyped, keys
  <2>2. todo'[w] \subseteq todo[w] /\ \A v \in Worker : v # w => todo'[v] = todo[v]
    BY <1>7, <1>t DEF NoPin, OrderThrows, WorkerDies, ListTyped
  <2>3. QED BY <2>1, <2>2, LeavingKeeps
<1>8. CASE UNCHANGED vars
  <2>1. Quiet
    BY <1>8, <1>t, Dates DEF vars, Quiet, table, keys, list, StoreTyped
  <2>2. QED BY <2>1, QuietKeeps
<1>9. QED
  BY <1>1, <1>2, <1>3, <1>4, <1>5, <1>6, <1>7, <1>8, ListingKeeps, SendKeeps, MarkKeeps
     DEF Next, WorkersAlive, WorkOff, Actor

\* The inductive invariant of Standing holds of every reachable state.
THEOREM StandingIInv == Spec => []IInv
<1>1. Init => IInv
  BY TypeInit, CurrentInit, TypeInvIsTypeOK DEF IInv, Current
<1>2. IInv /\ [Next]_vars => IInv'
  <2> SUFFICES ASSUME IInv, [Next]_vars PROVE IInv'
    OBVIOUS
  <2>1. TypeInv
    BY TypeInvIsTypeOK DEF IInv
  <2>2. TypeInv'
    BY <2>1, TypeStep
  <2>3. TypeOK'
    BY <2>2 DEF TypeInv, ActorTyped, ListTyped, StoreTyped, TypeOK, Label
  <2>4. OneWorker => Current'
    BY <2>1, <2>2, CurrentStep DEF IInv, Current
  <2>5. OneWorker' <=> OneWorker
    BY DEF OneWorker
  <2>6. QED BY <2>3, <2>4, <2>5 DEF IInv, Current
<1>3. QED BY <1>1, <1>2, PTL DEF Spec

\* With one run of due orders at a time, whatever the owner parks and confirms next
\* to it, two payments for one due date of an order mean that a mark was lost.
THEOREM OrdersPayOncePerDate == Spec => []RepeatNeedsLostMark
<1>1. IInv => RepeatNeedsLostMark
  BY DEF IInv, OneKeyPerDate, RepeatNeedsLostMark, TypeOK
<1>2. QED BY <1>1, StandingIInv, PTL

-----------------------------------------------------------------------------
(* A cancelled order is over *)

\* What a step may do at most to a retired order: keys for it stay dead, no run
\* lists it.
StaysRetired(o) ==
  /\ Retired(o)'
  /\ \A k \in spent' \ spent, d \in Date : made'[k] # <<o, d>>

\* A step that makes no key, lists nothing new, and parks, reads and pays only what
\* was parked or read before keeps every retired order retired.
LEMMA OldKeysOnly ==
  ASSUME TypeInv, NEW o \in Order, Retired(o), status'[o] = status[o], made' = made, spent' \subseteq Key,
         \A w \in Worker : todo'[w] \subseteq todo[w] /\ at'[w] \in {at[w], None} \cup todo[w],
         pending' \in {pending, NewOrder, None},
         \A a \in Actor : work'[a] \in {work[a], pending, None},
         \A k \in spent' \ spent : \E a \in Actor : work[a] = k
  PROVE  StaysRetired(o)
<1>1. NewOrder \notin Key /\ None \notin Key
  BY NoneAssumption
<1>2. \A w \in Worker, d \in Date : <<o, d>> \notin todo'[w] /\ at'[w] # <<o, d>>
  <2>1. \A d \in Date : <<o, d>> # None
    BY Dates
  <2>2. QED BY <2>1 DEF Retired
<1>3. \A k \in Key : KeyLive(k)' => KeyLive(k)
  BY <1>1 DEF KeyLive
<1>4. Retired(o)'
  BY <1>2, <1>3 DEF Retired
<1>5. \A k \in spent' \ spent, d \in Date : made'[k] # <<o, d>>
  <2>1. \A k \in spent' \ spent : k \in Key => KeyLive(k)
    BY DEF KeyLive
  <2>2. QED BY <2>1 DEF Retired
<1>6. QED BY <1>4, <1>5 DEF StaysRetired

\* A send parked or paid for something else leaves a retired order alone.
LEMMA ParkElsewhere ==
  ASSUME TypeInv, NEW o \in Order, Retired(o), NEW a \in Actor, NEW m, NEW l, Park(a, m, l),
         \A d \in Date : m # <<o, d>>, UNCHANGED <<status, todo, at>>
  PROVE  StaysRetired(o)
<1>1. PICK k \in Key :
        /\ made' = [made EXCEPT ![k] = m]
        /\ pending' \in {pending, k}
        /\ work' = work \/ work' = [work EXCEPT ![a] = k]
        /\ spent' = spent
  BY DEF Park, Hold
<1>2. made \in [Key -> Dated \cup {Own, None}] /\ work \in [Actor -> Key \cup {NewOrder, None}]
  BY DEF TypeInv, StoreTyped, ActorTyped
<1>3. \A j \in Key : j # k => made'[j] = made[j] /\ (KeyLive(j)' => KeyLive(j))
  BY <1>1, <1>2 DEF KeyLive
<1>4. \A d \in Date : made'[k] # <<o, d>>
  BY <1>1, <1>2
<1>5. Retired(o)'
  BY <1>3, <1>4 DEF Retired
<1>6. QED BY <1>1, <1>5 DEF StaysRetired

\* One step of a retired order.
LEMMA RetiredStep ==
  ASSUME TypeInv, TypeInv', [Next]_vars, NEW o \in Order, Retired(o)
  PROVE  StaysRetired(o)
<1>t. ActorTyped /\ ListTyped /\ StoreTyped /\ spent' \subseteq Key
  BY DEF TypeInv, StoreTyped
<1>o. status[o] = "cancelled"
  BY DEF Retired
<1>1. CASE Passes \/ UNCHANGED vars
  BY <1>1, <1>t, OldKeysOnly DEF Passes, vars, table, keys, list
<1>2. ASSUME NEW k \in Key, Settle(k) PROVE StaysRetired(o)
  BY <1>2, <1>t, OldKeysOnly DEF Settle, table, list
<1>3. ASSUME NEW a \in Actor, Confirm(a) PROVE StaysRetired(o)
  <2>1. UNCHANGED <<made, todo, at>> /\ pending' \in {pending, None}
    BY <1>3 DEF Confirm, ReadPending, Refused, Pay, RunFails, CreateOrder, ClearPending, keys, list
  <2>2. status'[o] = status[o]
    BY <1>3, <1>o, <1>t
       DEF Confirm, ReadPending, Refused, Pay, RunFails, CreateOrder, ClearPending, table, StoreTyped
  <2>3. \A b \in Actor : work'[b] \in {work[b], pending, None}
    BY <1>3, <1>t
       DEF Confirm, ReadPending, Refused, Pay, RunFails, CreateOrder, ClearPending, Finish, Hold, ActorTyped
  <2>4. \A k \in spent' \ spent : k = work[a]
    BY <1>3 DEF Confirm, ReadPending, Refused, Pay, RunFails, CreateOrder, ClearPending, keys
  <2>5. QED BY <2>1, <2>2, <2>3, <2>4, <1>t, OldKeysOnly
<1>4. ASSUME NEW c \in Caller, Ask(c) PROVE StaysRetired(o)
  <2>1. CASE AskSend(c)
    <3>1. \A d \in Date : Own # <<o, d>>
      BY Dates
    <3>2. QED BY <2>1, <3>1, Actors, ParkElsewhere DEF AskSend, table, list
  <2>2. CASE AskStanding(c) \/ AskCancel(c) \/ AskConfirm(c)
    BY <2>2, <1>t, OldKeysOnly DEF AskStanding, AskCancel, AskConfirm, table, keys, list
  <2>3. CASE CancelStanding(c)
    <3>1. status'[o] = status[o]
      BY <2>3, <1>o, <1>t DEF CancelStanding, StoreTyped
    <3>2. QED BY <2>3, <3>1, <1>t, OldKeysOnly DEF CancelStanding, keys, list
  <2>4. QED BY <1>4, <2>1, <2>2, <2>3 DEF Ask
<1>5. ASSUME NEW c \in Caller, CallDies(c) PROVE StaysRetired(o)
  <2>1. \A b \in Actor : work'[b] \in {work[b], pending, None}
    BY <1>5, <1>t DEF CallDies, Hold, ActorTyped
  <2>2. QED BY <1>5, <2>1, <1>t, OldKeysOnly DEF CallDies, table, keys, list
<1>6. ASSUME NEW w \in Worker, ListDue(w) PROVE StaysRetired(o)
  <2> DEFINE Active == {q \in Order : status[q] = "active" /\ due[q] <= now}
  <2>1. \A e \in {<<q, due[q]>> : q \in FirstOf(Active)} : e[1] \in Active
    BY DueDated, <1>t
  <2>2. todo'[w] = {<<q, due[q]>> : q \in FirstOf(Active)} /\ \A v \in Worker : v # w => todo'[v] = todo[v]
    BY <1>6, <1>t DEF ListDue, ListTyped
  <2>3. o \notin Active
    BY <1>o
  <2>4. \A v \in Worker, d \in Date : <<o, d>> \notin todo'[v]
    <3> HIDE DEF Active
    <3>1. \A d \in Date : <<o, d>>[1] = o
      OBVIOUS
    <3>2. \A d \in Date : <<o, d>> \notin todo'[w]
      BY <2>1, <2>2, <2>3, <3>1
    <3>3. QED BY <2>2, <3>2 DEF Retired
  <2>5. UNCHANGED <<status, made, pending, work, spent, at>>
    BY <1>6 DEF ListDue, table, keys
  <2>6. Retired(o)'
    BY <2>4, <2>5 DEF Retired, KeyLive
  <2>7. QED BY <2>5, <2>6 DEF StaysRetired
<1>7. ASSUME NEW w \in Worker, Send(w) PROVE StaysRetired(o)
  <2>1. \A d \in Date : at[w] # <<o, d>>
    BY DEF Retired
  <2>2. QED BY <1>7, <2>1, Actors, ParkElsewhere DEF Send, table, list
<1>8. ASSUME NEW w \in Worker,
             \/ NextOrder(w) \/ SliceThrows(w) \/ TickEnds(w) \/ SendRefused(w) \/ WithPin(w)
             \/ NoPin(w) \/ Mark(w) \/ OrderThrows(w) \/ WorkerDies(w)
      PROVE  StaysRetired(o)
  <2>1. \A v \in Worker : todo'[v] \subseteq todo[v] /\ at'[v] \in {at[v], None} \cup todo[v]
    BY <1>8, <1>t
       DEF NextOrder, SliceThrows, TickEnds, SendRefused, WithPin, NoPin, Mark, OrderThrows, WorkerDies,
           Unmarked, list, ListTyped
  <2>2. UNCHANGED <<status, made, pending, spent>>
    BY <1>8 DEF NextOrder, SliceThrows, TickEnds, SendRefused, WithPin, NoPin, Mark, OrderThrows,
                WorkerDies, table, keys
  <2>3. \A b \in Actor : work'[b] \in {work[b], pending, None}
    BY <1>8, <1>t
       DEF NextOrder, SliceThrows, TickEnds, SendRefused, WithPin, NoPin, Mark, OrderThrows, WorkerDies,
           Hold, ActorTyped
  <2>4. QED BY <2>1, <2>2, <2>3, <1>t, OldKeysOnly
<1>9. QED
  BY <1>1, <1>2, <1>3, <1>4, <1>5, <1>6, <1>7, <1>8 DEF Next, WorkersAlive, WorkOff, Actor

\* Once an order is cancelled, no run has listed it and nobody holds or has parked a
\* send for it, it is never listed, parked or paid again.
THEOREM CancelledOrdersAreOver == Spec => CancelIsFinal
<1> DEFINE Stays == \A o \in Order : Retired(o) => StaysRetired(o)
<1>1. TypeInv /\ TypeInv' /\ [Next]_vars => [Stays]_vars
  BY RetiredStep
<1>2. Spec => []TypeInv
  BY TypeInit, TypeStep, PTL DEF Spec
<1>3. Spec => [][Stays]_vars
  BY <1>1, <1>2, PTL DEF Spec
<1>4. QED BY <1>3 DEF CancelIsFinal, StaysRetired

=============================================================================



