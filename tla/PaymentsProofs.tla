--------------------------- MODULE PaymentsProofs ----------------------------
(***************************************************************************)
(* Payments, for every set of handlers and keys.                           *)
(***************************************************************************)
EXTENDS Payments, TLAPS

-----------------------------------------------------------------------------
(* Types.  CallsOK is the handlers' half of the type invariant; the macros *)
(* the actions are written with preserve it, once and for all.             *)

Label == {"idle", "memo", "pin", "lockout", "claim"} \cup Running

CallsOK ==
  /\ pc \in [Handler -> Label]
  /\ work \in [Handler -> Key \cup {None}]
  /\ reply \in [Handler -> ReplyKinds \X (Key \cup {None})]
  /\ HandlersHold

StoreOK ==
  /\ demo \in BOOLEAN /\ async \in BOOLEAN
  /\ pending \in Key \cup {None}
  /\ order \in [Key -> Route \cup {"unused"}]
  /\ idem \in [Key -> {"absent", "pending", "done"}]
  /\ landed \in [Key -> Nat] /\ orphan \in [Key -> Nat]
  /\ rows \in [Key -> [claim : Nat, out : Nat, in : Nat]]

TypeInv == CallsOK /\ StoreOK

\* TypeInv is the type invariant the runs check, with HandlersHold.
LEMMA TypeInvIsTypeOK == TypeInv <=> TypeOK /\ HandlersHold
  BY DEF TypeInv, CallsOK, StoreOK, TypeOK, Label

\* A running handler that moves on keeps its key.
LEMMA GotoCalls ==
  ASSUME CallsOK, NEW h \in Handler, pc[h] # "idle", NEW l \in Label,
         Goto(h, l), UNCHANGED <<work, reply>>
  PROVE  CallsOK'
  BY DEF CallsOK, HandlersHold, Goto

\* A handler that takes a key in hand is well formed.
LEMMA TakeCalls ==
  ASSUME CallsOK, NEW h \in Handler, NEW k \in Key, NEW l \in Label, Take(h, k, l)
  PROVE  CallsOK'
<1>1. pc' \in [Handler -> Label] /\ work' \in [Handler -> Key \cup {None}]
  BY DEF Take, Goto, CallsOK
<1>2. <<"none", None>> \in ReplyKinds \X (Key \cup {None})
  BY DEF ReplyKinds
<1>3. reply' \in [Handler -> ReplyKinds \X (Key \cup {None})]
  BY <1>2 DEF Take, CallsOK
<1>4. HandlersHold'
  BY DEF Take, Goto, CallsOK, HandlersHold
<1>5. QED BY <1>1, <1>3, <1>4 DEF CallsOK

\* An answer about a key, or about none, is a reply.
LEMMA TellTyped ==
  ASSUME CallsOK, NEW h \in Handler, NEW w \in ReplyKinds, NEW k \in Key \cup {None},
         reply' = [reply EXCEPT ![h] = <<w, k>>]
  PROVE  reply' \in [Handler -> ReplyKinds \X (Key \cup {None})]
<1>1. <<w, k>> \in ReplyKinds \X (Key \cup {None})
  OBVIOUS
<1>2. QED BY <1>1 DEF CallsOK

\* A call answered on the spot leaves the running handlers as they are.
LEMMA AnswerCalls ==
  ASSUME CallsOK, NEW h \in Handler, NEW w \in ReplyKinds, NEW k \in Key \cup {None},
         reply' = [reply EXCEPT ![h] = <<w, k>>], UNCHANGED <<pc, work>>
  PROVE  CallsOK'
<1>1. reply' \in [Handler -> ReplyKinds \X (Key \cup {None})]
  BY TellTyped
<1>2. QED BY <1>1 DEF CallsOK, HandlersHold

\* A handler that returns is idle, with no key in hand and an answer given.
LEMMA ReturnCalls ==
  ASSUME CallsOK, NEW h \in Handler, NEW w \in ReplyKinds, Return(h, w)
  PROVE  CallsOK'
<1>1. pc' \in [Handler -> Label] /\ work' \in [Handler -> Key \cup {None}]
  BY DEF Return, Goto, CallsOK, Label
<1>2. work[h] \in Key \cup {None}
  BY DEF CallsOK
<1>3. reply' \in [Handler -> ReplyKinds \X (Key \cup {None})]
  BY <1>2, TellTyped DEF Return, Tell
<1>4. HandlersHold'
  BY DEF Return, Goto, CallsOK, HandlersHold
<1>5. QED BY <1>1, <1>3, <1>4 DEF CallsOK

\* So is one whose background run ends, answer or not.
LEMMA FinishCalls ==
  ASSUME CallsOK, NEW h \in Handler, NEW w \in ReplyKinds, Finish(h, w)
  PROVE  CallsOK'
<1>1. CASE async
  BY <1>1 DEF Finish, Goto, CallsOK, HandlersHold, Label
<1>2. CASE ~async
  BY <1>2, ReturnCalls DEF Finish
<1>3. QED BY <1>1, <1>2

\* Counting one more row keeps the rows of a key three numbers.
LEMMA RowTyped ==
  ASSUME StoreOK, NEW k \in Key
  PROVE  /\ [rows EXCEPT ![k].claim = @ + 1] \in [Key -> [claim : Nat, out : Nat, in : Nat]]
         /\ [rows EXCEPT ![k].out = @ + 1] \in [Key -> [claim : Nat, out : Nat, in : Nat]]
         /\ [rows EXCEPT ![k].in = @ + 1] \in [Key -> [claim : Nat, out : Nat, in : Nat]]
  BY DEF StoreOK

\* The initial state is well typed.
LEMMA TypeInit == Init => TypeInv
<1> SUFFICES ASSUME Init PROVE TypeInv
  OBVIOUS
<1>1. <<"none", None>> \in ReplyKinds \X (Key \cup {None})
  BY DEF ReplyKinds
<1>2. CallsOK
  BY <1>1 DEF Init, CallsOK, HandlersHold, Label
<1>3. StoreOK
  BY DEF Init, StoreOK, NoRows
<1>4. QED BY <1>2, <1>3 DEF TypeInv

\* Every step keeps the types.
LEMMA TypeStep == TypeInv /\ [Next]_vars => TypeInv'
<1> SUFFICES ASSUME TypeInv, [Next]_vars PROVE TypeInv'
  OBVIOUS
<1> USE DEF TypeInv
<1>1. ASSUME NEW h \in Handler, Request(h) PROVE TypeInv'
  <2>1. PICK k \in Key, r \in Route :
           /\ order' = [order EXCEPT ![k] = r]
           /\ IF demo
              THEN Take(h, k, "claim") /\ UNCHANGED pending
              ELSE /\ pending' = k
                   /\ reply' = [reply EXCEPT ![h] = <<"needsPin", k>>]
                   /\ UNCHANGED <<pc, work>>
    BY <1>1 DEF Request
  <2>2. CallsOK'
    <3>1. CASE demo
      BY <2>1, <3>1, TakeCalls DEF Label
    <3>2. CASE ~demo
      BY <2>1, <3>2, AnswerCalls DEF ReplyKinds
    <3>3. QED BY <3>1, <3>2
  <2>3. StoreOK'
    BY <1>1, <2>1 DEF Request, StoreOK, chain, env, Take
  <2>4. QED BY <2>2, <2>3
<1>2. ASSUME NEW h \in Handler, Cancel(h) PROVE TypeInv'
  <2>1. CallsOK'
    BY <1>2, AnswerCalls DEF Cancel, ReplyKinds
  <2>2. StoreOK'
    BY <1>2 DEF Cancel, StoreOK, chain, env
  <2>3. QED BY <2>1, <2>2
<1>3. ASSUME NEW h \in Handler, MemoRead(h) PROVE TypeInv'
  <2>1. CallsOK'
    BY <1>3, TakeCalls DEF MemoRead, StoreOK, Label
  <2>2. StoreOK'
    BY <1>3 DEF MemoRead, StoreOK, chain, env
  <2>3. QED BY <2>1, <2>2
<1>4. ASSUME NEW h \in Handler, MemoWrite(h) PROVE TypeInv'
  <2>1. CallsOK'
    BY <1>4, ReturnCalls DEF MemoWrite, ReplyKinds
  <2>2. StoreOK'
    BY <1>4 DEF MemoWrite, StoreOK, chain, env, CallsOK, HandlersHold
  <2>3. QED BY <2>1, <2>2
<1>5. ASSUME NEW h \in Handler, ReadPending(h) PROVE TypeInv'
  <2>1. CallsOK'
    <3>1. CASE pending = None
      BY <1>5, <3>1, AnswerCalls DEF ReadPending, ReplyKinds
    <3>2. CASE pending # None
      BY <1>5, <3>2, TakeCalls DEF ReadPending, StoreOK, Label
    <3>3. QED BY <3>1, <3>2
  <2>2. StoreOK'
    BY <1>5 DEF ReadPending, StoreOK, chain, env
  <2>3. QED BY <2>1, <2>2
<1>6. ASSUME NEW h \in Handler, PinRefused(h) PROVE TypeInv'
  <2>1. CallsOK'
    BY <1>6, ReturnCalls DEF PinRefused, ReplyKinds
  <2>2. StoreOK'
    BY <1>6 DEF PinRefused, StoreOK, chain, env
  <2>3. QED BY <2>1, <2>2
<1>7. ASSUME NEW h \in Handler, PinLocksOut(h) PROVE TypeInv'
  <2>1. CallsOK'
    BY <1>7, GotoCalls DEF PinLocksOut, Label
  <2>2. StoreOK'
    BY <1>7 DEF PinLocksOut, StoreOK, chain, env
  <2>3. QED BY <2>1, <2>2
<1>8. ASSUME NEW h \in Handler, LockOut(h) PROVE TypeInv'
  <2>1. CallsOK'
    BY <1>8, ReturnCalls DEF LockOut, ReplyKinds
  <2>2. StoreOK'
    BY <1>8 DEF LockOut, StoreOK, chain, env
  <2>3. QED BY <2>1, <2>2
<1>9. ASSUME NEW h \in Handler, PinAccepted(h) PROVE TypeInv'
  <2>1. CallsOK'
    BY <1>9, GotoCalls DEF PinAccepted, Label
  <2>2. StoreOK'
    BY <1>9 DEF PinAccepted, StoreOK, chain, env
  <2>3. QED BY <2>1, <2>2
<1>10. ASSUME NEW h \in Handler, Claim(h) PROVE TypeInv'
  <2>1. CallsOK'
    <3>1. CASE Goto(h, "submit") /\ UNCHANGED work /\ (Tell(h, "started") \/ UNCHANGED reply)
      <4>1. CASE UNCHANGED reply
        BY <1>10, <3>1, <4>1, GotoCalls DEF Claim, Label, Running
      <4>2. CASE Tell(h, "started")
        <5>1. reply' \in [Handler -> ReplyKinds \X (Key \cup {None})]
          BY <4>2, TellTyped DEF Tell, CallsOK, ReplyKinds
        <5>2. QED BY <1>10, <3>1, <5>1 DEF Claim, CallsOK, HandlersHold, Goto, Label, Running
      <4>3. QED BY <3>1, <4>1, <4>2
    <3>2. CASE Return(h, "inflight") \/ Return(h, "sent")
      BY <3>2, ReturnCalls DEF ReplyKinds
    <3>3. QED BY <1>10, <3>1, <3>2 DEF Claim
  <2>2. StoreOK'
    BY <1>10 DEF Claim, StoreOK, chain, env, CallsOK, HandlersHold
  <2>3. QED BY <2>1, <2>2
<1>11. ASSUME NEW h \in Handler, SubmitFails(h) PROVE TypeInv'
  <2>1. CallsOK'
    BY <1>11, FinishCalls DEF SubmitFails, ReplyKinds
  <2>2. StoreOK'
    BY <1>11 DEF SubmitFails, StoreOK, chain, env
  <2>3. QED BY <2>1, <2>2
<1>12. ASSUME NEW h \in Handler, Submit(h) PROVE TypeInv'
  <2>1. CallsOK'
    BY <1>12, GotoCalls DEF Submit, Label, Running
  <2>2. StoreOK'
    BY <1>12 DEF Submit, StoreOK, chain, env
  <2>3. QED BY <2>1, <2>2
<1>13. ASSUME NEW h \in Handler, Landed(h) PROVE TypeInv'
  <2>1. CallsOK'
    BY <1>13, GotoCalls DEF Landed, Label, Running, Booking
  <2>2. StoreOK'
    BY <1>13 DEF Landed, StoreOK, chain, env, CallsOK, HandlersHold
  <2>3. QED BY <2>1, <2>2
<1>14. ASSUME NEW h \in Handler, Reverted(h) PROVE TypeInv'
  <2>1. CallsOK'
    BY <1>14, FinishCalls DEF Reverted, ReplyKinds
  <2>2. StoreOK'
    BY <1>14 DEF Reverted, StoreOK, chain, env
  <2>3. QED BY <2>1, <2>2
<1>15. ASSUME NEW h \in Handler, TimedOut(h) PROVE TypeInv'
  <2>1. CallsOK'
    BY <1>15, FinishCalls DEF TimedOut, ReplyKinds
  <2>2. StoreOK'
    BY <1>15 DEF TimedOut, StoreOK, chain, env, CallsOK, HandlersHold
  <2>3. QED BY <2>1, <2>2
<1>16. ASSUME NEW h \in Handler, BookClaim(h) PROVE TypeInv'
  <2>1. CallsOK'
    BY <1>16, GotoCalls DEF BookClaim, Label, Running, Booking
  <2>2. StoreOK'
    BY <1>16, RowTyped DEF BookClaim, StoreOK, chain, env, CallsOK, HandlersHold
  <2>3. QED BY <2>1, <2>2
<1>17. ASSUME NEW h \in Handler, BookOut(h) PROVE TypeInv'
  <2>1. CallsOK'
    BY <1>17, GotoCalls DEF BookOut, Label, Running, Booking
  <2>2. StoreOK'
    BY <1>17, RowTyped DEF BookOut, StoreOK, chain, env, CallsOK, HandlersHold
  <2>3. QED BY <2>1, <2>2
<1>18. ASSUME NEW h \in Handler, BookIn(h) PROVE TypeInv'
  <2>1. CallsOK'
    BY <1>18, GotoCalls DEF BookIn, Label, Running, Booking
  <2>2. StoreOK'
    BY <1>18, RowTyped DEF BookIn, StoreOK, chain, env, CallsOK, HandlersHold
  <2>3. QED BY <2>1, <2>2
<1>19. ASSUME NEW h \in Handler, ClearPending(h) PROVE TypeInv'
  <2>1. CallsOK'
    BY <1>19, GotoCalls DEF ClearPending, Label, Running, Booking
  <2>2. StoreOK'
    BY <1>19 DEF ClearPending, StoreOK, chain, env
  <2>3. QED BY <2>1, <2>2
<1>20. ASSUME NEW h \in Handler, SaveResult(h) PROVE TypeInv'
  <2>1. CallsOK'
    BY <1>20, FinishCalls DEF SaveResult, ReplyKinds
  <2>2. StoreOK'
    BY <1>20 DEF SaveResult, StoreOK, chain, env
  <2>3. QED BY <2>1, <2>2
<1>21. ASSUME NEW h \in Handler, BookingFails(h) PROVE TypeInv'
  <2>1. CallsOK'
    BY <1>21, FinishCalls DEF BookingFails, ReplyKinds
  <2>2. StoreOK'
    BY <1>21 DEF BookingFails, StoreOK, chain, env
  <2>3. QED BY <2>1, <2>2
<1>22. ASSUME NEW k \in Key, Late(k) PROVE TypeInv'
  BY <1>22 DEF Late, CallsOK, HandlersHold, StoreOK, env
<1>23. CASE Restart
  <2>1. <<"none", None>> \in ReplyKinds \X (Key \cup {None})
    BY DEF ReplyKinds
  <2>2. CallsOK'
    BY <1>23, <2>1 DEF Restart, CallsOK, HandlersHold, Label
  <2>3. StoreOK'
    BY <1>23 DEF Restart, StoreOK, env
  <2>4. QED BY <2>2, <2>3
<1>24. CASE UNCHANGED vars
  BY <1>24 DEF vars, CallsOK, HandlersHold, StoreOK
<1>25. QED
  BY <1>1, <1>2, <1>3, <1>4, <1>5, <1>6, <1>7, <1>8, <1>9, <1>10, <1>11, <1>12, <1>13, <1>14, <1>15, <1>16, <1>17, <1>18, <1>19, <1>20, <1>21, <1>22, <1>23, <1>24 DEF Next, Session, Confirm, Run

\* Every variable of the payment flow keeps its type, whatever runs at once.
THEOREM TypeCorrect == Spec => []TypeOK
<1>1. TypeInv => TypeOK
  BY TypeInvIsTypeOK
<1>2. QED BY <1>1, TypeInit, TypeStep, PTL DEF Spec

-----------------------------------------------------------------------------
(* Safety.  Every claim about keys is per key: KeyOK collects them, and an  *)
(* action touches one key, through one handler (lemma OneKey), or none      *)
(* (lemma NoKey).                                                           *)

KeyOK(k) ==
  /\ landed[k] + orphan[k] <= 1
  /\ rows[k].claim <= landed[k] /\ rows[k].out <= landed[k] /\ rows[k].in <= rows[k].out
  /\ idem[k] = "absent" => Untouched(k)
  /\ idem[k] # "absent" => order[k] # "unused"
  /\ idem[k] = "done" =>
       /\ landed[k] = 1 /\ orphan[k] = 0 /\ rows[k].out = 1
       /\ order[k] = "phone" => rows[k].in = 1
       /\ order[k] = "escrow" => rows[k].claim = 1

Ordered ==
  /\ pending # None => order[pending] # "unused"
  /\ \A h \in Handler : work[h] # None => order[work[h]] # "unused"

Safe ==
  /\ TypeInv /\ Ordered /\ RunnersOwn /\ SentIsTrue
  /\ \A k \in Key : KeyOK(k)

\* The inductive invariant implies IInv, the conjunction of what the runs check.
LEMMA SafeImpliesInvariants == Safe => IInv
  BY TypeInvIsTypeOK DEF Safe, KeyOK, IInv, TypeInv, CallsOK, KeysConsistent,
     AtMostOnce, LedgerBacked, ResultComplete

\* A step that leaves claims, chain and books alone, and only lets runners stop.
LEMMA NoKey ==
  ASSUME Safe, TypeInv', Ordered', UNCHANGED <<idem, landed, orphan, rows>>,
         \A k \in Key : idem[k] # "absent" => order'[k] = order[k],
         \A g \in Handler : pc'[g] \in Running => pc'[g] = pc[g] /\ work'[g] = work[g],
         \A g \in Handler : reply'[g][1] = "sent" =>
           reply'[g][2] \in Key /\ idem[reply'[g][2]] = "done"
  PROVE  Safe'
<1>1. \A k \in Key : KeyOK(k)'
  BY DEF Safe, KeyOK, Untouched
<1>2. RunnersOwn'
  <2> SUFFICES ASSUME NEW g \in Handler, pc'[g] \in Running
               PROVE  /\ idem'[work'[g]] = "pending"
                      /\ BooksAt(work[g], pc[g])'
                      /\ \A f \in Handler : pc'[f] \in Running /\ work'[f] = work'[g] => f = g
    BY DEF RunnersOwn
  <2>1. pc[g] \in Running /\ pc'[g] = pc[g] /\ work'[g] = work[g] /\ work[g] \in Key
    BY DEF Safe, TypeInv, CallsOK, HandlersHold, Running, Booking
  <2>2. idem[work[g]] = "pending" /\ BooksAt(work[g], pc[g])
    BY <2>1 DEF Safe, RunnersOwn
  <2>3. order'[work[g]] = order[work[g]]
    BY <2>1, <2>2
  <2>4. BooksAt(work[g], pc[g])'
    BY <2>1, <2>2, <2>3 DEF BooksAt, Untouched, ForRoute
  <2>5. \A f \in Handler : pc'[f] \in Running /\ work'[f] = work'[g] => f = g
    BY <2>1 DEF Safe, RunnersOwn
  <2>6. QED BY <2>1, <2>2, <2>4, <2>5
<1>3. SentIsTrue'
  BY DEF SentIsTrue
<1>4. QED BY <1>1, <1>2, <1>3 DEF Safe

\* A step of handler h on key k, which no other handler runs.
LEMMA OneKey ==
  ASSUME Safe, TypeInv', Ordered', NEW h \in Handler, NEW k \in Key, order' = order,
         \A j \in Key \ {k} : /\ idem'[j] = idem[j] /\ landed'[j] = landed[j]
                              /\ orphan'[j] = orphan[j] /\ rows'[j] = rows[j],
         idem[k] = "done" => idem'[k] = "done",
         \A g \in Handler \ {h} : pc'[g] = pc[g] /\ work'[g] = work[g] /\ reply'[g] = reply[g],
         \A g \in Handler \ {h} : pc[g] \in Running => work[g] # k,
         KeyOK(k)',
         pc'[h] \in Running => work'[h] = k /\ idem'[k] = "pending" /\ BooksAt(k, pc[h])',
         reply'[h][1] = "sent" => reply'[h][2] \in Key /\ idem'[reply'[h][2]] = "done"
  PROVE  Safe'
<1>1. \A j \in Key : KeyOK(j)'
  <2> SUFFICES ASSUME NEW j \in Key, j # k PROVE KeyOK(j)'
    OBVIOUS
  <2>1. QED BY DEF Safe, KeyOK, Untouched
<1>2. \A g \in Handler \ {h} : pc[g] \in Running =>
        work[g] \in Key \ {k} /\ idem'[work[g]] = "pending" /\ BooksAt(work[g], pc[g])'
  <2> SUFFICES ASSUME NEW g \in Handler \ {h}, pc[g] \in Running
               PROVE  work[g] \in Key \ {k} /\ idem'[work[g]] = "pending" /\ BooksAt(work[g], pc[g])'
    OBVIOUS
  <2>1. work[g] \in Key \ {k}
    BY DEF Safe, TypeInv, CallsOK, HandlersHold, Running, Booking
  <2>2. idem[work[g]] = "pending" /\ BooksAt(work[g], pc[g])
    BY DEF Safe, RunnersOwn
  <2>3. BooksAt(work[g], pc[g])'
    BY <2>1, <2>2 DEF BooksAt, Untouched, ForRoute
  <2>4. QED BY <2>1, <2>2, <2>3
<1>3. RunnersOwn'
  <2> SUFFICES ASSUME NEW g \in Handler, pc'[g] \in Running
               PROVE  /\ idem'[work'[g]] = "pending"
                      /\ BooksAt(work[g], pc[g])'
                      /\ \A f \in Handler : pc'[f] \in Running /\ work'[f] = work'[g] => f = g
    BY DEF RunnersOwn
  <2>1. CASE g = h
    BY <1>2, <2>1
  <2>2. CASE g # h
    <3>1. pc'[g] = pc[g] /\ work'[g] = work[g] /\ work[g] \in Key \ {k}
      BY <1>2, <2>2
    <3>2. \A f \in Handler : pc'[f] \in Running /\ work'[f] = work'[g] => f = g
      BY <3>1, <2>2 DEF Safe, RunnersOwn
    <3>3. QED BY <1>2, <2>2, <3>1, <3>2
  <2>3. QED BY <2>1, <2>2
<1>4. SentIsTrue'
  BY DEF Safe, SentIsTrue
<1>5. QED BY <1>1, <1>3, <1>4 DEF Safe

\* Only requests that were made are ever parked or in hand.
LEMMA OrderedStep ==
  ASSUME Safe, TypeInv', [Next]_vars
  PROVE  Ordered'
<1> USE DEF Safe, TypeInv, CallsOK, StoreOK, HandlersHold, Ordered, Route
<1>1. ASSUME NEW h \in Handler, Request(h) PROVE Ordered'
  BY <1>1, NoneAssumption DEF Request, Take
<1>2. ASSUME NEW h \in Handler, MemoWrite(h) \/ MemoRead(h) \/ ReadPending(h) PROVE Ordered'
  <2>1. CASE MemoWrite(h)
    BY <2>1, NoneAssumption DEF MemoWrite, Return, Goto
  <2>2. CASE MemoRead(h)
    BY <2>2 DEF MemoRead, Take
  <2>3. CASE ReadPending(h)
    BY <2>3 DEF ReadPending, Take
  <2>4. QED BY <1>2, <2>1, <2>2, <2>3
<1>3. ASSUME NEW h \in Handler,
             Cancel(h) \/ PinRefused(h) \/ PinLocksOut(h) \/ LockOut(h) \/ PinAccepted(h) \/ Claim(h)
      PROVE  Ordered'
  BY <1>3 DEF Cancel, PinRefused, PinLocksOut, LockOut, PinAccepted, Claim, Return, Goto
<1>4. ASSUME NEW h \in Handler, Run(h) PROVE Ordered'
  BY <1>4 DEF Run, SubmitFails, Submit, Landed, Reverted, TimedOut, BookClaim, BookOut, BookIn,
     ClearPending, SaveResult, BookingFails, Finish, Return, Goto
<1>5. ASSUME NEW k \in Key, Late(k) PROVE Ordered'
  BY <1>5 DEF Late
<1>6. CASE Restart
  BY <1>6 DEF Restart
<1>7. CASE UNCHANGED vars
  BY <1>7 DEF vars
<1>8. QED BY <1>1, <1>2, <1>3, <1>4, <1>5, <1>6, <1>7 DEF Next, Session, Confirm

\* No key has a trace in the initial state.
LEMMA SafeInit == Init => Safe
<1> SUFFICES ASSUME Init PROVE Safe
  OBVIOUS
<1>1. Ordered /\ RunnersOwn /\ SentIsTrue
  BY DEF Init, Ordered, RunnersOwn, SentIsTrue, Running, Booking
<1>2. \A k \in Key : KeyOK(k)
  BY DEF Init, KeyOK, Untouched, NoRows
<1>3. QED BY <1>1, <1>2, TypeInit DEF Safe

\* Every step keeps the invariant: one step per action of Next.
LEMMA SafeStep == Safe /\ [Next]_vars => Safe'
<1> SUFFICES ASSUME Safe, [Next]_vars PROVE Safe'
  OBVIOUS
<1>a. TypeInv' /\ Ordered'
  BY TypeStep, OrderedStep DEF Safe
<1> USE <1>a DEF Safe, TypeInv, CallsOK, StoreOK, chain, env
<1>1. ASSUME NEW h \in Handler, Request(h) PROVE Safe'
  <2>1. UNCHANGED <<idem, landed, orphan, rows>>
    BY <1>1 DEF Request
  <2>2. \A k \in Key : idem[k] # "absent" => order'[k] = order[k]
    BY <1>1 DEF Request, KeyOK
  <2>3. \A g \in Handler : pc'[g] \in Running => pc'[g] = pc[g] /\ work'[g] = work[g]
    BY <1>1 DEF Request, Take, Return, Finish, Goto, Running, Booking
  <2>4. \A g \in Handler : reply'[g][1] = "sent" =>
          reply'[g][2] \in Key /\ idem[reply'[g][2]] = "done"
    BY <1>1 DEF Request, Take, Return, Finish, Tell, SentIsTrue
  <2>5. QED BY <2>1, <2>2, <2>3, <2>4, NoKey
<1>2. ASSUME NEW h \in Handler, Cancel(h) PROVE Safe'
  <2>1. UNCHANGED <<idem, landed, orphan, rows>>
    BY <1>2 DEF Cancel
  <2>2. \A k \in Key : idem[k] # "absent" => order'[k] = order[k]
    BY <1>2 DEF Cancel, KeyOK
  <2>3. \A g \in Handler : pc'[g] \in Running => pc'[g] = pc[g] /\ work'[g] = work[g]
    BY <1>2 DEF Cancel, Take, Return, Finish, Goto, Running, Booking
  <2>4. \A g \in Handler : reply'[g][1] = "sent" =>
          reply'[g][2] \in Key /\ idem[reply'[g][2]] = "done"
    BY <1>2 DEF Cancel, Take, Return, Finish, Tell, SentIsTrue
  <2>5. QED BY <2>1, <2>2, <2>3, <2>4, NoKey
<1>3. ASSUME NEW h \in Handler, MemoRead(h) PROVE Safe'
  <2>1. UNCHANGED <<idem, landed, orphan, rows>>
    BY <1>3 DEF MemoRead
  <2>2. \A k \in Key : idem[k] # "absent" => order'[k] = order[k]
    BY <1>3 DEF MemoRead, KeyOK
  <2>3. \A g \in Handler : pc'[g] \in Running => pc'[g] = pc[g] /\ work'[g] = work[g]
    BY <1>3 DEF MemoRead, Take, Return, Finish, Goto, Running, Booking
  <2>4. \A g \in Handler : reply'[g][1] = "sent" =>
          reply'[g][2] \in Key /\ idem[reply'[g][2]] = "done"
    BY <1>3 DEF MemoRead, Take, Return, Finish, Tell, SentIsTrue
  <2>5. QED BY <2>1, <2>2, <2>3, <2>4, NoKey
<1>4. ASSUME NEW h \in Handler, MemoWrite(h) PROVE Safe'
  <2>1. UNCHANGED <<idem, landed, orphan, rows>>
    BY <1>4 DEF MemoWrite
  <2>2. \A k \in Key : idem[k] # "absent" => order'[k] = order[k]
    BY <1>4 DEF MemoWrite, KeyOK
  <2>3. \A g \in Handler : pc'[g] \in Running => pc'[g] = pc[g] /\ work'[g] = work[g]
    BY <1>4 DEF MemoWrite, Take, Return, Finish, Goto, Running, Booking
  <2>4. \A g \in Handler : reply'[g][1] = "sent" =>
          reply'[g][2] \in Key /\ idem[reply'[g][2]] = "done"
    BY <1>4 DEF MemoWrite, Take, Return, Finish, Tell, SentIsTrue
  <2>5. QED BY <2>1, <2>2, <2>3, <2>4, NoKey
<1>5. ASSUME NEW h \in Handler, ReadPending(h) PROVE Safe'
  <2>1. UNCHANGED <<idem, landed, orphan, rows>>
    BY <1>5 DEF ReadPending
  <2>2. \A k \in Key : idem[k] # "absent" => order'[k] = order[k]
    BY <1>5 DEF ReadPending, KeyOK
  <2>3. \A g \in Handler : pc'[g] \in Running => pc'[g] = pc[g] /\ work'[g] = work[g]
    BY <1>5 DEF ReadPending, Take, Return, Finish, Goto, Running, Booking
  <2>4. \A g \in Handler : reply'[g][1] = "sent" =>
          reply'[g][2] \in Key /\ idem[reply'[g][2]] = "done"
    BY <1>5 DEF ReadPending, Take, Return, Finish, Tell, SentIsTrue
  <2>5. QED BY <2>1, <2>2, <2>3, <2>4, NoKey
<1>6. ASSUME NEW h \in Handler, PinRefused(h) PROVE Safe'
  <2>1. UNCHANGED <<idem, landed, orphan, rows>>
    BY <1>6 DEF PinRefused
  <2>2. \A k \in Key : idem[k] # "absent" => order'[k] = order[k]
    BY <1>6 DEF PinRefused, KeyOK
  <2>3. \A g \in Handler : pc'[g] \in Running => pc'[g] = pc[g] /\ work'[g] = work[g]
    BY <1>6 DEF PinRefused, Take, Return, Finish, Goto, Running, Booking
  <2>4. \A g \in Handler : reply'[g][1] = "sent" =>
          reply'[g][2] \in Key /\ idem[reply'[g][2]] = "done"
    BY <1>6 DEF PinRefused, Take, Return, Finish, Tell, SentIsTrue
  <2>5. QED BY <2>1, <2>2, <2>3, <2>4, NoKey
<1>7. ASSUME NEW h \in Handler, PinLocksOut(h) PROVE Safe'
  <2>1. UNCHANGED <<idem, landed, orphan, rows>>
    BY <1>7 DEF PinLocksOut
  <2>2. \A k \in Key : idem[k] # "absent" => order'[k] = order[k]
    BY <1>7 DEF PinLocksOut, KeyOK
  <2>3. \A g \in Handler : pc'[g] \in Running => pc'[g] = pc[g] /\ work'[g] = work[g]
    BY <1>7 DEF PinLocksOut, Take, Return, Finish, Goto, Running, Booking
  <2>4. \A g \in Handler : reply'[g][1] = "sent" =>
          reply'[g][2] \in Key /\ idem[reply'[g][2]] = "done"
    BY <1>7 DEF PinLocksOut, Take, Return, Finish, Tell, SentIsTrue
  <2>5. QED BY <2>1, <2>2, <2>3, <2>4, NoKey
<1>8. ASSUME NEW h \in Handler, LockOut(h) PROVE Safe'
  <2>1. UNCHANGED <<idem, landed, orphan, rows>>
    BY <1>8 DEF LockOut
  <2>2. \A k \in Key : idem[k] # "absent" => order'[k] = order[k]
    BY <1>8 DEF LockOut, KeyOK
  <2>3. \A g \in Handler : pc'[g] \in Running => pc'[g] = pc[g] /\ work'[g] = work[g]
    BY <1>8 DEF LockOut, Take, Return, Finish, Goto, Running, Booking
  <2>4. \A g \in Handler : reply'[g][1] = "sent" =>
          reply'[g][2] \in Key /\ idem[reply'[g][2]] = "done"
    BY <1>8 DEF LockOut, Take, Return, Finish, Tell, SentIsTrue
  <2>5. QED BY <2>1, <2>2, <2>3, <2>4, NoKey
<1>9. ASSUME NEW h \in Handler, PinAccepted(h) PROVE Safe'
  <2>1. UNCHANGED <<idem, landed, orphan, rows>>
    BY <1>9 DEF PinAccepted
  <2>2. \A k \in Key : idem[k] # "absent" => order'[k] = order[k]
    BY <1>9 DEF PinAccepted, KeyOK
  <2>3. \A g \in Handler : pc'[g] \in Running => pc'[g] = pc[g] /\ work'[g] = work[g]
    BY <1>9 DEF PinAccepted, Take, Return, Finish, Goto, Running, Booking
  <2>4. \A g \in Handler : reply'[g][1] = "sent" =>
          reply'[g][2] \in Key /\ idem[reply'[g][2]] = "done"
    BY <1>9 DEF PinAccepted, Take, Return, Finish, Tell, SentIsTrue
  <2>5. QED BY <2>1, <2>2, <2>3, <2>4, NoKey
<1>10. ASSUME NEW h \in Handler, SubmitFails(h) PROVE Safe'
  <2>1. UNCHANGED <<idem, landed, orphan, rows>>
    BY <1>10 DEF SubmitFails
  <2>2. \A k \in Key : idem[k] # "absent" => order'[k] = order[k]
    BY <1>10 DEF SubmitFails, KeyOK
  <2>3. \A g \in Handler : pc'[g] \in Running => pc'[g] = pc[g] /\ work'[g] = work[g]
    BY <1>10 DEF SubmitFails, Take, Return, Finish, Goto, Running, Booking
  <2>4. \A g \in Handler : reply'[g][1] = "sent" =>
          reply'[g][2] \in Key /\ idem[reply'[g][2]] = "done"
    BY <1>10 DEF SubmitFails, Take, Return, Finish, Tell, SentIsTrue
  <2>5. QED BY <2>1, <2>2, <2>3, <2>4, NoKey
<1>11. ASSUME NEW h \in Handler, Reverted(h) PROVE Safe'
  <2>1. UNCHANGED <<idem, landed, orphan, rows>>
    BY <1>11 DEF Reverted
  <2>2. \A k \in Key : idem[k] # "absent" => order'[k] = order[k]
    BY <1>11 DEF Reverted, KeyOK
  <2>3. \A g \in Handler : pc'[g] \in Running => pc'[g] = pc[g] /\ work'[g] = work[g]
    BY <1>11 DEF Reverted, Take, Return, Finish, Goto, Running, Booking
  <2>4. \A g \in Handler : reply'[g][1] = "sent" =>
          reply'[g][2] \in Key /\ idem[reply'[g][2]] = "done"
    BY <1>11 DEF Reverted, Take, Return, Finish, Tell, SentIsTrue
  <2>5. QED BY <2>1, <2>2, <2>3, <2>4, NoKey
<1>12. ASSUME NEW h \in Handler, BookingFails(h) PROVE Safe'
  <2>1. UNCHANGED <<idem, landed, orphan, rows>>
    BY <1>12 DEF BookingFails
  <2>2. \A k \in Key : idem[k] # "absent" => order'[k] = order[k]
    BY <1>12 DEF BookingFails, KeyOK
  <2>3. \A g \in Handler : pc'[g] \in Running => pc'[g] = pc[g] /\ work'[g] = work[g]
    BY <1>12 DEF BookingFails, Take, Return, Finish, Goto, Running, Booking
  <2>4. \A g \in Handler : reply'[g][1] = "sent" =>
          reply'[g][2] \in Key /\ idem[reply'[g][2]] = "done"
    BY <1>12 DEF BookingFails, Take, Return, Finish, Tell, SentIsTrue
  <2>5. QED BY <2>1, <2>2, <2>3, <2>4, NoKey
<1>13. ASSUME NEW h \in Handler, Claim(h) PROVE Safe'
  <2>1. PICK k \in Key : work[h] = k
    BY <1>13 DEF Claim, HandlersHold
  <2>2. CASE idem[k] = "absent"
    <3>1. /\ idem' = [idem EXCEPT ![k] = "pending"] /\ UNCHANGED <<order, landed, orphan, rows, work>>
          /\ pc' = [pc EXCEPT ![h] = "submit"]
      BY <1>13, <2>1, <2>2 DEF Claim, Goto
    <3>2. \A g \in Handler \ {h} : reply'[g] = reply[g]
      BY <1>13, <2>1, <2>2 DEF Claim, Tell
    <3>3. reply'[h][1] = "sent" => reply'[h][2] \in Key /\ idem'[reply'[h][2]] = "done"
      BY <1>13, <2>1, <2>2, <3>1 DEF Claim, Tell, SentIsTrue
    <3>4. \A g \in Handler \ {h} : pc[g] \in Running => work[g] # k
      BY <2>2 DEF RunnersOwn
    <3>5. order[k] # "unused" /\ Untouched(k)
      BY <2>1, <2>2, NoneAssumption DEF Ordered, KeyOK
    <3>6. KeyOK(k)'
      BY <2>1, <3>1, <3>5 DEF KeyOK, Untouched, NoRows
    <3>7. BooksAt(k, pc[h])'
      BY <2>1, <3>1, <3>5 DEF BooksAt, Untouched, Booking
    <3>8. /\ idem'[k] = "pending" /\ work'[h] = k
          /\ \A j \in Key \ {k} : idem'[j] = idem[j]
          /\ \A g \in Handler \ {h} : pc'[g] = pc[g] /\ work'[g] = work[g]
      BY <2>1, <3>1
    <3> HIDE DEF Safe, TypeInv, CallsOK, StoreOK
    <3>9. QED BY <3>8, <2>1, <2>2, <3>1, <3>2, <3>3, <3>4, <3>6, <3>7, OneKey
  <2>3. CASE idem[k] # "absent"
    <3>1. UNCHANGED <<order, idem, landed, orphan, rows>>
      BY <1>13, <2>1, <2>3 DEF Claim
    <3>2. \A g \in Handler : pc'[g] \in Running => pc'[g] = pc[g] /\ work'[g] = work[g]
      BY <1>13, <2>1, <2>3 DEF Claim, Return, Goto, Running, Booking
    <3>3. \A g \in Handler : reply'[g][1] = "sent" =>
            reply'[g][2] \in Key /\ idem[reply'[g][2]] = "done"
      BY <1>13, <2>1, <2>3 DEF Claim, Return, Tell, SentIsTrue
    <3>4. QED BY <3>1, <3>2, <3>3, NoKey
  <2>4. QED BY <2>2, <2>3
<1>14. ASSUME NEW h \in Handler, Submit(h) PROVE Safe'
  <2>1. PICK k \in Key : work[h] = k /\ pc[h] \in Running
    BY <1>14 DEF Submit, HandlersHold, Running, Booking
  <2>2. /\ idem[k] = "pending" /\ BooksAt(k, pc[h])
        /\ \A g \in Handler \ {h} : pc[g] \in Running => work[g] # k
    BY <2>1 DEF RunnersOwn
  <2>3. /\ order' = order
        /\ \A j \in Key \ {k} : /\ idem'[j] = idem[j] /\ landed'[j] = landed[j]
                                       /\ orphan'[j] = orphan[j] /\ rows'[j] = rows[j]
    BY <1>14, <2>1 DEF Submit
  <2>4. \A g \in Handler \ {h} : pc'[g] = pc[g] /\ work'[g] = work[g] /\ reply'[g] = reply[g]
    BY <1>14 DEF Submit, Finish, Return, Goto, Tell
  <2>5. KeyOK(k)'
    BY <1>14, <2>1, <2>2 DEF Submit, KeyOK, BooksAt, Untouched, NoRows, ForRoute, Booking
  <2>6. pc'[h] \in Running => work'[h] = k /\ idem'[k] = "pending"
    BY <1>14, <2>1, <2>2 DEF Submit, Finish, Return, Goto, Running, Booking
  <2>7. pc'[h] \in Running => BooksAt(k, pc[h])'
    BY <1>14, <2>1, <2>2 DEF Submit, Finish, Return, Goto, BooksAt, Untouched, NoRows, ForRoute, Running, Booking
  <2>8. reply'[h][1] = "sent" => reply'[h][2] \in Key /\ idem'[reply'[h][2]] = "done"
    BY <1>14, <2>1, <2>2 DEF Submit, Finish, Return, Tell, SentIsTrue
  <2>9. idem[k] # "done"
    BY <2>2
  <2> HIDE DEF Safe, TypeInv, CallsOK, StoreOK
  <2>10. QED BY <2>1, <2>2, <2>3, <2>4, <2>5, <2>6, <2>7, <2>8, <2>9, OneKey
<1>15. ASSUME NEW h \in Handler, Landed(h) PROVE Safe'
  <2>1. PICK k \in Key : work[h] = k /\ pc[h] \in Running
    BY <1>15 DEF Landed, HandlersHold, Running, Booking
  <2>2. /\ idem[k] = "pending" /\ BooksAt(k, pc[h])
        /\ \A g \in Handler \ {h} : pc[g] \in Running => work[g] # k
    BY <2>1 DEF RunnersOwn
  <2>3. /\ order' = order
        /\ \A j \in Key \ {k} : /\ idem'[j] = idem[j] /\ landed'[j] = landed[j]
                                       /\ orphan'[j] = orphan[j] /\ rows'[j] = rows[j]
    BY <1>15, <2>1 DEF Landed
  <2>4. \A g \in Handler \ {h} : pc'[g] = pc[g] /\ work'[g] = work[g] /\ reply'[g] = reply[g]
    BY <1>15 DEF Landed, Finish, Return, Goto, Tell
  <2>5. KeyOK(k)'
    BY <1>15, <2>1, <2>2 DEF Landed, KeyOK, BooksAt, Untouched, NoRows, ForRoute, Booking
  <2>6. pc'[h] \in Running => work'[h] = k /\ idem'[k] = "pending"
    BY <1>15, <2>1, <2>2 DEF Landed, Finish, Return, Goto, Running, Booking
  <2>7. pc'[h] \in Running => BooksAt(k, pc[h])'
    BY <1>15, <2>1, <2>2 DEF Landed, Finish, Return, Goto, BooksAt, Untouched, NoRows, ForRoute, Running, Booking
  <2>8. reply'[h][1] = "sent" => reply'[h][2] \in Key /\ idem'[reply'[h][2]] = "done"
    BY <1>15, <2>1, <2>2 DEF Landed, Finish, Return, Tell, SentIsTrue
  <2>9. idem[k] # "done"
    BY <2>2
  <2> HIDE DEF Safe, TypeInv, CallsOK, StoreOK
  <2>10. QED BY <2>1, <2>2, <2>3, <2>4, <2>5, <2>6, <2>7, <2>8, <2>9, OneKey
<1>16. ASSUME NEW h \in Handler, TimedOut(h) PROVE Safe'
  <2>1. PICK k \in Key : work[h] = k /\ pc[h] \in Running
    BY <1>16 DEF TimedOut, HandlersHold, Running, Booking
  <2>2. /\ idem[k] = "pending" /\ BooksAt(k, pc[h])
        /\ \A g \in Handler \ {h} : pc[g] \in Running => work[g] # k
    BY <2>1 DEF RunnersOwn
  <2>3. /\ order' = order
        /\ \A j \in Key \ {k} : /\ idem'[j] = idem[j] /\ landed'[j] = landed[j]
                                       /\ orphan'[j] = orphan[j] /\ rows'[j] = rows[j]
    BY <1>16, <2>1 DEF TimedOut
  <2>4. \A g \in Handler \ {h} : pc'[g] = pc[g] /\ work'[g] = work[g] /\ reply'[g] = reply[g]
    BY <1>16 DEF TimedOut, Finish, Return, Goto, Tell
  <2>5. KeyOK(k)'
    <3>1. Untouched(k) /\ KeyOK(k)
      BY <1>16, <2>1, <2>2 DEF TimedOut, BooksAt
    <3>2. orphan'[k] = 1 /\ UNCHANGED <<idem, landed, rows, order>>
      BY <1>16, <2>1, <3>1 DEF TimedOut, Untouched
    <3>3. QED BY <2>1, <2>2, <3>1, <3>2 DEF KeyOK, Untouched, NoRows
  <2>6. pc'[h] \in Running => work'[h] = k /\ idem'[k] = "pending"
    BY <1>16, <2>1, <2>2 DEF TimedOut, Finish, Return, Goto, Running, Booking
  <2>7. pc'[h] \in Running => BooksAt(k, pc[h])'
    BY <1>16, <2>1, <2>2 DEF TimedOut, Finish, Return, Goto, BooksAt, Untouched, NoRows, ForRoute, Running, Booking
  <2>8. reply'[h][1] = "sent" => reply'[h][2] \in Key /\ idem'[reply'[h][2]] = "done"
    BY <1>16, <2>1, <2>2 DEF TimedOut, Finish, Return, Tell, SentIsTrue
  <2>9. idem[k] # "done"
    BY <2>2
  <2> HIDE DEF Safe, TypeInv, CallsOK, StoreOK
  <2>10. QED BY <2>1, <2>2, <2>3, <2>4, <2>5, <2>6, <2>7, <2>8, <2>9, OneKey
<1>17. ASSUME NEW h \in Handler, BookClaim(h) PROVE Safe'
  <2>1. PICK k \in Key : work[h] = k /\ pc[h] \in Running
    BY <1>17 DEF BookClaim, HandlersHold, Running, Booking
  <2>2. /\ idem[k] = "pending" /\ BooksAt(k, pc[h])
        /\ \A g \in Handler \ {h} : pc[g] \in Running => work[g] # k
    BY <2>1 DEF RunnersOwn
  <2>3. /\ order' = order
        /\ \A j \in Key \ {k} : /\ idem'[j] = idem[j] /\ landed'[j] = landed[j]
                                       /\ orphan'[j] = orphan[j] /\ rows'[j] = rows[j]
    BY <1>17, <2>1 DEF BookClaim
  <2>4. \A g \in Handler \ {h} : pc'[g] = pc[g] /\ work'[g] = work[g] /\ reply'[g] = reply[g]
    BY <1>17 DEF BookClaim, Finish, Return, Goto, Tell
  <2>5. KeyOK(k)'
    BY <1>17, <2>1, <2>2 DEF BookClaim, KeyOK, BooksAt, Untouched, NoRows, ForRoute, Booking
  <2>6. pc'[h] \in Running => work'[h] = k /\ idem'[k] = "pending"
    BY <1>17, <2>1, <2>2 DEF BookClaim, Finish, Return, Goto, Running, Booking
  <2>7. pc'[h] \in Running => BooksAt(k, pc[h])'
    BY <1>17, <2>1, <2>2 DEF BookClaim, Finish, Return, Goto, BooksAt, Untouched, NoRows, ForRoute, Running, Booking
  <2>8. reply'[h][1] = "sent" => reply'[h][2] \in Key /\ idem'[reply'[h][2]] = "done"
    BY <1>17, <2>1, <2>2 DEF BookClaim, Finish, Return, Tell, SentIsTrue
  <2>9. idem[k] # "done"
    BY <2>2
  <2> HIDE DEF Safe, TypeInv, CallsOK, StoreOK
  <2>10. QED BY <2>1, <2>2, <2>3, <2>4, <2>5, <2>6, <2>7, <2>8, <2>9, OneKey
<1>18. ASSUME NEW h \in Handler, BookOut(h) PROVE Safe'
  <2>1. PICK k \in Key : work[h] = k /\ pc[h] \in Running
    BY <1>18 DEF BookOut, HandlersHold, Running, Booking
  <2>2. /\ idem[k] = "pending" /\ BooksAt(k, pc[h])
        /\ \A g \in Handler \ {h} : pc[g] \in Running => work[g] # k
    BY <2>1 DEF RunnersOwn
  <2>3. /\ order' = order
        /\ \A j \in Key \ {k} : /\ idem'[j] = idem[j] /\ landed'[j] = landed[j]
                                       /\ orphan'[j] = orphan[j] /\ rows'[j] = rows[j]
    BY <1>18, <2>1 DEF BookOut
  <2>4. \A g \in Handler \ {h} : pc'[g] = pc[g] /\ work'[g] = work[g] /\ reply'[g] = reply[g]
    BY <1>18 DEF BookOut, Finish, Return, Goto, Tell
  <2>5. KeyOK(k)'
    BY <1>18, <2>1, <2>2 DEF BookOut, KeyOK, BooksAt, Untouched, NoRows, ForRoute, Booking
  <2>6. pc'[h] \in Running => work'[h] = k /\ idem'[k] = "pending"
    BY <1>18, <2>1, <2>2 DEF BookOut, Finish, Return, Goto, Running, Booking
  <2>7. pc'[h] \in Running => BooksAt(k, pc[h])'
    BY <1>18, <2>1, <2>2 DEF BookOut, Finish, Return, Goto, BooksAt, Untouched, NoRows, ForRoute, Running, Booking
  <2>8. reply'[h][1] = "sent" => reply'[h][2] \in Key /\ idem'[reply'[h][2]] = "done"
    BY <1>18, <2>1, <2>2 DEF BookOut, Finish, Return, Tell, SentIsTrue
  <2>9. idem[k] # "done"
    BY <2>2
  <2> HIDE DEF Safe, TypeInv, CallsOK, StoreOK
  <2>10. QED BY <2>1, <2>2, <2>3, <2>4, <2>5, <2>6, <2>7, <2>8, <2>9, OneKey
<1>19. ASSUME NEW h \in Handler, BookIn(h) PROVE Safe'
  <2>1. PICK k \in Key : work[h] = k /\ pc[h] \in Running
    BY <1>19 DEF BookIn, HandlersHold, Running, Booking
  <2>2. /\ idem[k] = "pending" /\ BooksAt(k, pc[h])
        /\ \A g \in Handler \ {h} : pc[g] \in Running => work[g] # k
    BY <2>1 DEF RunnersOwn
  <2>3. /\ order' = order
        /\ \A j \in Key \ {k} : /\ idem'[j] = idem[j] /\ landed'[j] = landed[j]
                                       /\ orphan'[j] = orphan[j] /\ rows'[j] = rows[j]
    BY <1>19, <2>1 DEF BookIn
  <2>4. \A g \in Handler \ {h} : pc'[g] = pc[g] /\ work'[g] = work[g] /\ reply'[g] = reply[g]
    BY <1>19 DEF BookIn, Finish, Return, Goto, Tell
  <2>5. KeyOK(k)'
    BY <1>19, <2>1, <2>2 DEF BookIn, KeyOK, BooksAt, Untouched, NoRows, ForRoute, Booking
  <2>6. pc'[h] \in Running => work'[h] = k /\ idem'[k] = "pending"
    BY <1>19, <2>1, <2>2 DEF BookIn, Finish, Return, Goto, Running, Booking
  <2>7. pc'[h] \in Running => BooksAt(k, pc[h])'
    BY <1>19, <2>1, <2>2 DEF BookIn, Finish, Return, Goto, BooksAt, Untouched, NoRows, ForRoute, Running, Booking
  <2>8. reply'[h][1] = "sent" => reply'[h][2] \in Key /\ idem'[reply'[h][2]] = "done"
    BY <1>19, <2>1, <2>2 DEF BookIn, Finish, Return, Tell, SentIsTrue
  <2>9. idem[k] # "done"
    BY <2>2
  <2> HIDE DEF Safe, TypeInv, CallsOK, StoreOK
  <2>10. QED BY <2>1, <2>2, <2>3, <2>4, <2>5, <2>6, <2>7, <2>8, <2>9, OneKey
<1>20. ASSUME NEW h \in Handler, ClearPending(h) PROVE Safe'
  <2>1. PICK k \in Key : work[h] = k /\ pc[h] \in Running
    BY <1>20 DEF ClearPending, HandlersHold, Running, Booking
  <2>2. /\ idem[k] = "pending" /\ BooksAt(k, pc[h])
        /\ \A g \in Handler \ {h} : pc[g] \in Running => work[g] # k
    BY <2>1 DEF RunnersOwn
  <2>3. /\ order' = order
        /\ \A j \in Key \ {k} : /\ idem'[j] = idem[j] /\ landed'[j] = landed[j]
                                       /\ orphan'[j] = orphan[j] /\ rows'[j] = rows[j]
    BY <1>20, <2>1 DEF ClearPending
  <2>4. \A g \in Handler \ {h} : pc'[g] = pc[g] /\ work'[g] = work[g] /\ reply'[g] = reply[g]
    BY <1>20 DEF ClearPending, Finish, Return, Goto, Tell
  <2>5. KeyOK(k)'
    BY <1>20, <2>1, <2>2 DEF ClearPending, KeyOK, BooksAt, Untouched, NoRows, ForRoute, Booking
  <2>6. pc'[h] \in Running => work'[h] = k /\ idem'[k] = "pending"
    BY <1>20, <2>1, <2>2 DEF ClearPending, Finish, Return, Goto, Running, Booking
  <2>7. pc'[h] \in Running => BooksAt(k, pc[h])'
    BY <1>20, <2>1, <2>2 DEF ClearPending, Finish, Return, Goto, BooksAt, Untouched, NoRows, ForRoute, Running, Booking
  <2>8. reply'[h][1] = "sent" => reply'[h][2] \in Key /\ idem'[reply'[h][2]] = "done"
    BY <1>20, <2>1, <2>2 DEF ClearPending, Finish, Return, Tell, SentIsTrue
  <2>9. idem[k] # "done"
    BY <2>2
  <2> HIDE DEF Safe, TypeInv, CallsOK, StoreOK
  <2>10. QED BY <2>1, <2>2, <2>3, <2>4, <2>5, <2>6, <2>7, <2>8, <2>9, OneKey
<1>21. ASSUME NEW h \in Handler, SaveResult(h) PROVE Safe'
  <2>1. PICK k \in Key : work[h] = k /\ pc[h] \in Running
    BY <1>21 DEF SaveResult, HandlersHold, Running, Booking
  <2>2. /\ idem[k] = "pending" /\ BooksAt(k, pc[h])
        /\ \A g \in Handler \ {h} : pc[g] \in Running => work[g] # k
    BY <2>1 DEF RunnersOwn
  <2>3. /\ order' = order
        /\ \A j \in Key \ {k} : /\ idem'[j] = idem[j] /\ landed'[j] = landed[j]
                                       /\ orphan'[j] = orphan[j] /\ rows'[j] = rows[j]
    BY <1>21, <2>1 DEF SaveResult
  <2>4. \A g \in Handler \ {h} : pc'[g] = pc[g] /\ work'[g] = work[g] /\ reply'[g] = reply[g]
    BY <1>21 DEF SaveResult, Finish, Return, Goto, Tell
  <2>5. KeyOK(k)'
    <3>1. BooksAt(k, "save") /\ KeyOK(k)
      BY <1>21, <2>1, <2>2 DEF SaveResult
    <3>2. idem'[k] = "done" /\ UNCHANGED <<landed, orphan, rows, order>>
      BY <1>21, <2>1 DEF SaveResult
    <3>3. QED BY <2>1, <2>2, <3>1, <3>2 DEF KeyOK, BooksAt, ForRoute, Booking
  <2>6. pc'[h] \in Running => work'[h] = k /\ idem'[k] = "pending"
    BY <1>21, <2>1, <2>2 DEF SaveResult, Finish, Return, Goto, Running, Booking
  <2>7. pc'[h] \in Running => BooksAt(k, pc[h])'
    BY <1>21, <2>1, <2>2 DEF SaveResult, Finish, Return, Goto, BooksAt, Untouched, NoRows, ForRoute, Running, Booking
  <2>8. reply'[h][1] = "sent" => reply'[h][2] \in Key /\ idem'[reply'[h][2]] = "done"
    BY <1>21, <2>1, <2>2 DEF SaveResult, Finish, Return, Tell, SentIsTrue
  <2>9. idem[k] # "done"
    BY <2>2
  <2> HIDE DEF Safe, TypeInv, CallsOK, StoreOK
  <2>10. QED BY <2>1, <2>2, <2>3, <2>4, <2>5, <2>6, <2>7, <2>8, <2>9, OneKey
<1>22. ASSUME NEW k \in Key, Late(k) PROVE Safe'
  <2>1. idem[k] = "pending" /\ landed[k] = 0 /\ orphan[k] = 1
    <3>1. KeyOK(k) /\ orphan[k] \in Nat \ {0} /\ landed[k] \in Nat
      BY <1>22 DEF Late
    <3>2. orphan[k] # 0 /\ landed[k] + orphan[k] <= 1
      BY <3>1 DEF KeyOK
    <3>3. orphan[k] = 1 /\ landed[k] = 0
      <4> HIDE DEF Safe, TypeInv, CallsOK, StoreOK
      <4>1. QED BY <3>1, <3>2
    <3>4. idem[k] # "absent" /\ idem[k] # "done"
      BY <3>1, <3>2 DEF KeyOK, Untouched
    <3>5. QED BY <3>3, <3>4
  <2>2. \A j \in Key : KeyOK(j)'
    BY <1>22, <2>1 DEF Late, KeyOK, Untouched
  <2>3. \A g \in Handler : pc[g] \in Running => work[g] \in Key \ {k}
    BY <2>1 DEF RunnersOwn, BooksAt, Untouched, HandlersHold, Running, Booking
  <2>4. \A g \in Handler : pc[g] \in Running => BooksAt(work[g], pc[g])'
    BY <1>22, <2>3 DEF Late, RunnersOwn, BooksAt, Untouched, ForRoute
  <2>5. RunnersOwn'
    BY <1>22, <2>4 DEF Late, RunnersOwn
  <2>6. SentIsTrue'
    BY <1>22 DEF Late, SentIsTrue
  <2>7. QED BY <2>2, <2>5, <2>6
<1>23. CASE Restart
  <2>1. RunnersOwn' /\ SentIsTrue'
    BY <1>23 DEF Restart, RunnersOwn, SentIsTrue, Running, Booking
  <2>2. ASSUME NEW k \in Key PROVE KeyOK(k)'
    <3>1. CASE \E h \in Handler : pc[h] = "await" /\ work[h] = k
      <4>1. idem[k] = "pending" /\ Untouched(k)
        BY <3>1 DEF RunnersOwn, BooksAt, Running
      <4>2. QED BY <1>23, <3>1, <4>1 DEF Restart, KeyOK, Untouched
    <3>2. CASE ~ \E h \in Handler : pc[h] = "await" /\ work[h] = k
      BY <1>23, <3>2 DEF Restart, KeyOK, Untouched
    <3>3. QED BY <3>1, <3>2
  <2>3. QED BY <2>1, <2>2
<1>24. CASE UNCHANGED vars
  BY <1>24, NoKey DEF vars, SentIsTrue
<1>25. QED
  BY <1>1, <1>2, <1>3, <1>4, <1>5, <1>6, <1>7, <1>8, <1>9, <1>10, <1>11, <1>12, <1>13, <1>14, <1>15, <1>16, <1>17, <1>18, <1>19, <1>20, <1>21, <1>22, <1>23, <1>24 DEF Next, Session, Confirm, Run

\* The inductive invariant holds of every reachable state of Payments.
THEOREM SafeAlways == Spec => []Safe
  BY SafeInit, SafeStep, PTL DEF Spec

\* For any number of concurrent confirms of any keys, with reverts, timeouts, late
\* landings, failed writes and restarts: no key pays twice, the ledger never runs ahead
\* of the chain, a stored result is complete, and "sent" is only said of a payment made.
THEOREM PaymentsSafety == Spec => [](AtMostOnce /\ LedgerBacked /\ ResultComplete /\ SentIsTrue)
<1>1. Safe => AtMostOnce /\ LedgerBacked /\ ResultComplete /\ SentIsTrue
  BY SafeImpliesInvariants DEF IInv
<1>2. QED BY <1>1, SafeAlways, PTL

\* The ledger never shows a payment that did not land, nor a payee's row without
\* the payer's, whatever failed or was cut off in between.
COROLLARY LedgerAlwaysBacked == Spec => []LedgerBacked
<1>1. Safe => LedgerBacked
  BY SafeImpliesInvariants DEF IInv
<1>2. QED BY <1>1, SafeAlways, PTL

\* A stored result, which later confirmations replay, stands for a payment with
\* all its rows.
COROLLARY StoredResultsAreComplete == Spec => []ResultComplete
<1>1. Safe => ResultComplete
  BY SafeImpliesInvariants DEF IInv
<1>2. QED BY <1>1, SafeAlways, PTL

\* Nobody is told "sent" of a payment that was not made and booked.
COROLLARY SentIsAlwaysTrue == Spec => []SentIsTrue
<1>1. Safe => SentIsTrue
  BY SafeImpliesInvariants DEF IInv
<1>2. QED BY <1>1, SafeAlways, PTL

-----------------------------------------------------------------------------
(* Refinement of SinglePayment.                                             *)

\* The refinement: initial states map to initial states ...
LEMMA PromiseInit == Init => Promise!SInit
  BY DEF Init, Promise!SInit

\* ... a step that changes neither the claim table nor what landed is a stutter ...
LEMMA PromiseKeeps ==
  ASSUME UNCHANGED <<idem, landed>>
  PROVE  UNCHANGED Promise!svars
  BY DEF Promise!svars

\* ... and every other step claims, pays or answers one key.
LEMMA PromiseStep ==
  ASSUME Safe, Safe', [Next]_vars
  PROVE  [Promise!SNext]_(Promise!svars)
<1>1. ASSUME NEW h \in Handler, Claim(h) PROVE [Promise!SNext]_(Promise!svars)
  <2>1. PICK k \in Key : work[h] = k
    BY <1>1 DEF Claim, Safe, TypeInv, CallsOK, HandlersHold
  <2>2. CASE idem[k] = "absent"
    <3>1. idem' = [idem EXCEPT ![k] = "pending"] /\ landed' = landed
      BY <1>1, <2>1, <2>2 DEF Claim, chain
    <3>2. Promise!Claimed(k)
      BY <2>2, <3>1 DEF Promise!Claimed, Safe, TypeInv, StoreOK
    <3>3. QED BY <3>2 DEF Promise!SNext
  <2>3. CASE idem[k] # "absent"
    BY <1>1, <2>1, <2>3, PromiseKeeps DEF Claim, chain
  <2>4. QED BY <2>2, <2>3
<1>2. ASSUME NEW h \in Handler, Landed(h) PROVE [Promise!SNext]_(Promise!svars)
  <2>1. PICK k \in Key : work[h] = k
    BY <1>2 DEF Landed, Safe, TypeInv, CallsOK, HandlersHold
  <2>2. idem[k] = "pending" /\ landed[k] = 0
    BY <1>2, <2>1 DEF Landed, Safe, RunnersOwn, Running, BooksAt, Untouched
  <2>3. landed' = [landed EXCEPT ![k] = 1] /\ idem' = idem
    BY <1>2, <2>1, <2>2 DEF Landed, Safe, TypeInv, StoreOK
  <2>4. Promise!Paid(k)
    BY <2>2, <2>3 DEF Promise!Paid
  <2>5. QED BY <2>4 DEF Promise!SNext
<1>3. ASSUME NEW k \in Key, Late(k) PROVE [Promise!SNext]_(Promise!svars)
  <2>1. idem' = idem
    BY <1>3 DEF Late
  <2>2. CASE landed' = landed
    BY <2>1, <2>2, PromiseKeeps
  <2>3. CASE landed' = [landed EXCEPT ![k] = @ + 1]
    <3>1. landed[k] \in Nat /\ orphan[k] \in Nat \ {0} /\ landed[k] + orphan[k] <= 1 /\ KeyOK(k)
      BY <1>3 DEF Late, Safe, TypeInv, StoreOK, KeyOK
    <3>2. landed[k] = 0
      BY <3>1
    <3>3. idem[k] # "absent" /\ idem[k] # "done"
      BY <3>1 DEF KeyOK, Untouched
    <3>4. idem[k] = "pending"
      BY <3>3 DEF Safe, TypeInv, StoreOK
    <3>5. Promise!Paid(k)
      BY <2>1, <2>3, <3>2, <3>4 DEF Promise!Paid
    <3>6. QED BY <3>5 DEF Promise!SNext
  <2>4. QED BY <1>3, <2>2, <2>3 DEF Late
<1>4. ASSUME NEW h \in Handler, SaveResult(h) PROVE [Promise!SNext]_(Promise!svars)
  <2>1. PICK k \in Key : work[h] = k
    BY <1>4 DEF SaveResult, Safe, TypeInv, CallsOK, HandlersHold
  <2>2. idem[k] = "pending" /\ landed[k] = 1
    BY <1>4, <2>1 DEF SaveResult, Safe, RunnersOwn, Running, BooksAt, Booking
  <2>3. idem' = [idem EXCEPT ![k] = "done"] /\ landed' = landed
    BY <1>4, <2>1 DEF SaveResult, chain
  <2>4. Promise!Answered(k)
    BY <2>2, <2>3 DEF Promise!Answered, Safe, TypeInv, StoreOK
  <2>5. QED BY <2>4 DEF Promise!SNext
<1>5. ASSUME NEW h \in Handler,
             \/ Session(h)
             \/ ReadPending(h) \/ PinRefused(h) \/ PinLocksOut(h) \/ LockOut(h) \/ PinAccepted(h)
             \/ SubmitFails(h) \/ Submit(h) \/ Reverted(h) \/ TimedOut(h) \/ BookClaim(h)
             \/ BookOut(h) \/ BookIn(h) \/ ClearPending(h) \/ BookingFails(h)
      PROVE  [Promise!SNext]_(Promise!svars)
  <2>1. UNCHANGED <<idem, landed>>
    BY <1>5 DEF Session, Request, Cancel, MemoRead, MemoWrite, ReadPending, PinRefused,
       PinLocksOut, LockOut, PinAccepted, SubmitFails, Submit, Reverted, TimedOut, BookClaim,
       BookOut, BookIn, ClearPending, BookingFails, chain
  <2>2. QED BY <2>1, PromiseKeeps
<1>6. CASE Restart \/ UNCHANGED vars
  BY <1>6, PromiseKeeps DEF Restart, vars
<1>7. QED BY <1>1, <1>2, <1>3, <1>4, <1>5, <1>6 DEF Next, Confirm, Run

\* executeSend and executeSwap, with every interleaving, timeout and restart of the
\* model, keep the one-payment-per-key promise.
THEOREM PaymentsRefinesPromise == Spec => PaysOncePerKey
<1>1. Safe /\ Safe' /\ [Next]_vars => [Promise!SNext]_(Promise!svars)
  BY PromiseStep
<1>2. QED BY <1>1, PromiseInit, SafeAlways, PTL DEF Spec, PaysOncePerKey, Promise!SSpec
=============================================================================
