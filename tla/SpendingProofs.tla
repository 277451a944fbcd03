---------------------------- MODULE SpendingProofs ----------------------------
(***************************************************************************)
(* Spending, for every set of callers, limits, payees and rule lists.      *)
(***************************************************************************)
EXTENDS Spending, SumProofs, SequenceTheorems

-----------------------------------------------------------------------------
(* Types.  The macros that the actions are written with keep the requests   *)
(* in hand well formed, once and for all.                                   *)

Rule == UNION {ToSet(d) : d \in Draft}
Verdict == {"none", "reject", "callback", "confirm", "pass"}
Work == [pc : Steps, req : Request, cool : BOOLEAN, called : BOOLEAN,
         verdict : Verdict, bal : Nat, sum : Nat, unread : Seq(Kind),
         head : Nat, left : Seq(Rule)]
Entry == [prev : Nat, id : Nat, verdict : {"reject", "callback", "confirm", "pass"}]

\* A rule list is a sequence of rules.
LEMMA DraftIsSeq ==
  ASSUME NEW d \in Draft
  PROVE  d \in Seq(Rule) /\ d # <<>> /\ ToSet(d) \subseteq Rule
<1>1. d \in Seq(ToSet(d)) /\ d # <<>>
  BY SpendingAssumption
<1>2. ToSet(d) \subseteq Rule
  BY DEF Rule
<1>3. QED BY <1>1, <1>2

\* Nothing parked and nothing in hand are well formed.
LEMMA NoReqTyped == NoReq \in Request
  BY DEF NoReq, Request, Spends

\* A caller with nothing to do is well formed.
LEMMA IdleTyped == Idle \in Work
<1>1. <<>> \in Seq(Rule) /\ <<>> \in Seq(Kind) OBVIOUS
<1>2. QED BY <1>1, NoReqTyped DEF Idle, Work, Steps, Verdict

\* A request in hand that moves on is well formed.
LEMMA GoTyped ==
  ASSUME h \in [Caller -> Work], NEW c \in Caller, NEW pc \in Steps, Go(c, pc)
  PROVE  h' \in [Caller -> Work]
<1>1. [h[c] EXCEPT !.pc = pc, !.bal = 0] \in Work
  BY DEF Work
<1>2. h' = [h EXCEPT ![c] = [h[c] EXCEPT !.pc = pc, !.bal = 0]]
  BY DEF Go
<1>3. QED BY <1>1, <1>2

\* So is one that has been decided.
LEMMA DecidedTyped ==
  ASSUME h \in [Caller -> Work], NEW c \in Caller, NEW v \in Verdict, Decided(c, v)
  PROVE  h' \in [Caller -> Work]
<1> DEFINE t == [h[c] EXCEPT !.verdict = v, !.bal = 0, !.sum = 0, !.pc = "head"]
<1>1. t \in Work
  BY DEF Work, Steps
<1>2. h' = [h EXCEPT ![c] = t]
  BY DEF Decided
<1>3. QED BY <1>1, <1>2

\* And one that is left.
LEMMA LeaveTyped ==
  ASSUME h \in [Caller -> Work], NEW c \in Caller, Leave(c)
  PROVE  h' \in [Caller -> Work]
  BY IdleTyped DEF Leave

\* A request taken in hand, whatever the caller did before.
LEMMA TakeTyped ==
  ASSUME h \in [Caller -> Work], NEW c \in Caller, NEW t \in Work, h' = [h EXCEPT ![c] = t]
  PROVE  h' \in [Caller -> Work]
  OBVIOUS

\* The verdicts of the stages.
LEMMA VerdictsTyped ==
  /\ \A k, a, l, x : FirstVerdict(k, a, l, x) \in {"reject", "next"}
  /\ \A a, l, r, x, y : RiskVerdict(a, l, r, x, y) \in {"reject", "callback", "next"}
  /\ \A k, a, l, x : LockVerdict(k, a, l, x) \in {"reject", "confirm", "next"}
  /\ \A k, a, l, x : SumVerdict(k, a, l, x) \in {"reject", "pass", "confirm"}
  BY DEF FirstVerdict, RiskVerdict, LockVerdict, SumVerdict

\* Who lets what pass: the locks accept sends only, the sums what is not a lookup.
LEMMA ConfirmVerdicts ==
  /\ \A k, a, l, x : LockVerdict(k, a, l, x) = "confirm" => k = "send"
  /\ \A k, a, l, x : SumVerdict(k, a, l, x) = "confirm" => k # "price"
  /\ \A k, a, l, x : SumVerdict(k, a, l, x) = "pass" => k = "price"
  BY DEF LockVerdict, SumVerdict

\* The tables' half of the type invariant.
DataOK ==
  /\ menu \in Menus
  /\ pend \in Request /\ frozen \in Request
  /\ started \in 0 .. menu.requests /\ claimed \subseteq 1 .. started
  /\ spent \in [Kind -> Nat] /\ claims \in Nat /\ soft \in Nat /\ gated \in Nat
  /\ balance \in Nat /\ locks \in Seq(Nat) /\ burnt \in Nat /\ loose \in Nat
  /\ cooldown \in BOOLEAN /\ callback \in BOOLEAN
  /\ chilled \subseteq 1 .. started
  /\ audit \in Seq(Entry) /\ abroad \in [Foreign -> Nat \cup {NoHead}]
  /\ crashes \in 0 .. MaxCrash

\* A request, parked or in hand, has one of the numbers given out, and a policy
\* has a rule list.
RequestOK(r, given) ==
  /\ r.id <= given
  /\ r.kind # "none" => r.id >= 1
  /\ r.kind = "none" => r = NoReq
  /\ r.kind = "policy" => r.draft \in Draft

\* A lookup is never parked.
PendOK(r, given) == RequestOK(r, given) /\ r.kind \notin Lookups

\* What kinds of request are at each step.
KindsAt(pc) ==
  CASE pc \in {"rules", "locks", "claim", "cap", "pay", "book"} -> Spends
    [] pc \in {"balance", "locked", "park"} -> Spends \cup {"lock"}
    [] pc = "sums"              -> Spends \cup {"price"}
    [] pc \in {"head", "insert"} -> Spends \cup {"price", "policy"}
    [] pc = "fetch"             -> Lookups
    [] pc = "place"             -> {"lock"}
    [] pc \in {"clear", "freeze"} -> {"policy"}
    [] OTHER                    -> Spends \cup {"lock", "policy"}

\* The sums a request of a kind may have left to read.
ToSum(kind) ==
  CASE kind = "send"  -> {<<"send", "escrow_hold">>, <<"escrow_hold">>}
    [] kind = "price" -> {<<"nanopay">>}
    [] OTHER          -> {<<"send", "escrow_hold", "swap", "airtime">>,
                          <<"escrow_hold", "swap", "airtime">>, <<"swap", "airtime">>,
                          <<"airtime">>}

Asking == {"rules", "locks", "balance", "locked", "sums"}

\* What is left to sum, and what has been summed up.
SumOK(t) ==
  t.pc \in Asking /\ t.req.kind # "lock" =>
    /\ t.unread \in ToSum(t.req.kind)
    /\ t.unread = Counted(t.req.kind) => t.sum = 0
    /\ t.pc # "sums" => t.unread = Counted(t.req.kind)

\* What a caller works on at each step.
WorkOK(t, given) ==
  /\ RequestOK(t.req, given)
  /\ t.pc # "idle" => t.req.kind \in KindsAt(t.pc)
  /\ t.pc \in {"head", "insert"} /\ t.verdict = "confirm" => t.req.kind \in Spends
  /\ t.pc = "clear" => t.left = t.req.draft
  /\ t.pc = "freeze" => t.left # <<>>
  /\ SumOK(t)

TypeInv ==
  /\ DataOK
  /\ h \in [Caller -> Work]
  /\ PendOK(pend, started)
  /\ \A c \in Caller : WorkOK(h[c], started)

\* The strengthened type invariant implies the one the runs check.
LEMMA TypeInvIsTypeOK == TypeInv => TypeOK
  BY DEF TypeInv, TypeOK, DataOK, Work, Verdict, Rule, Entry

\* The menu of a behaviour, in the words of the assumption.
LEMMA MenuTyped ==
  ASSUME menu \in Menus
  PROVE  /\ menu.requests \in Nat /\ menu.funds \in Nat /\ menu.gas \in Nat
         /\ menu.amounts \subseteq Nat /\ menu.payees \subseteq Payee
  BY SpendingAssumption

\* What is left to sum is a list of kinds that is not empty, and shrinks to one.
LEMMA ToSumTyped ==
  ASSUME NEW kind, NEW u \in ToSum(kind)
  PROVE  /\ u \in Seq(Kind) /\ u # <<>> /\ Head(u) \in Kind
         /\ Len(u) # 1 => Tail(u) \in ToSum(kind) /\ Tail(u) # Counted(kind)
         /\ kind = "price" => Len(u) = 1 /\ u = Counted(kind)
<1>1. CASE kind = "send"
  <2>1. u = <<"send", "escrow_hold">> \/ u = <<"escrow_hold">>
    BY <1>1 DEF ToSum
  <2>2. CASE u = <<"send", "escrow_hold">>
    <3>0. Counted(kind) = u
      BY <1>1, <2>2 DEF Counted
    <3>1. Tail(u) = <<"escrow_hold">> /\ Len(Tail(u)) = 1 /\ Len(u) = 2
      BY <2>2
    <3>2. u \in Seq(Kind) /\ Head(u) \in Kind /\ u # <<>>
      BY <2>2 DEF Kind
    <3>3. Tail(u) \in ToSum(kind) /\ Tail(u) # Counted(kind)
      <4>1. Tail(u) \in ToSum(kind)
        BY <1>1, <3>1 DEF ToSum
      <4>2. Tail(u) # u
        BY <3>1
      <4>3. QED BY <3>0, <4>1, <4>2
    <3>4. QED BY <1>1, <3>2, <3>3
  <2>3. CASE u = <<"escrow_hold">>
    BY <1>1, <2>3 DEF Kind
  <2>4. QED BY <2>1, <2>2, <2>3
<1>2. CASE kind = "price"
  <2>1. u = <<"nanopay">> /\ Counted(kind) = <<"nanopay">>
    BY <1>2 DEF ToSum, Counted
  <2>2. <<"nanopay">> \in Seq(Kind) /\ Head(<<"nanopay">>) \in Kind /\ Len(<<"nanopay">>) = 1
    BY DEF Kind
  <2>3. QED BY <1>2, <2>1, <2>2
<1>3. CASE kind \notin {"send", "price"}
  <2> DEFINE u4 == <<"send", "escrow_hold", "swap", "airtime">>
             u3 == <<"escrow_hold", "swap", "airtime">>
             u2 == <<"swap", "airtime">>
             u1 == <<"airtime">>
  <2>1. ToSum(kind) = {u4, u3, u2, u1} /\ Counted(kind) = u4
    BY <1>3 DEF ToSum, Counted
  <2>2. Tail(u4) = u3 /\ Tail(u3) = u2 /\ Tail(u2) = u1
    OBVIOUS
  <2>3. Len(u4) = 4 /\ Len(u3) = 3 /\ Len(u2) = 2 /\ Len(u1) = 1
    OBVIOUS
  <2>4. /\ u4 \in Seq(Kind) /\ Head(u4) \in Kind /\ u4 # <<>>
        /\ u3 \in Seq(Kind) /\ Head(u3) \in Kind /\ u3 # <<>>
    BY DEF Kind
  <2>5. /\ u2 \in Seq(Kind) /\ Head(u2) \in Kind /\ u2 # <<>>
        /\ u1 \in Seq(Kind) /\ Head(u1) \in Kind /\ u1 # <<>>
    BY DEF Kind
  <2> HIDE DEF u4, u3, u2, u1
  <2>6. u3 # u4 /\ u2 # u4 /\ u1 # u4
    BY <2>3
  <2>7. u = u4 \/ u = u3 \/ u = u2 \/ u = u1
    BY <2>1
  <2>8. u \in Seq(Kind) /\ u # <<>> /\ Head(u) \in Kind
    BY <2>4, <2>5, <2>7
  <2>9. Len(u) # 1 => Tail(u) \in {u3, u2, u1}
    BY <2>2, <2>3, <2>7
  <2>10. QED BY <1>3, <2>1, <2>6, <2>8, <2>9
<1>4. QED BY <1>1, <1>2, <1>3

\* A request begins with all its sums unread.
LEMMA CountedTyped == \A kind : Counted(kind) \in ToSum(kind) /\ Counted(kind) \in Seq(Kind)
<1>1. \A kind : Counted(kind) \in ToSum(kind)
  BY DEF Counted, ToSum
<1>2. QED BY <1>1, ToSumTyped

\* It holds before the first command.
LEMMA TypeInit == Init => TypeInv
<1> SUFFICES ASSUME Init PROVE TypeInv
  OBVIOUS
<1>1. DataOK
  <2>1. menu.requests \in Nat /\ menu.funds \in Nat
    BY MenuTyped DEF Init
  <2>2. spent \in [Kind -> Nat] /\ locks \in Seq(Nat)
    BY DEF Init
  <2>3. audit \in Seq(Entry)
    BY DEF Init
  <2>4. started \in 0 .. menu.requests /\ crashes \in 0 .. MaxCrash
    BY <2>1, SpendingAssumption DEF Init
  <2>5. abroad \in [Foreign -> Nat \cup {NoHead}]
    BY DEF Init
  <2>6. QED BY <2>1, <2>2, <2>3, <2>4, <2>5, NoReqTyped DEF Init, DataOK
<1>2. h \in [Caller -> Work]
  BY IdleTyped DEF Init
<1>3. PendOK(NoReq, started) /\ WorkOK(Idle, started)
  BY DEF Init, PendOK, Lookups, RequestOK, WorkOK, NoReq, Idle, SumOK, Asking
<1>4. QED BY <1>1, <1>2, <1>3 DEF Init, TypeInv

\* The new caller's work is well formed, and what the others have in hand
\* stays so: keys are only ever given out.
LEMMA WorkKept ==
  ASSUME TypeInv, NEW c \in Caller, h' \in [Caller -> Work], DataOK',
         started' >= started, PendOK(pend', started'), WorkOK(h'[c], started'),
         \A d \in Caller \ {c} : h'[d] = h[d]
  PROVE  TypeInv'
<1>1. ASSUME NEW d \in Caller \ {c} PROVE WorkOK(h'[d], started')
  <2>1. WorkOK(h[d], started) /\ h[d] \in Work /\ h'[d] = h[d]
    BY DEF TypeInv
  <2>2. h[d].req \in Request /\ started \in Nat /\ started' \in Nat
    BY <2>1, MenuTyped DEF Work, TypeInv, DataOK
  <2>3. h[d].req.id \in Nat
    BY <2>2 DEF Request
  <2>4. RequestOK(h[d].req, started')
    BY <2>1, <2>2, <2>3 DEF WorkOK, RequestOK
  <2>5. QED BY <2>1, <2>4 DEF WorkOK
<1>2. QED BY <1>1 DEF TypeInv

\* A caller that goes on, decides or leaves, in one place for all actions.
LEMMA GoKeeps ==
  ASSUME TypeInv, NEW c \in Caller, h[c].pc # "idle",
         NEW pc \in Steps \ {"head", "insert", "clear", "freeze"}, Go(c, pc),
         h[c].req.kind \in KindsAt(pc), pc \in Asking => h[c].pc \in Asking \ {"sums"},
         DataOK', PendOK(pend', started'), started' = started
  PROVE  TypeInv'
<1> DEFINE t == [h[c] EXCEPT !.pc = pc, !.bal = 0]
<1>1. h[c] \in Work /\ WorkOK(h[c], started)
  BY DEF TypeInv
<1>2. h'[c] = t /\ \A d \in Caller \ {c} : h'[d] = h[d]
  BY DEF Go, TypeInv
<1>3. t.req = h[c].req /\ t.pc = pc /\ t.unread = h[c].unread /\ t.sum = h[c].sum
  BY <1>1 DEF Work
<1> HIDE DEF t
<1>4. SumOK(t)
  BY <1>1, <1>3 DEF SumOK, WorkOK
<1>5. WorkOK(t, started')
  BY <1>1, <1>3, <1>4 DEF WorkOK
<1>6. started \in Nat
  BY MenuTyped DEF TypeInv, DataOK
<1>7. h' \in [Caller -> Work]
  BY GoTyped DEF TypeInv
<1>8. started' >= started /\ WorkOK(h'[c], started')
  BY <1>2, <1>5, <1>6
<1>9. QED BY <1>2, <1>7, <1>8, WorkKept

\* Writing a verdict down keeps the types, when the tables keep theirs.
LEMMA DecidedKeeps ==
  ASSUME TypeInv, NEW c \in Caller, h[c].pc # "idle", NEW v \in Verdict, Decided(c, v),
         h[c].req.kind \in KindsAt("head"), v = "confirm" => h[c].req.kind \in Spends,
         DataOK', PendOK(pend', started'), started' = started
  PROVE  TypeInv'
<1> DEFINE t == [h[c] EXCEPT !.verdict = v, !.bal = 0, !.sum = 0, !.pc = "head"]
<1>1. h[c] \in Work /\ WorkOK(h[c], started)
  BY DEF TypeInv
<1>2. /\ h'[c] = t
      /\ \A d \in Caller \ {c} : h'[d] = h[d]
  BY DEF Decided, TypeInv
<1>3. t.req = h[c].req /\ t.pc = "head" /\ t.verdict = v
  BY <1>1 DEF Work
<1> HIDE DEF t
<1>4. WorkOK(t, started')
  BY <1>1, <1>3 DEF WorkOK, SumOK, Asking
<1>5. started \in Nat
  BY MenuTyped DEF TypeInv, DataOK
<1>6. h' \in [Caller -> Work]
  BY DecidedTyped DEF TypeInv
<1>7. started' >= started /\ WorkOK(h'[c], started')
  BY <1>2, <1>4, <1>5
<1>8. QED BY <1>2, <1>6, <1>7, WorkKept

\* So does handing a caller any well-formed piece of work,
LEMMA TakeKeeps ==
  ASSUME TypeInv, NEW c \in Caller, NEW t \in Work, h' = [h EXCEPT ![c] = t],
         DataOK', PendOK(pend', started'), started' >= started, WorkOK(t, started')
  PROVE  TypeInv'
<1>1. h' \in [Caller -> Work]
  BY TakeTyped DEF TypeInv
<1>2. h'[c] = t /\ \A d \in Caller \ {c} : h'[d] = h[d]
  BY DEF TypeInv
<1>3. WorkOK(h'[c], started')
  BY <1>2
<1>4. QED BY <1>1, <1>2, <1>3, WorkKept

\* and so does the end of a command.
LEMMA LeaveKeeps ==
  ASSUME TypeInv, NEW c \in Caller, Leave(c), DataOK', PendOK(pend', started'), started' = started
  PROVE  TypeInv'
<1>1. started \in Nat
  BY MenuTyped DEF TypeInv, DataOK
<1>2. WorkOK(Idle, started')
  BY <1>1 DEF WorkOK, RequestOK, Idle, NoReq, SumOK, Asking
<1>3. started' >= started /\ h' = [h EXCEPT ![c] = Idle]
  BY <1>1 DEF Leave
<1>4. QED BY <1>2, <1>3, IdleTyped, TakeKeeps

\* A step that touches no table.
LEMMA Quiet ==
  ASSUME TypeInv, UNCHANGED <<menu, pend, started, money, savings, risk, trail, crashes>>,
         frozen' \in Request
  PROVE  DataOK' /\ PendOK(pend', started') /\ started' = started
  BY DEF TypeInv, DataOK, PendOK, RequestOK, money, savings, risk, trail

\* A step that leaves the last confirmed policy alone.
LEMMA FrozenTyped ==
  ASSUME TypeInv, UNCHANGED leash
  PROVE  frozen' \in Request
  BY DEF TypeInv, DataOK, leash

-----------------------------------------------------------------------------
(* The gate. *)

\* The check of the frozen rules keeps the types.
LEMMA TypeCheckRules ==
  ASSUME TypeInv, NEW c \in Caller, CheckRules(c)
  PROVE  TypeInv'
<1> DEFINE r == h[c].req
           v == RiskVerdict(r.amt, Lim, RulesRefuse(rules, r.amt, r.to, paid),
                            h[c].cool, h[c].called)
<1>1. v \in {"reject", "callback", "next"}
  BY VerdictsTyped
<1>2. h[c].pc = "rules" /\ DataOK' /\ PendOK(pend', started') /\ started' = started
  BY Quiet, FrozenTyped DEF CheckRules
<1>3. h[c].req.kind \in Spends
  BY <1>2 DEF TypeInv, WorkOK, KindsAt
<1>4. CASE Go(c, "locks")
  BY <1>2, <1>3, <1>4, GoKeeps DEF Steps, KindsAt, Asking
<1>5. CASE Decided(c, v) /\ v # "next"
  <2>1. v \in Verdict /\ v # "confirm"
    BY <1>1, <1>5 DEF Verdict
  <2> HIDE DEF v
  <2>2. QED BY <1>2, <1>3, <1>5, <2>1, DecidedKeeps DEF KindsAt
<1>6. QED BY <1>4, <1>5 DEF CheckRules

\* A request that has been weighed against the locks stays well formed.
LEMMA TypeWeigh ==
  ASSUME TypeInv, NEW c \in Caller, NEW available, Weigh(c, available),
         h[c].pc \in {"locks", "locked"}, h[c].req.kind \in Spends,
         DataOK', PendOK(pend', started'), started' = started
  PROVE  TypeInv'
<1> DEFINE r == h[c].req
           v == LockVerdict(r.kind, r.amt, Lim, available)
<1>1. v \in {"reject", "confirm", "next"}
  BY VerdictsTyped
<1>2. CASE Go(c, "sums")
  BY <1>2, GoKeeps DEF Steps, KindsAt, Asking
<1>3. CASE Decided(c, v) /\ v # "next"
  <2>1. v \in Verdict
    BY <1>1, <1>3 DEF Verdict
  <2> HIDE DEF v
  <2>2. QED BY <1>3, <2>1, DecidedKeeps DEF KindsAt
<1>4. QED BY <1>2, <1>3 DEF Weigh

\* The three reads of the check of the savings locks keep the types.
LEMMA TypeCheckLocks ==
  ASSUME TypeInv, NEW c \in Caller, CheckLocks(c)
  PROVE  TypeInv'
<1>1. h[c].pc = "locks" /\ DataOK' /\ PendOK(pend', started') /\ started' = started
  BY Quiet, FrozenTyped DEF CheckLocks
<1>2. h[c].req.kind \in Spends
  BY <1>1 DEF TypeInv, WorkOK, KindsAt
<1>3. CASE Go(c, "balance")
  BY <1>1, <1>2, <1>3, GoKeeps DEF Steps, KindsAt, Asking
<1>4. CASE Weigh(c, h[c].req.amt)
  BY <1>1, <1>2, <1>4, TypeWeigh
<1>5. QED BY <1>3, <1>4 DEF CheckLocks

\* The balance that is read is a whole number.
LEMMA TypeReadBalance ==
  ASSUME TypeInv, NEW c \in Caller, ReadBalance(c)
  PROVE  TypeInv'
<1> DEFINE t == [h[c] EXCEPT !.bal = balance, !.pc = "locked"]
<1>1. h[c].pc = "balance" /\ DataOK' /\ PendOK(pend', started') /\ started' = started
  BY Quiet, FrozenTyped DEF ReadBalance
<1>2. h[c] \in Work /\ WorkOK(h[c], started) /\ started \in Nat /\ balance \in Nat
  BY MenuTyped DEF TypeInv, DataOK
<1>3. /\ t \in Work /\ t.pc = "locked" /\ t.req = h[c].req
      /\ t.unread = h[c].unread /\ t.sum = h[c].sum
  BY <1>2 DEF Work, Steps
<1>4. h' = [h EXCEPT ![c] = t]
  BY DEF ReadBalance, TypeInv
<1> HIDE DEF t
<1>5. WorkOK(t, started')
  BY <1>1, <1>2, <1>3 DEF WorkOK, KindsAt, SumOK, Asking
<1>6. started' >= started
  BY <1>1, <1>2
<1>7. QED BY <1>1, <1>3, <1>4, <1>5, <1>6, TakeKeeps

\* The comparison with what is locked keeps the types.
LEMMA TypeCompareLocked ==
  ASSUME TypeInv, NEW c \in Caller, CompareLocked(c)
  PROVE  TypeInv'
<1> DEFINE available == Available(h[c].bal, Sum(locks))
<1>1. h[c].pc = "locked" /\ DataOK' /\ PendOK(pend', started') /\ started' = started
  BY Quiet, FrozenTyped DEF CompareLocked
<1>2. h[c].req.kind \in Spends \cup {"lock"}
  BY <1>1 DEF TypeInv, WorkOK, KindsAt
<1>3. CASE Weigh(c, available) /\ h[c].req.kind # "lock"
  BY <1>1, <1>2, <1>3, TypeWeigh
<1>4. CASE Leave(c)
  BY <1>1, <1>4, LeaveKeeps
<1>5. CASE Go(c, "park")
  BY <1>1, <1>2, <1>5, GoKeeps DEF Steps, KindsAt, Asking
<1>6. QED BY <1>3, <1>4, <1>5 DEF CompareLocked

\* The read of one of the daily sums keeps the types.
LEMMA TypeReadSum ==
  ASSUME TypeInv, NEW c \in Caller, ReadSum(c)
  PROVE  TypeInv'
<1> DEFINE r == h[c].req
           already == h[c].sum + spent[Head(h[c].unread)]
           t == [h[c] EXCEPT !.sum = already, !.unread = Tail(@)]
<1>1. h[c].pc = "sums" /\ DataOK' /\ PendOK(pend', started') /\ started' = started
  BY Quiet, FrozenTyped DEF ReadSum
<1>2. h[c] \in Work /\ WorkOK(h[c], started) /\ started \in Nat /\ spent \in [Kind -> Nat]
  BY MenuTyped DEF TypeInv, DataOK
<1>3. r.kind \in Spends \cup {"price"} /\ h[c].unread \in ToSum(r.kind)
  BY <1>1, <1>2 DEF WorkOK, KindsAt, SumOK, Asking, Spends
<1>4. CASE Decided(c, SumVerdict(r.kind, r.amt, Lim, already))
  <2> DEFINE v == SumVerdict(r.kind, r.amt, Lim, already)
  <2>1. v \in Verdict /\ (v = "confirm" => r.kind # "price")
    BY VerdictsTyped, ConfirmVerdicts DEF Verdict
  <2> HIDE DEF v
  <2>2. Decided(c, v)
    BY <1>4 DEF v
  <2>3. QED BY <1>1, <1>3, <2>1, <2>2, DecidedKeeps DEF KindsAt
<1>5. CASE Len(h[c].unread) # 1 /\ h' = [h EXCEPT ![c].sum = already, ![c].unread = Tail(@)]
  <2>1. Head(h[c].unread) \in Kind /\ Tail(h[c].unread) \in ToSum(r.kind)
        /\ Tail(h[c].unread) # Counted(r.kind)
    BY <1>3, <1>5, ToSumTyped
  <2>2. Tail(h[c].unread) \in Seq(Kind)
    BY <2>1, ToSumTyped
  <2>3. already \in Nat
    <3>1. h[c].sum \in Nat /\ spent[Head(h[c].unread)] \in Nat
      BY <1>2, <2>1 DEF Work
    <3>2. QED BY <3>1
  <2>4. /\ t \in Work /\ t.pc = "sums" /\ t.req = r
        /\ t.unread = Tail(h[c].unread) /\ t.verdict = h[c].verdict
    BY <1>1, <1>2, <2>2, <2>3 DEF Work
  <2>5. h' = [h EXCEPT ![c] = t]
    BY <1>5 DEF TypeInv
  <2> HIDE DEF t, already
  <2>6. SumOK(t)
    BY <2>1, <2>4 DEF SumOK
  <2>7. WorkOK(t, started')
    BY <1>1, <1>2, <2>4, <2>6 DEF WorkOK
  <2>8. started' >= started
    BY <1>1, <1>2
  <2>9. QED BY <1>1, <2>4, <2>5, <2>7, <2>8, TakeKeeps
<1>6. QED BY <1>4, <1>5 DEF ReadSum

\* Reading the last audit entry keeps the types.
LEMMA TypeReadHead ==
  ASSUME TypeInv, NEW c \in Caller, ReadHead(c)
  PROVE  TypeInv'
<1> DEFINE t == [h[c] EXCEPT !.head = Len(audit), !.pc = "insert"]
<1>1. h[c].pc = "head" /\ DataOK' /\ PendOK(pend', started') /\ started' = started
  BY Quiet, FrozenTyped DEF ReadHead
<1>2. h[c] \in Work /\ WorkOK(h[c], started) /\ started \in Nat
  BY MenuTyped DEF TypeInv, DataOK
<1>3. Len(audit) \in Nat
  BY DEF TypeInv, DataOK
<1>4. t \in Work /\ t.pc = "insert" /\ t.req = h[c].req /\ t.verdict = h[c].verdict
  BY <1>2, <1>3 DEF Work, Steps
<1>5. h' = [h EXCEPT ![c] = t]
  BY DEF ReadHead, TypeInv
<1> HIDE DEF t
<1>6. WorkOK(t, started')
  BY <1>1, <1>2, <1>4 DEF WorkOK, KindsAt, SumOK, Asking
<1>7. started' >= started
  BY <1>1, <1>2
<1>8. QED BY <1>1, <1>4, <1>5, <1>6, <1>7, TakeKeeps

\* The audit entry that is added is well formed, and what follows it too.
LEMMA TypeRecord ==
  ASSUME TypeInv, NEW c \in Caller, Record(c)
  PROVE  TypeInv'
<1> DEFINE e == [prev |-> h[c].head, id |-> h[c].req.id, verdict |-> h[c].verdict]
<1>1. h[c] \in Work /\ h[c].req \in Request /\ h[c].pc = "insert" /\ WorkOK(h[c], started)
  BY DEF TypeInv, Work, Record
<1>2. e \in Entry
  BY <1>1 DEF Record, Work, Request, Entry
<1>3. audit' \in Seq(Entry)
  BY <1>2 DEF Record, TypeInv, DataOK
<1>4. DataOK' /\ PendOK(pend', started') /\ started' = started
  BY <1>3 DEF Record, TypeInv, DataOK, PendOK, RequestOK, money, savings, leash, risk
<1>5. CASE h[c].verdict = "confirm" /\ Go(c, "park")
  <2>1. h[c].req.kind \in Spends
    BY <1>1, <1>5 DEF WorkOK
  <2>2. QED BY <1>1, <1>4, <1>5, <2>1, GoKeeps DEF Steps, KindsAt, Asking
<1>6. CASE h[c].req.kind = "price" /\ Go(c, "fetch")
  BY <1>1, <1>4, <1>6, GoKeeps DEF Steps, KindsAt, Asking, Lookups
<1>7. CASE Leave(c)
  BY <1>4, <1>7, LeaveKeeps
<1>8. QED
  BY <1>5, <1>6, <1>7 DEF Record

\* Parking a request keeps the types: only a made request is parked.
LEMMA TypePark ==
  ASSUME TypeInv, NEW c \in Caller, Park(c)
  PROVE  TypeInv'
<1>1. h[c] \in Work /\ h[c].req \in Request /\ WorkOK(h[c], started)
  BY DEF TypeInv, Work
<1>2. DataOK' /\ started' = started
  BY <1>1 DEF Park, TypeInv, DataOK, money, savings, leash, risk, trail
<1>3. PendOK(pend', started')
  BY <1>1, <1>2 DEF Park, WorkOK, PendOK, KindsAt, Spends, Lookups
<1>4. QED BY <1>2, <1>3, LeaveKeeps DEF Park

\* A paid lookup keeps the types.
LEMMA TypeFetch ==
  ASSUME TypeInv, NEW c \in Caller, Fetch(c)
  PROVE  TypeInv'
<1>1. MaxPrice \in Nat
  BY SpendingAssumption
<1>2. spent' \in [Kind -> Nat] /\ gated' \in Nat
  BY <1>1 DEF Fetch, TypeInv, DataOK, Kind
<1>3. DataOK' /\ PendOK(pend', started') /\ started' = started
  BY <1>2 DEF Fetch, TypeInv, DataOK, PendOK, RequestOK, savings, leash, risk, trail
<1>4. QED BY <1>3, LeaveKeeps DEF Fetch

-----------------------------------------------------------------------------
(* Commands begin. *)

\* A number that is given out is a new one, and the tables keep their types.
LEMMA NumberKeeps ==
  ASSUME TypeInv, started < menu.requests, started' = started + 1,
         UNCHANGED <<menu, pend, money, savings, leash, cooldown, callback, trail, crashes>>,
         chilled' = chilled \/ chilled' = chilled \cup {started'}
  PROVE  /\ DataOK' /\ PendOK(pend', started') /\ started' >= started
         /\ started' \in Nat /\ started' >= 1 /\ started \in Nat
<1>1. menu.requests \in Nat /\ started \in Nat
  BY MenuTyped DEF TypeInv, DataOK
<1>2. started' \in 1 .. menu.requests /\ started' > started /\ started' \in Nat
  BY <1>1
<1>3. chilled' \subseteq 1 .. started' /\ claimed' \subseteq 1 .. started'
  <2>1. started' \in 1 .. started' /\ 1 .. started \subseteq 1 .. started'
    BY <1>1, <1>2
  <2>2. chilled \subseteq 1 .. started /\ claimed \subseteq 1 .. started /\ claimed' = claimed
    BY DEF TypeInv, DataOK, money
  <2>3. QED BY <2>1, <2>2
<1>4. DataOK'
  BY <1>2, <1>3 DEF TypeInv, DataOK, money, savings, leash, trail
<1>5. PendOK(pend', started')
  <2>1. pend' = pend /\ pend.id \in Nat
    BY DEF TypeInv, DataOK, Request
  <2>2. QED BY <1>1, <1>2, <2>1 DEF TypeInv, PendOK, RequestOK
<1>6. QED BY <1>1, <1>2, <1>4, <1>5

\* A new spend is well formed, with all its sums unread.
LEMMA TypeAsk ==
  ASSUME TypeInv, NEW c \in Caller, Ask(c)
  PROVE  TypeInv'
<1>1. PICK kind \in Spends, amt \in menu.amounts, to \in menu.payees \cup {None} :
        /\ (kind = "send") <=> (to # None)
        /\ started < menu.requests /\ started' = started + 1
        /\ LET v == FirstVerdict(kind, amt, Lim, cooldown)
               req == [NoReq EXCEPT !.kind = kind, !.id = started', !.amt = amt, !.to = to]
           IN  h' = [h EXCEPT ![c] =
                   [Idle EXCEPT !.req = req, !.cool = cooldown, !.called = callback,
                                !.verdict = IF v = "next" THEN "none" ELSE v,
                                !.unread = Counted(kind),
                                !.pc = IF v # "next" THEN "head"
                                       ELSE IF kind = "send" THEN "rules" ELSE "locks"]]
        /\ chilled' = IF cooldown /\ amt > CooldownMax THEN chilled \cup {started'} ELSE chilled
        /\ UNCHANGED <<menu, pend, money, savings, leash, cooldown, callback, trail, crashes>>
  BY DEF Ask
<1> DEFINE v == FirstVerdict(kind, amt, Lim, cooldown)
           req == [NoReq EXCEPT !.kind = kind, !.id = started', !.amt = amt, !.to = to]
           verdict == IF v = "next" THEN "none" ELSE v
           pc == IF v # "next" THEN "head" ELSE IF kind = "send" THEN "rules" ELSE "locks"
           t == [Idle EXCEPT !.req = req, !.cool = cooldown, !.called = callback,
                             !.verdict = verdict, !.unread = Counted(kind), !.pc = pc]
<1>2. /\ DataOK' /\ PendOK(pend', started') /\ started' >= started
      /\ started' \in Nat /\ started' >= 1
  BY <1>1, NumberKeeps
<1>3. amt \in Nat /\ to \in Payee \cup {None} /\ kind \in Spends \cup Lookups \cup {"lock"}
  BY MenuTyped DEF TypeInv, DataOK
<1>4. req \in Request /\ RequestOK(req, started') /\ req.kind = kind
  <2>1. req \in Request /\ req.kind = kind /\ req.id = started'
    BY <1>2, <1>3, NoReqTyped DEF NoReq, Request
  <2>2. kind \notin {"none", "policy"}
    BY DEF Spends
  <2> HIDE DEF req
  <2>3. QED BY <1>2, <2>1, <2>2 DEF RequestOK
<1>5. h' = [h EXCEPT ![c] = t]
  BY <1>1
<1>6. verdict \in {"none", "reject"} /\ pc \in {"head", "rules", "locks"}
  BY VerdictsTyped
<1>7. cooldown \in BOOLEAN /\ callback \in BOOLEAN /\ Counted(kind) \in Seq(Kind)
  BY CountedTyped DEF TypeInv, DataOK
<1> HIDE DEF v, req, verdict, pc
<1>8. t \in Work
  BY <1>4, <1>6, <1>7, IdleTyped DEF Work, Steps, Verdict
<1>9. /\ t.req = req /\ t.pc = pc /\ t.unread = Counted(kind) /\ t.sum = 0
      /\ t.verdict = verdict
  BY DEF Idle
<1> HIDE DEF t
<1>10. SumOK(t)
  BY <1>4, <1>6, <1>9, CountedTyped DEF SumOK, Asking
<1>11. kind \in KindsAt(pc)
  BY <1>6 DEF KindsAt
<1>12. WorkOK(t, started')
  BY <1>4, <1>6, <1>9, <1>10, <1>11 DEF WorkOK
<1>13. QED BY <1>2, <1>5, <1>8, <1>12, TakeKeeps

\* A request without a first verdict keeps the types: a lookup, or a lock that
\* is asked for.
LEMMA BegunKeeps ==
  ASSUME TypeInv, NEW c \in Caller, started < menu.requests, started' = started + 1,
         UNCHANGED <<menu, pend, money, savings, leash, risk, trail, crashes>>,
         NEW req \in Request, req.id = started', req.kind \in Lookups \cup {"lock"},
         NEW t \in Work, t.req = req, t.pc \in {"sums", "fetch", "balance"},
         t.pc = "fetch" => req.kind = "rate",
         t.pc = "balance" => req.kind = "lock",
         t.pc = "sums" => req.kind = "price" /\ t.unread = Counted("price") /\ t.sum = 0,
         h' = [h EXCEPT ![c] = t]
  PROVE  TypeInv'
<1>1. /\ DataOK' /\ PendOK(pend', started') /\ started' >= started
      /\ started' \in Nat /\ started' >= 1
  BY NumberKeeps DEF risk
<1>2. RequestOK(req, started')
  BY <1>1 DEF RequestOK, Lookups
<1>3. SumOK(t)
  BY CountedTyped DEF SumOK, Asking
<1>4. req.kind \in KindsAt(t.pc)
  BY DEF KindsAt, Lookups
<1>5. WorkOK(t, started')
  BY <1>2, <1>3, <1>4 DEF WorkOK
<1>6. QED BY <1>1, <1>5, TakeKeeps

\* A price lookup is well formed,
LEMMA TypeAskPrice ==
  ASSUME TypeInv, NEW c \in Caller, AskPrice(c)
  PROVE  TypeInv'
<1> DEFINE req == [NoReq EXCEPT !.kind = "price", !.id = started', !.amt = PriceChecked]
           t == [Idle EXCEPT !.pc = "sums", !.unread = Counted("price"), !.req = req]
<1>1. /\ started < menu.requests /\ started' = started + 1 /\ h' = [h EXCEPT ![c] = t]
      /\ UNCHANGED <<menu, pend, money, savings, leash, risk, trail, crashes>>
  BY DEF AskPrice
<1>2. PriceChecked \in Nat /\ Counted("price") \in Seq(Kind) /\ started' \in Nat
  BY <1>1, LimitsAssumption, CountedTyped, MenuTyped DEF TypeInv, DataOK
<1>3. req \in Request /\ req.id = started' /\ req.kind = "price"
  BY <1>2, NoReqTyped DEF NoReq, Request, Lookups
<1> HIDE DEF req
<1>4. t \in Work
  BY <1>2, <1>3, IdleTyped DEF Work, Steps
<1>5. t.req = req /\ t.pc = "sums" /\ t.unread = Counted("price") /\ t.sum = 0
  BY DEF Idle
<1>6. req.kind \in Lookups \cup {"lock"}
  BY <1>3 DEF Lookups
<1> HIDE DEF t
<1>7. QED BY <1>1, <1>3, <1>4, <1>5, <1>6, BegunKeeps

\* and so is a rate check,
LEMMA TypeAskRate ==
  ASSUME TypeInv, NEW c \in Caller, AskRate(c)
  PROVE  TypeInv'
<1> DEFINE req == [NoReq EXCEPT !.kind = "rate", !.id = started']
           t == [Idle EXCEPT !.pc = "fetch", !.req = req]
<1>1. /\ started < menu.requests /\ started' = started + 1 /\ h' = [h EXCEPT ![c] = t]
      /\ UNCHANGED <<menu, pend, money, savings, leash, risk, trail, crashes>>
  BY DEF AskRate
<1>2. started' \in Nat
  BY <1>1, MenuTyped DEF TypeInv, DataOK
<1>3. req \in Request /\ req.id = started' /\ req.kind = "rate"
  BY <1>2, NoReqTyped DEF NoReq, Request, Lookups
<1> HIDE DEF req
<1>4. t \in Work
  BY <1>3, IdleTyped DEF Work, Steps
<1>5. t.req = req /\ t.pc = "fetch"
  BY DEF Idle
<1>6. req.kind \in Lookups \cup {"lock"}
  BY <1>3 DEF Lookups
<1> HIDE DEF t
<1>7. QED BY <1>1, <1>3, <1>4, <1>5, <1>6, BegunKeeps

\* and a savings lock that is asked for.
LEMMA TypeAskLock ==
  ASSUME TypeInv, NEW c \in Caller, AskLock(c)
  PROVE  TypeInv'
<1>1. PICK amt \in menu.amounts :
        /\ started < menu.requests /\ started' = started + 1
        /\ h' = [h EXCEPT ![c] = [Idle EXCEPT !.pc = "balance",
                    !.req = [NoReq EXCEPT !.kind = "lock", !.id = started', !.amt = amt]]]
        /\ UNCHANGED <<menu, pend, money, savings, leash, risk, trail, crashes>>
  BY DEF AskLock
<1> DEFINE req == [NoReq EXCEPT !.kind = "lock", !.id = started', !.amt = amt]
           t == [Idle EXCEPT !.pc = "balance", !.req = req]
<1>2. amt \in Nat /\ started' \in Nat /\ h' = [h EXCEPT ![c] = t]
  BY <1>1, MenuTyped DEF TypeInv, DataOK
<1>3. req \in Request /\ req.id = started' /\ req.kind = "lock"
  BY <1>2, NoReqTyped DEF NoReq, Request
<1> HIDE DEF req
<1>4. t \in Work
  BY <1>3, IdleTyped DEF Work, Steps
<1>5. t.req = req /\ t.pc = "balance"
  BY DEF Idle
<1> HIDE DEF t
<1>6. QED BY <1>1, <1>2, <1>3, <1>4, <1>5, BegunKeeps

\* A confirmation takes a well-formed request out of the session.
LEMMA TypeConfirm ==
  ASSUME TypeInv, NEW c \in Caller, Confirm(c)
  PROVE  TypeInv'
<1> DEFINE at == CASE pend.kind = "policy" -> "clear"
                   [] pend.kind = "lock"   -> "place"
                   [] OTHER                -> "claim"
           t == [Idle EXCEPT !.req = pend, !.left = pend.draft, !.pc = at]
<1>1. /\ pend \in Request /\ RequestOK(pend, started) /\ pend # NoReq
      /\ pend.kind \notin Lookups
  BY DEF Confirm, TypeInv, DataOK, PendOK
<1>2. DataOK' /\ PendOK(pend', started') /\ started' = started /\ started \in Nat
  <2>1. UNCHANGED <<menu, pend, started, money, savings, leash, risk, trail, crashes>>
    BY DEF Confirm
  <2>2. started \in Nat
    BY MenuTyped DEF TypeInv, DataOK
  <2>3. QED BY <2>1, <2>2, FrozenTyped, Quiet
<1>3. pend.draft \in Seq(Rule)
  <2>1. pend.draft \in Draft \cup {<<>>}
    BY <1>1 DEF Request
  <2>2. <<>> \in Seq(Rule) OBVIOUS
  <2>3. QED BY <2>1, <2>2, DraftIsSeq
<1>4. at \in {"clear", "place", "claim"}
  OBVIOUS
<1>5. pend.kind \in KindsAt(at)
  <2>1. pend.kind # "none"
    BY <1>1 DEF RequestOK
  <2>2. pend.kind \in Spends \cup {"lock", "policy"}
    BY <1>1, <2>1 DEF Request
  <2>3. QED BY <2>2 DEF KindsAt, Spends
<1>6. h' = [h EXCEPT ![c] = t]
  BY DEF Confirm, TypeInv
<1> HIDE DEF at
<1>7. t \in Work /\ t.req = pend /\ t.pc = at /\ t.left = pend.draft
  BY <1>1, <1>3, <1>4, IdleTyped DEF Work, Idle, Steps
<1>8. WorkOK(t, started')
  BY <1>1, <1>2, <1>4, <1>5, <1>7 DEF WorkOK, SumOK, Asking
<1> HIDE DEF t
<1>9. started' >= started
  BY <1>2
<1>10. QED BY <1>2, <1>6, <1>7, <1>8, <1>9, TakeKeeps

\* A command that is done at once leaves what callers have in hand alone.
LEMMA HandsKept ==
  ASSUME TypeInv, DataOK', PendOK(pend', started'), UNCHANGED <<h, started>>
  PROVE  TypeInv'
  BY DEF TypeInv

\* A policy that is parked is well formed and has the number of the counter.
LEMMA TypeSetPolicy ==
  ASSUME TypeInv, NEW c \in Caller, SetPolicy(c)
  PROVE  TypeInv'
<1>1. PICK draft \in Draft :
        /\ started < menu.requests /\ started' = started + 1
        /\ pend' = [NoReq EXCEPT !.kind = "policy", !.id = started', !.draft = draft]
        /\ UNCHANGED <<menu, h, money, savings, leash, risk, trail, crashes>>
  BY DEF SetPolicy
<1>2. menu.requests \in Nat /\ started \in Nat
  BY MenuTyped DEF TypeInv, DataOK
<1>3. started' \in 0 .. menu.requests /\ started' \in Nat /\ started' >= 1 /\ started' >= started
  BY <1>1, <1>2
<1>4. pend' \in Request /\ pend'.id = started' /\ pend'.kind = "policy" /\ pend'.draft = draft
  BY <1>1, <1>3, NoReqTyped DEF NoReq, Request
<1>5. PendOK(pend', started')
  BY <1>3, <1>4 DEF PendOK, RequestOK, Lookups
<1>6. 1 .. started \subseteq 1 .. started'
  BY <1>2, <1>3
<1>7. chilled' \subseteq 1 .. started' /\ claimed' \subseteq 1 .. started'
  BY <1>1, <1>6 DEF TypeInv, DataOK, money, risk
<1>8. DataOK'
  BY <1>1, <1>3, <1>4, <1>7 DEF TypeInv, DataOK, money, savings, leash, risk, trail
<1>9. PICK d \in Caller : TRUE
  OBVIOUS
<1>10. WorkOK(h[d], started')
  <2>1. WorkOK(h[d], started) /\ h[d].req.id \in Nat
    BY DEF TypeInv, Work, Request
  <2>2. QED BY <1>2, <1>3, <2>1 DEF WorkOK, RequestOK
<1>11. h' = h /\ \A e \in Caller \ {d} : h'[e] = h[e]
  BY <1>1
<1>12. QED BY <1>3, <1>5, <1>8, <1>10, <1>11, WorkKept DEF TypeInv

\* The commands of one statement keep the types.
LEMMA TypeSimple ==
  ASSUME TypeInv, NEW c \in Caller, ClearPolicy(c) \/ ReportSim(c) \/ Callback(c) \/ Cancel(c)
  PROVE  TypeInv'
<1>0. started \in Nat /\ PendOK(NoReq, started)
  BY MenuTyped DEF TypeInv, DataOK, PendOK, RequestOK, NoReq, Lookups
<1>1. CASE ClearPolicy(c)
  <2>1. DataOK' /\ PendOK(pend', started')
    BY <1>1, NoReqTyped, Quiet DEF ClearPolicy
  <2>2. QED BY <1>1, <2>1, HandsKept DEF ClearPolicy
<1>2. CASE ReportSim(c)
  <2>1. DataOK' /\ PendOK(pend', started')
    BY <1>2 DEF ReportSim, TypeInv, DataOK, money, savings, leash, trail
  <2>2. QED BY <1>2, <2>1, HandsKept DEF ReportSim
<1>3. CASE Callback(c)
  <2>1. DataOK' /\ PendOK(pend', started')
    BY <1>3 DEF Callback, TypeInv, DataOK, money, savings, leash, trail
  <2>2. QED BY <1>3, <2>1, HandsKept DEF Callback
<1>4. CASE Cancel(c)
  <2>1. DataOK' /\ PendOK(pend', started')
    BY <1>0, <1>4, NoReqTyped DEF Cancel, TypeInv, DataOK, money, savings, leash, risk, trail
  <2>2. QED BY <1>4, <2>1, HandsKept DEF Cancel
<1>5. QED BY <1>1, <1>2, <1>3, <1>4

-----------------------------------------------------------------------------
(* Executing a confirmed request. *)

\* A claimed key belongs to a request that was made.
LEMMA TypeClaimKey ==
  ASSUME TypeInv, NEW c \in Caller, ClaimKey(c)
  PROVE  TypeInv'
<1>1. /\ h[c] \in Work /\ h[c].req \in Request /\ WorkOK(h[c], started)
      /\ h[c].pc = "claim" /\ h[c].req.kind \in Spends
  BY DEF TypeInv, Work, ClaimKey, WorkOK, KindsAt
<1>2. started \in Nat /\ h[c].req.id \in Nat
  BY <1>1, MenuTyped DEF TypeInv, DataOK, Request
<1>3. h[c].req.id \in 1 .. started
  BY <1>1, <1>2 DEF WorkOK, RequestOK, Spends
<1>4. claimed' \subseteq 1 .. started
  BY <1>3 DEF ClaimKey, TypeInv, DataOK
<1>5. DataOK' /\ PendOK(pend', started') /\ started' = started
  BY <1>4 DEF ClaimKey, TypeInv, DataOK, savings, leash, risk, trail
<1>6. \/ Leave(c)
      \/ \E pc \in {"cap", "pay"} : Go(c, pc)
  BY DEF ClaimKey
<1>7. QED
  BY <1>1, <1>5, <1>6, GoKeeps, LeaveKeeps DEF Steps, KindsAt, Asking

\* The check of the claim cap keeps the types.
LEMMA TypeCheckCap ==
  ASSUME TypeInv, NEW c \in Caller, CheckCap(c)
  PROVE  TypeInv'
<1>1. h[c].pc = "cap" /\ DataOK' /\ PendOK(pend', started') /\ started' = started
  BY Quiet, FrozenTyped DEF CheckCap
<1>2. h[c].req.kind \in Spends
  BY <1>1 DEF TypeInv, WorkOK, KindsAt
<1>3. Leave(c) \/ Go(c, "pay")
  BY DEF CheckCap
<1>4. QED
  BY <1>1, <1>2, <1>3, GoKeeps, LeaveKeeps DEF Steps, KindsAt, Asking

\* A transaction leaves whole numbers behind: the balance never goes below zero.
LEMMA TypeTakes ==
  ASSUME TypeInv, NEW c \in Caller, NEW amt \in Nat, NEW gas \in Nat, Takes(c, amt, gas)
  PROVE  balance' \in Nat /\ burnt' \in Nat /\ loose' \in Nat
<1>1. balance \in Nat /\ burnt \in Nat /\ loose \in Nat
  BY DEF TypeInv, DataOK
<1>2. amt + gas <= balance /\ balance' = balance - (amt + gas)
  BY DEF Takes
<1>3. balance' \in Nat
  BY <1>1, <1>2
<1>4. burnt' \in {burnt + gas, burnt} /\ loose' \in {loose + amt, loose}
  BY DEF Takes
<1>5. QED BY <1>1, <1>3, <1>4

\* Paying keeps the types.
LEMMA TypePay ==
  ASSUME TypeInv, NEW c \in Caller, Pay(c)
  PROVE  TypeInv'
<1>1. h[c].req.amt \in Nat /\ h[c].pc = "pay" /\ h[c].req.kind \in Spends
  BY DEF TypeInv, Work, Request, Pay, WorkOK, KindsAt
<1>2. PICK gas \in 0 .. menu.gas :
        \/ Takes(c, h[c].req.amt, gas) /\ (Go(c, "book") \/ Leave(c))
        \/ Takes(c, 0, gas) /\ Leave(c)
  BY DEF Pay
<1>3. gas \in Nat
  BY MenuTyped DEF TypeInv, DataOK
<1>4. balance' \in Nat /\ burnt' \in Nat /\ loose' \in Nat
  BY <1>1, <1>2, <1>3, TypeTakes
<1>5. DataOK' /\ PendOK(pend', started') /\ started' = started
  BY <1>4 DEF Pay, TypeInv, DataOK, leash, risk, trail
<1>6. QED
  BY <1>1, <1>2, <1>5, GoKeeps, LeaveKeeps DEF Steps, KindsAt, Asking

\* A payment is booked under one of the kinds the ledger sums.
LEMMA BookedAsKind == \A r : BookedAs(r) \in Kind
  BY DEF BookedAs, Kind

\* The sums of the ledger stay whole numbers.
LEMMA TypeBook ==
  ASSUME TypeInv, NEW c \in Caller, Book(c)
  PROVE  TypeInv'
<1> DEFINE r == h[c].req
<1>1. r.amt \in Nat /\ h[c].pc = "book" /\ BookedAs(r) \in Kind /\ r.kind \in Spends
  BY BookedAsKind DEF TypeInv, Work, Request, Book, WorkOK, KindsAt
<1>2. spent' \in [Kind -> Nat]
  BY <1>1 DEF Book, TypeInv, DataOK
<1>3. claims' \in Nat /\ soft' \in Nat
  BY <1>1 DEF Book, TypeInv, DataOK
<1>4. DataOK' /\ PendOK(pend', started') /\ started' = started /\ Go(c, "done")
  BY <1>2, <1>3 DEF Book, TypeInv, DataOK, savings, leash, risk, trail
<1>5. QED
  BY <1>1, <1>4, GoKeeps DEF Steps, KindsAt, Asking

\* Dropping what is parked keeps the types.
LEMMA TypeDone ==
  ASSUME TypeInv, NEW c \in Caller, Done(c)
  PROVE  TypeInv'
<1>1. started \in Nat /\ PendOK(NoReq, started) /\ h[c].pc = "done"
  BY MenuTyped DEF TypeInv, DataOK, PendOK, RequestOK, NoReq, Lookups, Done
<1>2. DataOK' /\ PendOK(pend', started') /\ started' = started
  BY <1>1, NoReqTyped DEF Done, TypeInv, DataOK, money, savings, leash, risk, trail
<1>3. CASE h[c].req.kind = "policy" /\ Decided(c, "pass")
  BY <1>1, <1>2, <1>3, DecidedKeeps DEF Verdict, KindsAt
<1>4. CASE Leave(c)
  BY <1>2, <1>4, LeaveKeeps
<1>5. QED
  BY <1>3, <1>4 DEF Done

\* The list of locks stays a list of amounts.
LEMMA TypePlaceLock ==
  ASSUME TypeInv, NEW c \in Caller, PlaceLock(c)
  PROVE  TypeInv'
<1>1. h[c].req.amt \in Nat /\ h[c].pc = "place" /\ h[c].req.kind = "lock"
  BY DEF TypeInv, Work, Request, PlaceLock, WorkOK, KindsAt
<1>2. locks' \in Seq(Nat)
  BY <1>1 DEF PlaceLock, TypeInv, DataOK
<1>3. loose' \in Nat
  BY <1>1 DEF PlaceLock, TypeInv, DataOK
<1>4. DataOK' /\ PendOK(pend', started') /\ started' = started
  BY <1>2, <1>3 DEF PlaceLock, TypeInv, DataOK, money, leash, risk, trail
<1>5. QED
  BY <1>1, <1>4, GoKeeps DEF PlaceLock, Steps, KindsAt, Asking

\* Revoking the rules leaves the list that is to be frozen in hand.
LEMMA TypeClearRules ==
  ASSUME TypeInv, NEW c \in Caller, ClearRules(c)
  PROVE  TypeInv'
<1> DEFINE t == [h[c] EXCEPT !.pc = "freeze", !.bal = 0]
<1>1. /\ h[c] \in Work /\ WorkOK(h[c], started) /\ h[c].pc = "clear" /\ started \in Nat
      /\ h[c].req \in Request
  BY MenuTyped DEF ClearRules, TypeInv, DataOK, Work
<1>2. h[c].left # <<>> /\ h[c].req.kind = "policy"
  BY <1>1, DraftIsSeq DEF WorkOK, RequestOK, KindsAt
<1>3. t \in Work /\ t.req = h[c].req /\ t.left = h[c].left /\ t.pc = "freeze"
  BY <1>1 DEF Work, Steps
<1>4. DataOK' /\ PendOK(pend', started') /\ started' = started
  BY <1>1, Quiet DEF ClearRules
<1>5. h' = [h EXCEPT ![c] = t]
  BY DEF ClearRules, Go, TypeInv
<1> HIDE DEF t
<1>6. WorkOK(t, started')
  BY <1>1, <1>2, <1>3, <1>4 DEF WorkOK, KindsAt, SumOK, Asking
<1>7. started' >= started
  BY <1>1, <1>4
<1>8. QED BY <1>3, <1>4, <1>5, <1>6, <1>7, TakeKeeps

\* A list of rules of which one is frozen is a list of rules, and the last one
\* ends it.
LEMMA RestOfRules ==
  ASSUME NEW s \in Seq(Rule), s # <<>>
  PROVE  Tail(s) \in Seq(Rule) /\ (Len(s) # 1 => Tail(s) # <<>>)
<1>1. Len(Tail(s)) = Len(s) - 1 /\ Len(s) \in Nat /\ Tail(s) \in Seq(Rule)
  OBVIOUS
<1>2. Len(s) # 0 /\ Len(<<>>) = 0
  BY EmptySeq
<1>3. QED BY <1>1, <1>2

\* Freezing one rule leaves the rest of the list, and a rule that is there already
\* ends the command.
LEMMA TypeFreezeRule ==
  ASSUME TypeInv, NEW c \in Caller, FreezeRule(c)
  PROVE  TypeInv'
<1> DEFINE at == IF Len(h[c].left) = 1 THEN "done" ELSE "freeze"
           t == [h[c] EXCEPT !.left = Tail(@), !.pc = at]
<1>1. /\ h[c] \in Work /\ WorkOK(h[c], started) /\ h[c].pc = "freeze" /\ started \in Nat
      /\ h[c].left \in Seq(Rule) /\ h[c].left # <<>> /\ h[c].req.kind = "policy"
  <2>1. h[c] \in Work /\ WorkOK(h[c], started) /\ h[c].pc = "freeze" /\ started \in Nat
    BY MenuTyped DEF FreezeRule, TypeInv, DataOK
  <2>2. h[c].left \in Seq(Rule)
    BY <2>1 DEF Work
  <2>3. QED BY <2>1, <2>2 DEF WorkOK, KindsAt
<1>2. DataOK' /\ PendOK(pend', started') /\ started' = started
  <2>1. frozen' = frozen /\ frozen \in Request
    BY DEF FreezeRule, TypeInv, DataOK
  <2>2. QED BY <2>1, Quiet DEF FreezeRule
<1>3. CASE Leave(c)
  BY <1>2, <1>3, LeaveKeeps
<1>4. CASE h' = [h EXCEPT ![c].left = Tail(@), ![c].pc = at]
  <2>1. Tail(h[c].left) \in Seq(Rule) /\ (at = "freeze" => Tail(h[c].left) # <<>>)
    BY <1>1, RestOfRules
  <2>2. at \in {"done", "freeze"}
    OBVIOUS
  <2>3. h' = [h EXCEPT ![c] = t]
    BY <1>4 DEF TypeInv
  <2> HIDE DEF at
  <2>4. t \in Work /\ t.req = h[c].req /\ t.left = Tail(h[c].left) /\ t.pc = at
    BY <1>1, <2>1, <2>2 DEF Work, Steps
  <2> HIDE DEF t
  <2>5. WorkOK(t, started')
    BY <1>1, <1>2, <2>1, <2>2, <2>4 DEF WorkOK, KindsAt, SumOK, Asking
  <2>6. started' >= started
    BY <1>1, <1>2
  <2>7. QED BY <1>2, <2>3, <2>4, <2>5, <2>6, TakeKeeps
<1>5. QED BY <1>3, <1>4 DEF FreezeRule

-----------------------------------------------------------------------------
(* What happens around the requests. *)

\* Deposits, maturing locks, deadlines and midnight keep the types.
LEMMA TypeAround ==
  ASSUME TypeInv, Deposit \/ Mature \/ RiskPasses \/ NewDay
  PROVE  TypeInv'
<1>1. CASE Deposit
  <2>1. DataOK' /\ PendOK(pend', started')
    BY <1>1 DEF Deposit, TypeInv, DataOK, savings, leash, risk, trail
  <2>2. QED BY <1>1, <2>1, HandsKept DEF Deposit
<1>2. CASE Mature
  <2>1. PICK i \in DOMAIN locks : locks' = RemoveAt(locks, i)
    BY <1>2 DEF Mature
  <2>2. locks \in Seq(Nat) /\ i \in 1 .. Len(locks) /\ Len(locks) \in Nat
    BY <2>1 DEF TypeInv, DataOK
  <2>3. SubSeq(locks, 1, i - 1) \in Seq(Nat)
    BY <2>2
  <2>4. SubSeq(locks, i + 1, Len(locks)) \in Seq(Nat)
    BY <2>2
  <2>5. locks' \in Seq(Nat)
    BY <2>1, <2>3, <2>4 DEF RemoveAt
  <2>6. burnt' \in {0, burnt} /\ loose' \in {0, loose}
    BY <1>2 DEF Mature
  <2>7. burnt' \in Nat /\ loose' \in Nat
    BY <2>6 DEF TypeInv, DataOK
  <2>8. DataOK' /\ PendOK(pend', started')
    BY <1>2, <2>5, <2>7 DEF Mature, TypeInv, DataOK, money, leash, risk, trail
  <2>9. QED BY <1>2, <2>8, HandsKept DEF Mature
<1>3. CASE RiskPasses
  <2>1. DataOK' /\ PendOK(pend', started')
    BY <1>3 DEF RiskPasses, TypeInv, DataOK, money, savings, leash, trail
  <2>2. QED BY <1>3, <2>1, HandsKept DEF RiskPasses
<1>4. CASE NewDay
  <2>1. spent' \in [Kind -> Nat]
    BY <1>4 DEF NewDay
  <2>2. DataOK' /\ PendOK(pend', started')
    BY <1>4, <2>1 DEF NewDay, TypeInv, DataOK, savings, leash, risk, trail
  <2>3. QED BY <1>4, <2>2, HandsKept DEF NewDay
<1>5. QED BY <1>1, <1>2, <1>3, <1>4

\* So do the other accounts: what they add to the trail is well formed.
LEMMA TypeForeign ==
  ASSUME TypeInv, NEW f \in Foreign, ForeignHead(f) \/ ForeignRecord(f)
  PROVE  TypeInv'
<1>1. audit \in Seq(Entry) /\ Len(audit) \in Nat /\ abroad \in [Foreign -> Nat \cup {NoHead}]
  BY DEF TypeInv, DataOK
<1>2. CASE ForeignHead(f)
  <2>1. abroad' \in [Foreign -> Nat \cup {NoHead}]
    BY <1>1, <1>2 DEF ForeignHead
  <2>2. DataOK' /\ PendOK(pend', started')
    BY <1>2, <2>1 DEF ForeignHead, TypeInv, DataOK, money, savings, leash, risk
  <2>3. QED BY <1>2, <2>2, HandsKept DEF ForeignHead
<1>3. CASE ForeignRecord(f)
  <2> DEFINE e == [prev |-> abroad[f], id |-> 0, verdict |-> "pass"]
  <2>1. abroad' \in [Foreign -> Nat \cup {NoHead}] /\ audit' = Append(audit, e)
    BY <1>1, <1>3 DEF ForeignRecord
  <2>2. e \in Entry
    BY <1>1, <1>3 DEF ForeignRecord, Entry
  <2>3. audit' \in Seq(Entry)
    BY <1>1, <2>1, <2>2
  <2>4. DataOK' /\ PendOK(pend', started')
    BY <1>3, <2>1, <2>3 DEF ForeignRecord, TypeInv, DataOK, money, savings, leash, risk
  <2>5. QED BY <1>3, <2>4, HandsKept DEF ForeignRecord
<1>4. QED BY <1>2, <1>3

\* A request that is cut off leaves an idle caller.
LEMMA TypeCrash ==
  ASSUME TypeInv, NEW c \in Caller, Crash(c)
  PROVE  TypeInv'
<1>1. crashes' \in 0 .. MaxCrash
  BY SpendingAssumption DEF Crash, TypeInv, DataOK
<1>2. DataOK' /\ PendOK(pend', started') /\ started' = started
  BY <1>1 DEF Crash, TypeInv, DataOK, money, savings, risk, trail
<1>3. QED BY <1>2, LeaveKeeps DEF Crash

\* A step that changes nothing keeps the types.
LEMMA TypeStutter ==
  ASSUME TypeInv, UNCHANGED vars
  PROVE  TypeInv'
  BY DEF vars, money, savings, leash, risk, trail, TypeInv, DataOK

\* The type invariant is inductive.
LEMMA TypeStep == TypeInv /\ [Next]_vars => TypeInv'
<1> SUFFICES ASSUME TypeInv, [Next]_vars PROVE TypeInv'
  OBVIOUS
<1>1. ASSUME NEW c \in Caller, Command(c) PROVE TypeInv'
  BY <1>1, TypeAsk, TypeAskPrice, TypeAskRate, TypeAskLock, TypeConfirm, TypeSetPolicy,
     TypeSimple DEF Command
<1>2. ASSUME NEW c \in Caller, Gate(c) PROVE TypeInv'
  BY <1>2, TypeCheckRules, TypeCheckLocks, TypeReadBalance, TypeCompareLocked, TypeReadSum,
     TypeReadHead, TypeRecord, TypePark DEF Gate
<1>3. ASSUME NEW c \in Caller, Step(c) PROVE TypeInv'
  BY <1>2, <1>3, TypeFetch, TypeClaimKey, TypeCheckCap, TypePay, TypeBook, TypeDone,
     TypePlaceLock, TypeClearRules, TypeFreezeRule DEF Step
<1>4. ASSUME NEW c \in Caller, Crash(c) PROVE TypeInv'
  BY <1>4, TypeCrash
<1>5. QED BY <1>1, <1>3, <1>4, TypeAround, TypeForeign, TypeStutter DEF Next

\* The inductive type invariant, and with it the one the runs check.
THEOREM SpendingTyped == Spec => []TypeInv
<1>1. QED BY TypeInit, TypeStep, PTL DEF Spec

\* Every reachable state of Spending is well typed: no balance or sum is ever
\* negative, and no request is paid whose key was not given out.
THEOREM TypeCorrect == Spec => []TypeOK
<1>1. QED BY SpendingTyped, TypeInvIsTypeOK, PTL

-----------------------------------------------------------------------------
(* What the macros make of a request in hand. *)

\* A caller that moves on keeps its request and what it has read, but for the
\* balance; nobody else moves.
LEMMA GoHands ==
  ASSUME TypeInv, NEW c \in Caller, NEW pc, Go(c, pc)
  PROVE  /\ \A d \in Caller \ {c} : h'[d] = h[d]
         /\ h'[c].pc = pc /\ h'[c].req = h[c].req /\ h'[c].verdict = h[c].verdict
         /\ h'[c].cool = h[c].cool /\ h'[c].head = h[c].head /\ h'[c].left = h[c].left
         /\ h'[c].unread = h[c].unread /\ h'[c].sum = h[c].sum
<1> DEFINE t == [h[c] EXCEPT !.pc = pc, !.bal = 0]
<1>1. h'[c] = t /\ \A d \in Caller \ {c} : h'[d] = h[d]
  BY DEF Go, TypeInv
<1>2. /\ t.pc = pc /\ t.req = h[c].req /\ t.verdict = h[c].verdict /\ t.cool = h[c].cool
      /\ t.head = h[c].head /\ t.left = h[c].left /\ t.unread = h[c].unread /\ t.sum = h[c].sum
  BY DEF TypeInv, Work
<1>3. QED BY <1>1, <1>2

\* A verdict changes the caller's verdict and its step, and nobody else.
LEMMA DecidedHands ==
  ASSUME TypeInv, NEW c \in Caller, NEW v, Decided(c, v)
  PROVE  /\ \A d \in Caller \ {c} : h'[d] = h[d]
         /\ h'[c].pc = "head" /\ h'[c].req = h[c].req /\ h'[c].verdict = v
<1> DEFINE t == [h[c] EXCEPT !.verdict = v, !.bal = 0, !.sum = 0, !.pc = "head"]
<1>1. h'[c] = t /\ \A d \in Caller \ {c} : h'[d] = h[d]
  BY DEF Decided, TypeInv
<1>2. t.pc = "head" /\ t.req = h[c].req /\ t.verdict = v
  BY DEF TypeInv, Work
<1>3. QED BY <1>1, <1>2

\* A command that ends leaves an idle caller, and nobody else moves.
LEMMA LeaveHands ==
  ASSUME TypeInv, NEW c \in Caller, Leave(c)
  PROVE  /\ \A d \in Caller \ {c} : h'[d] = h[d]
         /\ h'[c].pc = "idle" /\ h'[c].req = NoReq
  BY DEF Leave, TypeInv, Idle

\* A request that is asked for is not one of those in hand or parked.
LEMMA AskHands ==
  ASSUME TypeInv, NEW c \in Caller, Ask(c)
  PROVE  /\ \A d \in Caller \ {c} : h'[d] = h[d]
         /\ h[c].pc = "idle" /\ h'[c].req.id = started + 1
         /\ h'[c].pc \in {"head", "rules", "locks"}
         /\ h'[c].req.kind \in Spends
         /\ h'[c].cool = cooldown
         /\ cooldown /\ h'[c].req.amt > CooldownMax =>
              \/ h'[c].pc = "rules" /\ h'[c].req.kind = "send"
              \/ h'[c].pc = "head" /\ h'[c].verdict = "reject"
         /\ h'[c].pc = "head" => h'[c].verdict = "reject"
         /\ chilled' = IF cooldown /\ h'[c].req.amt > CooldownMax
                       THEN chilled \cup {started + 1} ELSE chilled
<1>1. PICK kind \in Spends, amt \in menu.amounts, to \in menu.payees \cup {None} :
        /\ Begin(c, kind) /\ started' = started + 1
        /\ LET v == FirstVerdict(kind, amt, Lim, cooldown)
               req == [NoReq EXCEPT !.kind = kind, !.id = started', !.amt = amt, !.to = to]
           IN  h' = [h EXCEPT ![c] =
                   [Idle EXCEPT !.req = req, !.cool = cooldown, !.called = callback,
                                !.verdict = IF v = "next" THEN "none" ELSE v,
                                !.unread = Counted(kind),
                                !.pc = IF v # "next" THEN "head"
                                       ELSE IF kind = "send" THEN "rules" ELSE "locks"]]
        /\ chilled' = IF cooldown /\ amt > CooldownMax THEN chilled \cup {started'} ELSE chilled
  BY DEF Ask
<1> DEFINE v == FirstVerdict(kind, amt, Lim, cooldown)
           req == [NoReq EXCEPT !.kind = kind, !.id = started', !.amt = amt, !.to = to]
<1>2. req.kind = kind /\ req.id = started' /\ req.amt = amt
  BY DEF NoReq
<1>3. v \in {"reject", "next"} /\ (cooldown /\ amt > CooldownMax /\ kind # "send" => v = "reject")
  BY DEF FirstVerdict
<1>4. h' = [h EXCEPT ![c] =
              [Idle EXCEPT !.req = req, !.cool = cooldown, !.called = callback,
                           !.verdict = IF v = "next" THEN "none" ELSE v,
                           !.unread = Counted(kind),
                           !.pc = IF v # "next" THEN "head"
                                  ELSE IF kind = "send" THEN "rules" ELSE "locks"]]
  BY <1>1
<1> HIDE DEF v, req
<1>5. /\ \A d \in Caller \ {c} : h'[d] = h[d]
      /\ h'[c].req = req /\ h'[c].cool = cooldown
      /\ h'[c].verdict = IF v = "next" THEN "none" ELSE v
      /\ h'[c].pc = IF v # "next" THEN "head" ELSE IF kind = "send" THEN "rules" ELSE "locks"
  BY <1>4 DEF TypeInv, Idle
<1>6. QED BY <1>1, <1>2, <1>3, <1>5 DEF Begin

\* A price lookup begins at its sum, under a number of its own.
LEMMA AskPriceHands ==
  ASSUME TypeInv, NEW c \in Caller, AskPrice(c)
  PROVE  /\ \A d \in Caller \ {c} : h'[d] = h[d]
         /\ h[c].pc = "idle" /\ h'[c].pc = "sums" /\ h'[c].req.id = started + 1
         /\ h'[c].req.kind = "price" /\ h'[c].req.amt = PriceChecked
  BY DEF AskPrice, Begin, TypeInv, Idle, NoReq

\* A rate check begins at its payment.
LEMMA AskRateHands ==
  ASSUME TypeInv, NEW c \in Caller, AskRate(c)
  PROVE  /\ \A d \in Caller \ {c} : h'[d] = h[d]
         /\ h[c].pc = "idle" /\ h'[c].pc = "fetch"
         /\ h'[c].req.id = started + 1 /\ h'[c].req.kind = "rate"
  BY DEF AskRate, Begin, TypeInv, Idle, NoReq

\* A savings lock begins with the balance.
LEMMA AskLockHands ==
  ASSUME TypeInv, NEW c \in Caller, AskLock(c)
  PROVE  /\ \A d \in Caller \ {c} : h'[d] = h[d]
         /\ h[c].pc = "idle" /\ h'[c].pc = "balance"
         /\ h'[c].req.id = started + 1 /\ h'[c].req.kind = "lock"
  BY DEF AskLock, Begin, TypeInv, Idle, NoReq

\* A confirmation has the parked request in hand, and a parked rule list to freeze.
LEMMA ConfirmHands ==
  ASSUME TypeInv, NEW c \in Caller, Confirm(c)
  PROVE  /\ \A d \in Caller \ {c} : h'[d] = h[d]
         /\ h[c].pc = "idle" /\ h'[c].pc \in {"clear", "place", "claim"}
         /\ h'[c].req = pend /\ h'[c].left = pend.draft
  BY DEF Confirm, Begin, TypeInv, Idle

\* A caller that reads the last entry remembers how long the trail was.
LEMMA ReadHeadHands ==
  ASSUME TypeInv, NEW c \in Caller, ReadHead(c)
  PROVE  /\ \A d \in Caller \ {c} : h'[d] = h[d]
         /\ h[c].pc = "head" /\ h'[c].pc = "insert" /\ h'[c].req = h[c].req
         /\ h'[c].verdict = h[c].verdict /\ h'[c].head = Len(audit)
  BY DEF ReadHead, TypeInv, Work

\* The balance a caller reads is the one there is.
LEMMA ReadBalanceHands ==
  ASSUME TypeInv, NEW c \in Caller, ReadBalance(c)
  PROVE  /\ \A d \in Caller \ {c} : h'[d] = h[d]
         /\ h[c].pc = "balance" /\ h'[c].pc = "locked" /\ h'[c].req = h[c].req
         /\ h'[c].bal = balance /\ h'[c].verdict = h[c].verdict
  BY DEF ReadBalance, TypeInv, Work

\* What is weighed goes on to the sums or is decided; only what is available is
\* let through.
LEMMA WeighHands ==
  ASSUME TypeInv, NEW c \in Caller, NEW available \in Nat, Weigh(c, available)
  PROVE  /\ \A d \in Caller \ {c} : h'[d] = h[d]
         /\ h'[c].req = h[c].req
         /\ \/ h'[c].pc = "sums" /\ h[c].req.amt <= available
            \/ /\ h'[c].pc = "head" /\ h'[c].verdict \in {"reject", "confirm"}
               /\ h'[c].verdict = "confirm" => h[c].req.amt <= available
<1> DEFINE r == h[c].req
           v == LockVerdict(r.kind, r.amt, Lim, available)
<1>1. r.amt \in Nat
  BY DEF TypeInv, Work, Request
<1>2. v \in {"reject", "confirm", "next"} /\ (v # "reject" => r.amt <= available)
  BY <1>1 DEF LockVerdict
<1>3. (v = "next" /\ Go(c, "sums")) \/ (v # "next" /\ Decided(c, v))
  BY DEF Weigh
<1> HIDE DEF v
<1>4. QED BY <1>2, <1>3, GoHands, DecidedHands

\* A caller that reads a sum goes on to the next one, or is decided with the last.
LEMMA ReadSumHands ==
  ASSUME TypeInv, NEW c \in Caller, ReadSum(c)
  PROVE  /\ \A d \in Caller \ {c} : h'[d] = h[d]
         /\ h[c].pc = "sums" /\ h'[c].req = h[c].req
         /\ \/ /\ Len(h[c].unread) = 1 /\ h'[c].pc = "head"
               /\ h'[c].verdict = SumVerdict(h[c].req.kind, h[c].req.amt, Lim,
                                             h[c].sum + spent[Head(h[c].unread)])
            \/ /\ Len(h[c].unread) # 1 /\ h'[c].pc = "sums" /\ h'[c].verdict = h[c].verdict
               /\ h'[c].unread = Tail(h[c].unread)
               /\ h'[c].sum = h[c].sum + spent[Head(h[c].unread)]
<1> DEFINE r == h[c].req
           already == h[c].sum + spent[Head(h[c].unread)]
           v == SumVerdict(r.kind, r.amt, Lim, already)
           t == [h[c] EXCEPT !.sum = already, !.unread = Tail(@)]
<1>1. h[c].pc = "sums"
  BY DEF ReadSum
<1>2. CASE Len(h[c].unread) = 1
  <2>1. Decided(c, v)
    BY <1>2 DEF ReadSum
  <2> HIDE DEF v
  <2>2. h'[c].pc = "head" /\ h'[c].req = r /\ h'[c].verdict = v
        /\ \A d \in Caller \ {c} : h'[d] = h[d]
    BY <2>1, DecidedHands
  <2>3. QED BY <1>1, <1>2, <2>2 DEF v
<1>3. CASE Len(h[c].unread) # 1
  <2>1. h'[c] = t /\ \A d \in Caller \ {c} : h'[d] = h[d]
    BY <1>3 DEF ReadSum, TypeInv
  <2>2. /\ t.pc = h[c].pc /\ t.req = r /\ t.verdict = h[c].verdict
        /\ t.unread = Tail(h[c].unread) /\ t.sum = already
    BY DEF TypeInv, Work
  <2>3. QED BY <1>1, <1>3, <2>1, <2>2
<1>4. QED BY <1>2, <1>3

\* A freeze takes the first rule off the list and ends with the last one, or with
\* a rule that is there already.
LEMMA FreezeRuleHands ==
  ASSUME TypeInv, NEW c \in Caller, FreezeRule(c)
  PROVE  /\ \A d \in Caller \ {c} : h'[d] = h[d]
         /\ h[c].pc = "freeze"
         /\ \/ /\ rules' = rules \cup {Head(h[c].left)} /\ refused' = refused
               /\ h'[c].pc \in {"done", "freeze"} /\ h'[c].req = h[c].req
               /\ h'[c].left = Tail(h[c].left)
               /\ h'[c].pc = "done" => Len(h[c].left) = 1
            \/ /\ rules' = rules /\ refused' = refused \cup {h[c].req.id}
               /\ h'[c].pc = "idle" /\ h'[c].req = NoReq
<1> DEFINE at == IF Len(h[c].left) = 1 THEN "done" ELSE "freeze"
           t == [h[c] EXCEPT !.left = Tail(@), !.pc = at]
<1>1. h[c].pc = "freeze"
  BY DEF FreezeRule
<1>2. CASE RuleId(c) \notin ids
  <2>1. /\ h' = [h EXCEPT ![c].left = Tail(@), ![c].pc = at]
        /\ rules' = rules \cup {Head(h[c].left)} /\ refused' = refused
    BY <1>2 DEF FreezeRule
  <2>2. h'[c] = t /\ \A d \in Caller \ {c} : h'[d] = h[d]
    BY <2>1 DEF TypeInv
  <2>3. t.pc = at /\ t.req = h[c].req /\ t.left = Tail(h[c].left)
    BY DEF TypeInv, Work
  <2>4. at \in {"done", "freeze"} /\ (at = "done" => Len(h[c].left) = 1)
    OBVIOUS
  <2> HIDE DEF t, at
  <2>5. QED BY <1>1, <2>1, <2>2, <2>3, <2>4
<1>3. CASE RuleId(c) \in ids
  BY <1>1, <1>3, LeaveHands DEF FreezeRule
<1>4. QED BY <1>2, <1>3

\* Whoever is in the gate keeps the request it has, or drops it.
LEMMA GateHands ==
  ASSUME TypeInv, NEW c \in Caller, Gate(c)
  PROVE  /\ \A d \in Caller \ {c} : h'[d] = h[d]
         /\ h'[c].req \in {h[c].req, NoReq}
<1>1. CASE CheckLocks(c) \/ CompareLocked(c)
  <2>1. \/ \E available : Weigh(c, available)
        \/ \E pc : Go(c, pc)
        \/ Leave(c)
    BY <1>1 DEF CheckLocks, CompareLocked
  <2>2. \/ \E pc : Go(c, pc)
        \/ \E v : Decided(c, v)
        \/ Leave(c)
    BY <2>1 DEF Weigh
  <2>3. QED BY <2>2, GoHands, DecidedHands, LeaveHands
<1>2. CASE CheckRules(c) \/ Record(c) \/ Park(c)
  <2>1. \/ \E pc : Go(c, pc)
        \/ \E v : Decided(c, v)
        \/ Leave(c)
    BY <1>2 DEF CheckRules, Record, Park
  <2>2. QED BY <2>1, GoHands, DecidedHands, LeaveHands
<1>3. CASE ReadBalance(c) \/ ReadSum(c) \/ ReadHead(c)
  BY <1>3, ReadBalanceHands, ReadSumHands, ReadHeadHands
<1>4. QED BY <1>1, <1>2, <1>3 DEF Gate

-----------------------------------------------------------------------------
(* No money moves for a request whose acceptance is not in the trail. *)

Audited(entries, id) ==
  \E i \in DOMAIN entries : entries[i].id = id /\ entries[i].verdict = "confirm"

AuditInv ==
  /\ \A id \in claimed : Audited(audit, id)
  /\ pend.kind \in Spends => Audited(audit, pend.id)
  /\ \A c \in Caller : h[c].pc \in {"park", "claim"} /\ h[c].req.kind \in Spends
        => Audited(audit, h[c].req.id)

\* Nothing is claimed or parked before the first command.
LEMMA AuditInit == Init => AuditInv
  BY DEF Init, AuditInv, Idle, NoReq, Spends

\* A step that writes no entry, claims no key and takes no request to be parked
\* or claimed.
LEMMA AuditFrame ==
  ASSUME AuditInv, claimed' = claimed, audit' = audit,
         pend' = pend \/ pend'.kind \notin Spends,
         NEW c \in Caller, \A d \in Caller \ {c} : h'[d] = h[d],
         h'[c].pc \notin {"park", "claim"} \/ h'[c].req.kind \notin Spends
  PROVE  AuditInv'
  BY DEF AuditInv

\* An entry only adds to what is audited.
LEMMA AuditAppend ==
  ASSUME TypeInv, NEW e, audit' = Append(audit, e)
  PROVE  /\ \A id : Audited(audit, id) => Audited(audit', id)
         /\ e.verdict = "confirm" => Audited(audit', e.id)
<1>1. audit \in Seq(Entry)
  BY DEF TypeInv, DataOK
<1>2. /\ DOMAIN audit' = 1 .. Len(audit) + 1 /\ DOMAIN audit = 1 .. Len(audit)
      /\ Len(audit) \in Nat
      /\ \A i \in 1 .. Len(audit) : audit'[i] = audit[i]
      /\ audit'[Len(audit) + 1] = e
  BY <1>1
<1>3. ASSUME NEW id, Audited(audit, id) PROVE Audited(audit', id)
  BY <1>2, <1>3 DEF Audited
<1>4. e.verdict = "confirm" => Audited(audit', e.id)
  BY <1>2 DEF Audited
<1>5. QED BY <1>3, <1>4

\* A request whose acceptance is written goes on as an audited one.
LEMMA AuditRecord ==
  ASSUME TypeInv, AuditInv, NEW c \in Caller, Record(c)
  PROVE  AuditInv'
<1> DEFINE e == [prev |-> h[c].head, id |-> h[c].req.id, verdict |-> h[c].verdict]
<1>1. audit' = Append(audit, e) /\ UNCHANGED <<pend, claimed>>
  BY DEF Record, money
<1>2. e.id = h[c].req.id /\ e.verdict = h[c].verdict
  OBVIOUS
<1> HIDE DEF e
<1>3. /\ \A id : Audited(audit, id) => Audited(audit', id)
      /\ h[c].verdict = "confirm" => Audited(audit', h[c].req.id)
  BY <1>1, <1>2, AuditAppend
<1>4. /\ \A d \in Caller \ {c} : h'[d] = h[d]
      /\ \/ h'[c].pc = "park" /\ h[c].verdict = "confirm" /\ h'[c].req = h[c].req
         \/ h'[c].pc \in {"fetch", "idle"}
  BY GoHands, LeaveHands DEF Record
<1>5. QED BY <1>1, <1>3, <1>4 DEF AuditInv

\* A key is claimed for a request whose acceptance is in the trail.
LEMMA AuditClaimKey ==
  ASSUME TypeInv, AuditInv, NEW c \in Caller, ClaimKey(c)
  PROVE  AuditInv'
<1>1. WorkOK(h[c], started) /\ h[c].pc = "claim"
  BY DEF TypeInv, ClaimKey
<1>2. Audited(audit, h[c].req.id)
  BY <1>1 DEF WorkOK, KindsAt, AuditInv
<1>3. /\ \A d \in Caller \ {c} : h'[d] = h[d]
      /\ h'[c].pc \in {"idle", "cap", "pay"}
  BY GoHands, LeaveHands DEF ClaimKey
<1>4. QED BY <1>2, <1>3 DEF ClaimKey, trail, AuditInv

\* Every step keeps it: most leave the trail, the keys and the requests in hand alone.
LEMMA AuditStep == TypeInv /\ AuditInv /\ [Next]_vars => AuditInv'
<1> SUFFICES ASSUME TypeInv, AuditInv, [Next]_vars PROVE AuditInv'
  OBVIOUS
<1>0. NoReq.kind \notin Spends
  BY DEF NoReq, Spends
<1>1. ASSUME NEW c \in Caller, Command(c) PROVE AuditInv'
  <2>1. CASE Ask(c)
    BY <2>1, AskHands, AuditFrame DEF Ask, money, trail
  <2>2. CASE AskPrice(c)
    BY <2>2, AskPriceHands, AuditFrame DEF AskPrice, money, trail
  <2>3. CASE AskRate(c) \/ AskLock(c)
    BY <2>3, AskRateHands, AskLockHands, AuditFrame DEF AskRate, AskLock, money, trail
  <2>4. CASE SetPolicy(c)
    <3>1. pend'.kind = "policy"
      BY <2>4 DEF SetPolicy, NoReq
    <3>2. QED BY <2>4, <3>1 DEF SetPolicy, money, trail, AuditInv, Spends
  <2>5. CASE ClearPolicy(c) \/ ReportSim(c) \/ Callback(c)
    BY <2>5 DEF ClearPolicy, ReportSim, Callback, money, trail, AuditInv
  <2>6. CASE Cancel(c)
    BY <1>0, <2>6 DEF Cancel, money, trail, AuditInv
  <2>7. CASE Confirm(c)
    <3>1. UNCHANGED <<audit, claimed, pend>>
      BY <2>7 DEF Confirm, money, trail
    <3>2. QED BY <2>7, <3>1, ConfirmHands DEF AuditInv
  <2>8. QED BY <1>1, <2>1, <2>2, <2>3, <2>4, <2>5, <2>6, <2>7 DEF Command
<1>2. ASSUME NEW c \in Caller, Gate(c) PROVE AuditInv'
  <2>1. CASE CheckRules(c) \/ CheckLocks(c) \/ ReadBalance(c) \/ ReadSum(c) \/ ReadHead(c)
    <3>1. h'[c].pc \notin {"park", "claim"}
      BY <2>1, GoHands, DecidedHands, ReadBalanceHands, ReadSumHands, ReadHeadHands
         DEF CheckRules, CheckLocks, Weigh
    <3>2. UNCHANGED <<audit, claimed, pend>>
      BY <2>1 DEF CheckRules, CheckLocks, ReadBalance, ReadSum, ReadHead, money, trail
    <3>3. QED BY <1>2, <3>1, <3>2, GateHands, AuditFrame
  <2>2. CASE CompareLocked(c)
    <3>1. h'[c].pc \notin {"park", "claim"} \/ h'[c].req.kind \notin Spends
      BY <2>2, GoHands, DecidedHands, LeaveHands DEF CompareLocked, Weigh, Spends
    <3>2. UNCHANGED <<audit, claimed, pend>>
      BY <2>2 DEF CompareLocked, money, trail
    <3>3. QED BY <1>2, <3>1, <3>2, GateHands, AuditFrame
  <2>3. CASE Record(c)
    BY <2>3, AuditRecord
  <2>4. CASE Park(c)
    <3>1. h[c].pc = "park" /\ pend' = h[c].req /\ UNCHANGED <<audit, claimed>>
      BY <2>4 DEF Park, money, trail
    <3>2. QED BY <2>4, <3>1, LeaveHands DEF Park, AuditInv
  <2>5. QED BY <1>2, <2>1, <2>2, <2>3, <2>4 DEF Gate
<1>3. ASSUME NEW c \in Caller, Step(c) PROVE AuditInv'
  <2>1. CASE CheckCap(c) \/ Fetch(c) \/ Pay(c) \/ Book(c) \/ PlaceLock(c) \/ ClearRules(c)
    <3>1. h'[c].pc \in {"pay", "book", "done", "freeze", "idle"}
          /\ \A d \in Caller \ {c} : h'[d] = h[d]
      BY <2>1, GoHands, LeaveHands DEF CheckCap, Fetch, Pay, Book, PlaceLock, ClearRules
    <3>2. UNCHANGED <<audit, claimed, pend>>
      BY <2>1 DEF CheckCap, Fetch, Pay, Book, PlaceLock, ClearRules, money, trail
    <3>3. QED BY <3>1, <3>2, AuditFrame
  <2>2. CASE ClaimKey(c)
    BY <2>2, AuditClaimKey
  <2>3. CASE Done(c)
    <3>1. h'[c].pc \in {"head", "idle"} /\ \A d \in Caller \ {c} : h'[d] = h[d]
      BY <2>3, DecidedHands, LeaveHands DEF Done
    <3>2. QED BY <1>0, <2>3, <3>1, AuditFrame DEF Done, money, trail
  <2>4. CASE FreezeRule(c)
    <3>1. h'[c].pc \notin {"park", "claim"} /\ \A d \in Caller \ {c} : h'[d] = h[d]
      BY <2>4, FreezeRuleHands
    <3>2. QED BY <2>4, <3>1, AuditFrame DEF FreezeRule, money, trail
  <2>5. QED BY <1>2, <1>3, <2>1, <2>2, <2>3, <2>4 DEF Step
<1>4. ASSUME NEW c \in Caller, Crash(c) PROVE AuditInv'
  BY <1>4, LeaveHands, AuditFrame DEF Crash, money, trail
<1>5. ASSUME NEW f \in Foreign, ForeignHead(f) \/ ForeignRecord(f) PROVE AuditInv'
  <2>1. audit' = audit \/ \E e : audit' = Append(audit, e)
    BY <1>5 DEF ForeignHead, ForeignRecord
  <2>2. \A id : Audited(audit, id) => Audited(audit', id)
    BY <2>1, AuditAppend
  <2>3. UNCHANGED <<claimed, pend, h>>
    BY <1>5 DEF ForeignHead, ForeignRecord, money
  <2>4. QED BY <2>2, <2>3 DEF AuditInv
<1>6. CASE Deposit \/ Mature \/ RiskPasses \/ NewDay
  BY <1>6 DEF Deposit, Mature, RiskPasses, NewDay, money, trail, AuditInv
<1>7. CASE UNCHANGED vars
  BY <1>7 DEF vars, money, trail, AuditInv
<1>8. QED BY <1>1, <1>3, <1>4, <1>5, <1>6, <1>7 DEF Next

\* Whatever runs at the same time and wherever a request is cut off: nothing is
\* paid that the gate has not accepted, with an entry in the trail to show it.
THEOREM PaidOnlyAudited == Spec => []PaidIsAudited
<1>1. AuditInv => PaidIsAudited
  BY DEF AuditInv, PaidIsAudited, Audited
<1>2. QED BY <1>1, AuditInit, AuditStep, SpendingTyped, PTL DEF Spec

-----------------------------------------------------------------------------
(* What is asked for during a cool-down stays under its limit. *)

\* A request above the limit is on its way to being turned down.
Doomed(t) ==
  \/ t.pc = "rules" /\ t.req.kind = "send" /\ t.cool /\ t.req.amt > CooldownMax
  \/ t.pc \in {"head", "insert"} /\ t.verdict = "reject"

ChillInv ==
  /\ chilled \cap claimed = {}
  /\ pend.id \notin chilled
  /\ \A c \in Caller : h[c].req.id \in chilled => Doomed(h[c])

\* No request has been made during a cool-down at first.
LEMMA ChillInit == Init => ChillInv
  BY DEF Init, ChillInv

\* A step in which the caller takes up no request that is above the limit.
LEMMA ChillFrame ==
  ASSUME ChillInv, chilled' = chilled, claimed' = claimed,
         pend' = pend \/ pend'.id \notin chilled,
         NEW c \in Caller, \A d \in Caller \ {c} : h'[d] = h[d],
         h'[c].req.id \notin chilled \/ Doomed(h'[c])
  PROVE  ChillInv'
  BY DEF ChillInv

\* Keys are numbers, and those above the limit were given out.
LEMMA ChillKeys ==
  ASSUME TypeInv
  PROVE  /\ started \in Nat /\ chilled \subseteq 1 .. started /\ claimed \subseteq 1 .. started
         /\ pend.id \in 0 .. started /\ NoReq.id \notin chilled /\ 0 \notin chilled
         /\ \A c \in Caller : h[c].req.id \in 0 .. started
<1>1. started \in Nat /\ chilled \subseteq 1 .. started /\ claimed \subseteq 1 .. started
  BY MenuTyped DEF TypeInv, DataOK
<1>2. pend.id \in 0 .. started
  BY <1>1 DEF TypeInv, DataOK, Request, PendOK, RequestOK
<1>3. ASSUME NEW c \in Caller PROVE h[c].req.id \in 0 .. started
  BY <1>1 DEF TypeInv, Work, Request, WorkOK, RequestOK
<1>4. NoReq.id \notin chilled /\ 0 \notin chilled
  BY <1>1 DEF NoReq
<1>5. QED BY <1>1, <1>2, <1>3, <1>4

\* A request made during a cool-down is refused at once or carries it to its rules.
LEMMA ChillAsk ==
  ASSUME TypeInv, ChillInv, NEW c \in Caller, Ask(c)
  PROVE  ChillInv'
<1>1. /\ started + 1 \notin claimed /\ started + 1 \notin chilled /\ pend.id # started + 1
      /\ \A d \in Caller : h[d].req.id # started + 1
  BY ChillKeys
<1>2. claimed' = claimed /\ pend' = pend
  BY DEF Ask, money
<1>3. CASE cooldown /\ h'[c].req.amt > CooldownMax
  <2>1. Doomed(h'[c]) /\ chilled' = chilled \cup {started + 1}
    BY <1>3, AskHands DEF Doomed
  <2>2. \A d \in Caller \ {c} : h'[d] = h[d]
    BY AskHands
  <2>3. QED BY <1>1, <1>2, <2>1, <2>2 DEF ChillInv
<1>4. CASE ~(cooldown /\ h'[c].req.amt > CooldownMax)
  <2>1. chilled' = chilled /\ h'[c].req.id \notin chilled
    BY <1>1, <1>4, AskHands
  <2>2. QED BY <1>2, <2>1, AskHands, ChillFrame
<1>5. QED BY <1>3, <1>4

\* A request above the limit that carries the cool-down is refused by the check.
LEMMA ChillCheckRules ==
  ASSUME TypeInv, ChillInv, NEW c \in Caller, CheckRules(c)
  PROVE  ChillInv'
<1> DEFINE r == h[c].req
           v == RiskVerdict(r.amt, Lim, RulesRefuse(rules, r.amt, r.to, paid),
                            h[c].cool, h[c].called)
<1>1. UNCHANGED <<chilled, claimed, pend>> /\ h[c].pc = "rules"
  BY DEF CheckRules, money, risk
<1>2. CASE r.id \in chilled
  <2>1. h[c].cool /\ r.amt > CooldownMax
    BY <1>1, <1>2 DEF ChillInv, Doomed
  <2>2. v = "reject"
    BY <2>1 DEF RiskVerdict
  <2>3. Decided(c, "reject")
    BY <2>2 DEF CheckRules
  <2>4. Doomed(h'[c]) /\ \A d \in Caller \ {c} : h'[d] = h[d]
    BY <2>3, DecidedHands DEF Doomed
  <2>5. QED BY <1>1, <2>4, ChillFrame
<1>3. CASE r.id \notin chilled
  <2>1. h'[c].req = r /\ \A d \in Caller \ {c} : h'[d] = h[d]
    BY GoHands, DecidedHands DEF CheckRules
  <2>2. QED BY <1>1, <1>3, <2>1, ChillFrame
<1>4. QED BY <1>2, <1>3

\* What was refused ends when its entry is written.
LEMMA ChillRecord ==
  ASSUME TypeInv, ChillInv, NEW c \in Caller, Record(c)
  PROVE  ChillInv'
<1>1. UNCHANGED <<chilled, claimed, pend>> /\ h[c].pc = "insert"
  BY DEF Record, money, risk
<1>2. h'[c].req.id \notin chilled /\ \A d \in Caller \ {c} : h'[d] = h[d]
  <2>1. CASE h[c].req.id \in chilled
    <3>1. h[c].verdict = "reject"
      BY <1>1, <2>1 DEF ChillInv, Doomed
    <3>2. Leave(c)
      BY <3>1 DEF Record
    <3>3. QED BY <3>2, LeaveHands, ChillKeys
  <2>2. CASE h[c].req.id \notin chilled
    BY <2>2, GoHands, LeaveHands, ChillKeys DEF Record
  <2>3. QED BY <2>1, <2>2
<1>3. QED BY <1>1, <1>2, ChillFrame

\* Every step keeps it.
LEMMA ChillStep == TypeInv /\ ChillInv /\ [Next]_vars => ChillInv'
<1> SUFFICES ASSUME TypeInv, ChillInv, [Next]_vars PROVE ChillInv'
  OBVIOUS
<1>1. ASSUME NEW c \in Caller, Command(c) PROVE ChillInv'
  <2>1. CASE Ask(c)
    BY <2>1, ChillAsk
  <2>2. CASE AskPrice(c) \/ AskRate(c) \/ AskLock(c)
    <3>1. UNCHANGED <<chilled, claimed, pend>>
      BY <2>2 DEF AskPrice, AskRate, AskLock, money, risk
    <3>2. started + 1 \notin chilled
      BY ChillKeys
    <3>3. h'[c].req.id \notin chilled /\ \A d \in Caller \ {c} : h'[d] = h[d]
      BY <2>2, <3>2, AskPriceHands, AskRateHands, AskLockHands
    <3>4. QED BY <3>1, <3>3, ChillFrame
  <2>3. CASE SetPolicy(c)
    <3>1. pend'.id = started + 1 /\ UNCHANGED <<chilled, claimed, h>>
      BY <2>3 DEF SetPolicy, NoReq, money, risk
    <3>2. started + 1 \notin chilled
      BY ChillKeys
    <3>3. QED BY <3>1, <3>2 DEF ChillInv
  <2>4. CASE ClearPolicy(c) \/ ReportSim(c) \/ Callback(c)
    BY <2>4 DEF ClearPolicy, ReportSim, Callback, money, risk, ChillInv
  <2>5. CASE Cancel(c)
    BY <2>5, ChillKeys DEF Cancel, money, risk, ChillInv
  <2>6. CASE Confirm(c)
    <3>1. UNCHANGED <<chilled, claimed, pend>>
      BY <2>6 DEF Confirm, money, risk
    <3>2. h'[c].req.id \notin chilled
      BY <2>6, ConfirmHands DEF ChillInv
    <3>3. QED BY <2>6, <3>1, <3>2, ConfirmHands, ChillFrame
  <2>7. QED BY <1>1, <2>1, <2>2, <2>3, <2>4, <2>5, <2>6 DEF Command
<1>2. ASSUME NEW c \in Caller, Gate(c) PROVE ChillInv'
  <2>1. CASE CheckRules(c)
    BY <2>1, ChillCheckRules
  <2>2. CASE CheckLocks(c) \/ ReadBalance(c) \/ CompareLocked(c) \/ ReadSum(c)
    <3>1. h[c].pc \notin {"rules", "head", "insert"} /\ UNCHANGED <<chilled, claimed, pend>>
      BY <2>2 DEF CheckLocks, ReadBalance, CompareLocked, ReadSum, money, risk
    <3>2. h[c].req.id \notin chilled
      BY <3>1 DEF ChillInv, Doomed
    <3>3. QED BY <1>2, <3>1, <3>2, GateHands, ChillKeys, ChillFrame
  <2>3. CASE ReadHead(c)
    <3>1. UNCHANGED <<chilled, claimed, pend>>
      BY <2>3 DEF ReadHead, money, risk
    <3>2. h'[c].req.id \notin chilled \/ Doomed(h'[c])
      BY <2>3, ReadHeadHands DEF ChillInv, Doomed
    <3>3. QED BY <2>3, <3>1, <3>2, ReadHeadHands, ChillFrame
  <2>4. CASE Record(c)
    BY <2>4, ChillRecord
  <2>5. CASE Park(c)
    <3>1. h[c].pc = "park" /\ pend' = h[c].req /\ UNCHANGED <<chilled, claimed>>
      BY <2>5 DEF Park, money, risk
    <3>2. h[c].req.id \notin chilled
      BY <3>1 DEF ChillInv, Doomed
    <3>3. QED BY <2>5, <3>1, <3>2, LeaveHands, ChillKeys, ChillFrame DEF Park
  <2>6. QED BY <1>2, <2>1, <2>2, <2>3, <2>4, <2>5 DEF Gate
<1>3. ASSUME NEW c \in Caller, Step(c) PROVE ChillInv'
  <2>1. CASE CheckCap(c) \/ Fetch(c) \/ Pay(c) \/ Book(c) \/ PlaceLock(c) \/ ClearRules(c)
    <3>1. h[c].pc \notin {"rules", "head", "insert"} /\ UNCHANGED <<chilled, claimed, pend>>
      BY <2>1 DEF CheckCap, Fetch, Pay, Book, PlaceLock, ClearRules, money, risk
    <3>2. h[c].req.id \notin chilled
      BY <3>1 DEF ChillInv, Doomed
    <3>3. h'[c].req \in {h[c].req, NoReq} /\ \A d \in Caller \ {c} : h'[d] = h[d]
      <4>1. (\E pc : Go(c, pc)) \/ Leave(c)
        BY <2>1 DEF CheckCap, Fetch, Pay, Book, PlaceLock, ClearRules
      <4>2. QED BY <4>1, GoHands, LeaveHands
    <3>4. QED BY <3>1, <3>2, <3>3, ChillKeys, ChillFrame
  <2>2. CASE ClaimKey(c)
    <3>1. h[c].pc = "claim" /\ claimed' = claimed \cup {h[c].req.id} /\ UNCHANGED <<chilled, pend>>
      BY <2>2 DEF ClaimKey, risk
    <3>2. h[c].req.id \notin chilled
      BY <3>1 DEF ChillInv, Doomed
    <3>3. h'[c].req \in {h[c].req, NoReq} /\ \A d \in Caller \ {c} : h'[d] = h[d]
      BY <2>2, GoHands, LeaveHands DEF ClaimKey
    <3>4. QED BY <3>1, <3>2, <3>3, ChillKeys DEF ChillInv
  <2>3. CASE Done(c)
    <3>1. h[c].pc = "done" /\ pend' = NoReq /\ UNCHANGED <<chilled, claimed>>
      BY <2>3 DEF Done, money, risk
    <3>2. h[c].req.id \notin chilled
      BY <3>1 DEF ChillInv, Doomed
    <3>3. h'[c].req \in {h[c].req, NoReq} /\ \A d \in Caller \ {c} : h'[d] = h[d]
      BY <2>3, DecidedHands, LeaveHands DEF Done
    <3>4. QED BY <3>1, <3>2, <3>3, ChillKeys, ChillFrame
  <2>4. CASE FreezeRule(c)
    <3>1. UNCHANGED <<chilled, claimed, pend>>
      BY <2>4 DEF FreezeRule, money, risk
    <3>2. h[c].req.id \notin chilled
      BY <2>4 DEF FreezeRule, ChillInv, Doomed
    <3>3. h'[c].req \in {h[c].req, NoReq} /\ \A d \in Caller \ {c} : h'[d] = h[d]
      BY <2>4, FreezeRuleHands
    <3>4. QED BY <3>1, <3>2, <3>3, ChillKeys, ChillFrame
  <2>5. QED BY <1>2, <1>3, <2>1, <2>2, <2>3, <2>4 DEF Step
<1>4. ASSUME NEW c \in Caller, Crash(c) PROVE ChillInv'
  BY <1>4, LeaveHands, ChillKeys, ChillFrame DEF Crash, money, risk
<1>5. CASE Deposit \/ Mature \/ RiskPasses \/ NewDay \/ UNCHANGED vars
           \/ \E f \in Foreign : ForeignHead(f) \/ ForeignRecord(f)
  <2>1. UNCHANGED <<chilled, claimed, pend, h>>
    BY <1>5 DEF Deposit, Mature, RiskPasses, NewDay, ForeignHead, ForeignRecord, money, risk, vars
  <2>2. QED BY <2>1 DEF ChillInv
<1>6. QED BY <1>1, <1>3, <1>4, <1>5 DEF Next

\* A request above the cool-down's limit that is made while it lasts is never
\* paid, neither then nor after it, and a call back does not change that.
THEOREM CooldownAlwaysBinds == Spec => []CooldownBinds
<1>1. ChillInv => CooldownBinds
  BY DEF ChillInv, CooldownBinds
<1>2. QED BY <1>1, ChillInit, ChillStep, SpendingTyped, PTL DEF Spec

-----------------------------------------------------------------------------
(* The rules confirmed last are in force, or still being written.           *)

\* A step that leaves the rules and whoever writes them alone.
LEMMA FrozenFrame ==
  ASSUME FrozenRulesHold, UNCHANGED <<rules, frozen, cut, refused>>,
         NEW c \in Caller, \A d \in Caller \ {c} : h'[d] = h[d], h[c].pc # "freeze"
  PROVE  FrozenRulesHold'
<1>1. BeingWritten \subseteq BeingWritten'
  BY DEF BeingWritten
<1>2. QED BY <1>1 DEF FrozenRulesHold

\* The first rule of a list that is taken off leaves the others.
LEMMA RulesLeft ==
  ASSUME NEW s \in Seq(Rule), s # <<>>
  PROVE  /\ ToSet(s) \subseteq ToSet(Tail(s)) \cup {Head(s)}
         /\ Len(s) = 1 => ToSet(Tail(s)) = {}
<1>1. /\ Len(s) \in Nat /\ DOMAIN s = 1 .. Len(s) /\ s[1] = Head(s)
      /\ Len(Tail(s)) = Len(s) - 1 /\ DOMAIN Tail(s) = 1 .. Len(s) - 1
      /\ \A i \in 1 .. Len(s) - 1 : Tail(s)[i] = s[i + 1]
  BY HeadTailProperties
<1>2. ASSUME NEW x \in ToSet(s), x # Head(s) PROVE x \in ToSet(Tail(s))
  <2>1. PICK i \in 1 .. Len(s) : s[i] = x
    BY <1>1 DEF ToSet
  <2>2. i # 1
    BY <1>1, <1>2, <2>1
  <2>3. i - 1 \in 1 .. Len(s) - 1 /\ (i - 1) + 1 = i
    BY <1>1, <2>1, <2>2
  <2>4. Tail(s)[i - 1] = x
    BY <1>1, <2>1, <2>3
  <2>5. QED BY <1>1, <2>3, <2>4 DEF ToSet
<1>3. Len(s) = 1 => ToSet(Tail(s)) = {}
  BY <1>1 DEF ToSet
<1>4. QED BY <1>2, <1>3

\* The rule that leaves a caller's list is in force from then on; a rule that is
\* there already makes the policy one that was refused.
LEMMA FrozenFreezeRule ==
  ASSUME TypeInv, FrozenRulesHold, NEW c \in Caller, FreezeRule(c)
  PROVE  FrozenRulesHold'
<1> DEFINE s == h[c].left
<1>1. s \in Seq(Rule) /\ s # <<>> /\ h[c].pc = "freeze"
  BY DEF FreezeRule, TypeInv, WorkOK, Work
<1>2. UNCHANGED <<frozen, cut>> /\ \A d \in Caller \ {c} : h'[d] = h[d]
  BY FreezeRuleHands DEF FreezeRule
<1>3. CASE /\ rules' = rules \cup {Head(s)} /\ refused' = refused
           /\ h'[c].pc \in {"done", "freeze"} /\ h'[c].req = h[c].req
           /\ h'[c].left = Tail(s) /\ (h'[c].pc = "done" => Len(s) = 1)
  <2>1. ToSet(s) \subseteq ToSet(Tail(s)) \cup {Head(s)} /\ (Len(s) = 1 => ToSet(Tail(s)) = {})
    BY <1>1, RulesLeft
  <2> HIDE DEF s
  <2>2. ASSUME NEW x \in BeingWritten PROVE x \in rules' \cup BeingWritten'
    <3>1. PICK d \in Caller : h[d].pc = "freeze" /\ h[d].req.id = frozen.id /\ x \in ToSet(h[d].left)
      BY <2>2 DEF BeingWritten
    <3>2. CASE d # c
      <4>1. h'[d] = h[d]
        BY <1>2, <3>2
      <4>2. QED BY <1>2, <3>1, <4>1 DEF BeingWritten
    <3>3. CASE d = c
      <4>1. x \in ToSet(Tail(s)) \cup {Head(s)} /\ h'[c].req.id = frozen'.id
        BY <1>2, <1>3, <2>1, <3>1, <3>3 DEF s
      <4>2. CASE x = Head(s)
        BY <1>3, <4>2
      <4>3. CASE x \in ToSet(Tail(s))
        <5>1. h'[c].pc = "freeze" /\ x \in ToSet(h'[c].left)
          BY <1>3, <2>1, <4>3
        <5>2. QED BY <4>1, <5>1 DEF BeingWritten
      <4>4. QED BY <4>1, <4>2, <4>3
    <3>4. QED BY <3>2, <3>3
  <2>3. rules \subseteq rules'
    BY <1>3
  <2>4. QED BY <1>2, <1>3, <2>2, <2>3 DEF FrozenRulesHold
<1>4. CASE /\ rules' = rules /\ refused' = refused \cup {h[c].req.id}
           /\ h'[c].pc = "idle"
  <2>1. SUFFICES ASSUME frozen.id \notin refused' PROVE ToSet(frozen.draft) \subseteq rules' \cup cut' \cup BeingWritten'
    BY <1>2 DEF FrozenRulesHold
  <2>2. h[c].req.id # frozen.id /\ frozen.id \notin refused
    BY <1>4, <2>1
  <2>3. BeingWritten \subseteq BeingWritten'
    BY <1>2, <2>2 DEF BeingWritten
  <2>4. QED BY <1>2, <1>4, <2>2, <2>3 DEF FrozenRulesHold
<1>5. QED BY <1>3, <1>4, FreezeRuleHands

\* A confirmed policy is being written from the step on that revokes the others.
LEMMA FrozenClearRules ==
  ASSUME TypeInv, NEW c \in Caller, ClearRules(c)
  PROVE  FrozenRulesHold'
<1>1. WorkOK(h[c], started) /\ h[c].pc = "clear"
  BY DEF TypeInv, ClearRules
<1>2. h[c].left = h[c].req.draft /\ frozen' = h[c].req /\ Go(c, "freeze")
  BY <1>1 DEF ClearRules, WorkOK
<1>3. h'[c].pc = "freeze" /\ h'[c].left = frozen'.draft /\ h'[c].req.id = frozen'.id
  BY <1>2, GoHands
<1>4. ToSet(frozen'.draft) \subseteq BeingWritten'
  BY <1>3 DEF BeingWritten
<1>5. QED BY <1>4 DEF FrozenRulesHold

\* What a crash kept from the confirmed policy is counted.
LEMMA FrozenCrash ==
  ASSUME TypeInv, FrozenRulesHold, NEW c \in Caller, Crash(c)
  PROVE  FrozenRulesHold'
<1>1. /\ \A d \in Caller \ {c} : h'[d] = h[d]
      /\ UNCHANGED <<rules, frozen, refused>>
      /\ cut' = IF h[c].pc = "freeze" /\ h[c].req.id = frozen.id
                THEN cut \cup ToSet(h[c].left) ELSE cut
  BY LeaveHands DEF Crash
<1>2. BeingWritten \subseteq BeingWritten' \cup cut'
  <2>1. ASSUME NEW x \in BeingWritten PROVE x \in BeingWritten' \cup cut'
    <3>1. PICK d \in Caller : h[d].pc = "freeze" /\ h[d].req.id = frozen.id /\ x \in ToSet(h[d].left)
      BY <2>1 DEF BeingWritten
    <3>2. CASE d = c
      BY <1>1, <3>1, <3>2
    <3>3. CASE d # c
      <4>1. h'[d] = h[d]
        BY <1>1, <3>3
      <4>2. QED BY <1>1, <3>1, <4>1 DEF BeingWritten
    <3>4. QED BY <3>2, <3>3
  <2>2. QED BY <2>1
<1>3. cut \subseteq cut'
  BY <1>1
<1>4. QED BY <1>1, <1>2, <1>3 DEF FrozenRulesHold

\* Every step keeps it: rules are only taken away together with the confirmed list.
LEMMA FrozenStep == TypeInv /\ FrozenRulesHold /\ [Next]_vars => FrozenRulesHold'
<1> SUFFICES ASSUME TypeInv, FrozenRulesHold, [Next]_vars PROVE FrozenRulesHold'
  OBVIOUS
<1>1. ASSUME NEW c \in Caller, Command(c) PROVE FrozenRulesHold'
  <2>1. CASE Ask(c) \/ AskPrice(c) \/ AskRate(c) \/ AskLock(c) \/ Confirm(c)
    <3>1. UNCHANGED <<rules, frozen, cut, refused>>
      BY <2>1 DEF Ask, AskPrice, AskRate, AskLock, Confirm, leash
    <3>2. h[c].pc = "idle" /\ \A d \in Caller \ {c} : h'[d] = h[d]
      BY <2>1, AskHands, AskPriceHands, AskRateHands, AskLockHands, ConfirmHands
    <3>3. QED BY <3>1, <3>2, FrozenFrame
  <2>2. CASE SetPolicy(c) \/ ReportSim(c) \/ Callback(c) \/ Cancel(c)
    <3>1. UNCHANGED <<rules, frozen, cut, refused, h>>
      BY <2>2 DEF SetPolicy, ReportSim, Callback, Cancel, leash
    <3>2. QED BY <3>1 DEF FrozenRulesHold, BeingWritten
  <2>3. CASE ClearPolicy(c)
    <3>1. frozen'.draft = <<>>
      BY <2>3 DEF ClearPolicy, NoReq
    <3>2. ToSet(<<>>) = {}
      BY DEF ToSet
    <3>3. QED BY <3>1, <3>2 DEF FrozenRulesHold
  <2>4. QED BY <1>1, <2>1, <2>2, <2>3 DEF Command
<1>2. ASSUME NEW c \in Caller, Step(c) PROVE FrozenRulesHold'
  <2>1. CASE Gate(c)
    <3>1. h[c].pc # "freeze" /\ UNCHANGED <<rules, frozen, cut, refused>>
      BY <2>1 DEF Gate, CheckRules, CheckLocks, ReadBalance, CompareLocked, ReadSum, ReadHead,
                  Record, Park, leash
    <3>2. QED BY <2>1, <3>1, GateHands, FrozenFrame
  <2>2. CASE Fetch(c) \/ ClaimKey(c) \/ CheckCap(c) \/ Pay(c) \/ Book(c) \/ Done(c) \/ PlaceLock(c)
    <3>1. h[c].pc # "freeze" /\ UNCHANGED <<rules, frozen, cut, refused>>
      BY <2>2 DEF Fetch, ClaimKey, CheckCap, Pay, Book, Done, PlaceLock, leash
    <3>2. (\E pc : Go(c, pc)) \/ (\E v : Decided(c, v)) \/ Leave(c)
      BY <2>2 DEF Fetch, ClaimKey, CheckCap, Pay, Book, Done, PlaceLock
    <3>3. \A d \in Caller \ {c} : h'[d] = h[d]
      BY <3>2, GoHands, DecidedHands, LeaveHands
    <3>4. QED BY <3>1, <3>3, FrozenFrame
  <2>3. QED BY <1>2, <2>1, <2>2, FrozenClearRules, FrozenFreezeRule DEF Step
<1>3. ASSUME NEW c \in Caller, Crash(c) PROVE FrozenRulesHold'
  BY <1>3, FrozenCrash
<1>4. CASE Deposit \/ Mature \/ RiskPasses \/ NewDay \/ UNCHANGED vars
           \/ \E f \in Foreign : ForeignHead(f) \/ ForeignRecord(f)
  <2>1. UNCHANGED <<rules, frozen, cut, refused, h>>
    BY <1>4 DEF Deposit, Mature, RiskPasses, NewDay, ForeignHead, ForeignRecord, leash, vars
  <2>2. QED BY <2>1 DEF FrozenRulesHold, BeingWritten
<1>5. QED BY <1>1, <1>2, <1>3, <1>4 DEF Next

\* No rule of the policy that was confirmed last is lost but by a crash in the
\* middle of writing it, or by confirming that same policy again, however
\* confirmations of different policies overlap.
THEOREM FrozenRulesAlwaysHold == Spec => []FrozenRulesHold
<1>1. Init => FrozenRulesHold
  BY DEF Init, FrozenRulesHold, NoReq, ToSet
<1>2. QED BY <1>1, FrozenStep, SpendingTyped, PTL DEF Spec

-----------------------------------------------------------------------------
(* Counting callers.                                                        *)

\* Sets of callers are finite, and no larger than all of them.
LEMMA CallersCounted ==
  ASSUME NEW S \in SUBSET Caller
  PROVE  /\ IsFiniteSet(S) /\ Cardinality(S) \in Nat /\ Cardinality(Caller) \in Nat
         /\ Cardinality(S) <= Cardinality(Caller) /\ Cardinality(Caller) >= 1
<1>1. IsFiniteSet(Caller) /\ Caller # {}
  BY SpendingAssumption
<1>2. Cardinality(Caller) \in Nat /\ Cardinality(Caller) # 0
  BY <1>1, FS_EmptySet, FS_CardinalityType
<1>3. IsFiniteSet(S) /\ Cardinality(S) <= Cardinality(Caller)
  BY <1>1, FS_Subset
<1>4. Cardinality(S) \in Nat
  BY <1>3, FS_CardinalityType
<1>5. QED BY <1>2, <1>3, <1>4

\* A smaller set of callers has fewer members, at least one less without a given one.
LEMMA FewerCallers ==
  ASSUME NEW S \in SUBSET Caller, NEW T \in SUBSET S
  PROVE  /\ Cardinality(T) <= Cardinality(S)
         /\ \A c \in S : c \notin T => Cardinality(T) <= Cardinality(S) - 1
<1>1. IsFiniteSet(S) /\ Cardinality(S) \in Nat
  BY CallersCounted
<1>2. Cardinality(T) <= Cardinality(S)
  BY <1>1, FS_Subset
<1>3. ASSUME NEW c \in S, c \notin T PROVE Cardinality(T) <= Cardinality(S) - 1
  <2>1. IsFiniteSet(S \ {c}) /\ Cardinality(S \ {c}) = Cardinality(S) - 1
    BY <1>1, FS_RemoveElement
  <2>2. T \in SUBSET (S \ {c})
    BY <1>3
  <2>3. QED BY <2>1, <2>2, FS_Subset
<1>4. QED BY <1>2, <1>3

-----------------------------------------------------------------------------
-----------------------------------------------------------------------------
(* Forks of the chain.                                                      *)

After(p)   == {i \in DOMAIN audit : audit[i].prev = p}
Heading(p) == {c \in Caller : h[c].pc = "insert" /\ h[c].head = p}
Posting(p) == {f \in Foreign : abroad[f] = p}

\* How many entries follow a given one, or are about to.
Followers(p) == Cardinality(After(p)) + Cardinality(Heading(p)) + Cardinality(Posting(p))
Writers      == Cardinality(Caller) + Cardinality(Foreign)

ForkInv ==
  /\ \A i \in DOMAIN audit : audit[i].prev < i
  /\ \A c \in Caller : h[c].pc = "insert" => h[c].head <= Len(audit)
  /\ \A f \in Foreign : abroad[f] <= Len(audit)
  /\ \A p \in Nat : Followers(p) <= Writers

\* The entries that follow a given one are finitely many, and so are those who
\* are about to.
LEMMA FollowersCounted ==
  ASSUME TypeInv, NEW p
  PROVE  /\ IsFiniteSet(After(p)) /\ Cardinality(After(p)) \in Nat
         /\ Cardinality(Heading(p)) \in Nat /\ Cardinality(Heading(p)) <= Cardinality(Caller)
         /\ Cardinality(Posting(p)) \in Nat /\ Cardinality(Posting(p)) <= Cardinality(Foreign)
         /\ Cardinality(Caller) \in Nat /\ Cardinality(Foreign) \in Nat
<1>1. DOMAIN audit = 1 .. Len(audit) /\ Len(audit) \in Nat
  BY DEF TypeInv, DataOK
<1>2. IsFiniteSet(1 .. Len(audit))
  BY <1>1, FS_Interval
<1>3. After(p) \in SUBSET (1 .. Len(audit))
  BY <1>1 DEF After
<1>4. IsFiniteSet(After(p)) /\ Cardinality(After(p)) \in Nat
  BY <1>2, <1>3, FS_Subset, FS_CardinalityType
<1>5. Heading(p) \in SUBSET Caller /\ Posting(p) \in SUBSET Foreign
  BY DEF Heading, Posting
<1>6. IsFiniteSet(Foreign)
  BY SpendingAssumption
<1>7. IsFiniteSet(Posting(p)) /\ Cardinality(Posting(p)) <= Cardinality(Foreign)
  BY <1>5, <1>6, FS_Subset
<1>8. Cardinality(Posting(p)) \in Nat /\ Cardinality(Foreign) \in Nat
  BY <1>6, <1>7, FS_CardinalityType
<1>9. QED BY <1>4, <1>5, <1>7, <1>8, CallersCounted

\* A step that writes no entry and reads no head.
LEMMA ForkFrame ==
  ASSUME TypeInv, TypeInv', ForkInv, UNCHANGED trail,
         \A c \in Caller : h'[c].pc = "insert" => h'[c] = h[c]
  PROVE  ForkInv'
<1>0. audit' = audit /\ abroad' = abroad
  BY DEF trail
<1>1. \A i \in DOMAIN audit' : audit'[i].prev < i
  BY <1>0 DEF ForkInv
<1>2. \A c \in Caller : h'[c].pc = "insert" => h'[c].head <= Len(audit')
  BY <1>0 DEF ForkInv
<1>3. \A f \in Foreign : abroad'[f] <= Len(audit')
  BY <1>0 DEF ForkInv
<1>4. ASSUME NEW p \in Nat PROVE Followers(p)' <= Writers
  <2>1. After(p)' = After(p) /\ Posting(p)' = Posting(p)
    BY <1>0 DEF After, Posting
  <2>2. Heading(p)' \in SUBSET Heading(p) /\ Heading(p) \in SUBSET Caller
    BY DEF Heading
  <2>3. /\ Cardinality(Heading(p)') <= Cardinality(Heading(p))
        /\ Cardinality(Heading(p)) \in Nat /\ Cardinality(Heading(p)') \in Nat
    BY <2>2, FewerCallers, CallersCounted
  <2>4. /\ Followers(p) <= Writers /\ Cardinality(After(p)) \in Nat
        /\ Cardinality(Posting(p)) \in Nat /\ Cardinality(Caller) \in Nat
        /\ Cardinality(Foreign) \in Nat
    BY FollowersCounted DEF ForkInv
  <2>5. QED BY <2>1, <2>3, <2>4 DEF Followers, Writers
<1>5. Writers' = Writers
  BY DEF Writers
<1>6. QED BY <1>1, <1>2, <1>3, <1>4, <1>5 DEF ForkInv

\* Nothing follows the last entry.
LEMMA NothingAfterLast ==
  ASSUME TypeInv, ForkInv
  PROVE  Cardinality(After(Len(audit))) = 0
<1>1. ASSUME NEW i \in DOMAIN audit PROVE audit[i].prev # Len(audit)
  <2>1. audit \in Seq(Entry) /\ i \in 1 .. Len(audit) /\ Len(audit) \in Nat
    BY DEF TypeInv, DataOK
  <2>2. audit[i] \in Entry
    BY <2>1
  <2>3. audit[i].prev \in Nat /\ audit[i].prev < i /\ i <= Len(audit)
    BY <2>1, <2>2 DEF Entry, ForkInv
  <2>4. QED BY <2>1, <2>3
<1>2. After(Len(audit)) = {}
  BY <1>1 DEF After
<1>3. QED BY <1>2, FS_EmptySet

\* Whoever reads the last entry joins those who may follow it: nobody has yet.
LEMMA ForkReadHead ==
  ASSUME TypeInv, TypeInv', ForkInv, audit' = audit,
         \A c \in Caller : h'[c].pc = "insert" => h'[c] = h[c] \/ h'[c].head = Len(audit),
         \A f \in Foreign : abroad'[f] = abroad[f] \/ abroad'[f] = Len(audit)
  PROVE  ForkInv'
<1>1. Len(audit) \in Nat
  BY DEF TypeInv, DataOK
<1>2. \A i \in DOMAIN audit' : audit'[i].prev < i
  BY DEF ForkInv
<1>3. \A d \in Caller : h'[d].pc = "insert" => h'[d].head <= Len(audit')
  BY <1>1 DEF ForkInv
<1>4. \A f \in Foreign : abroad'[f] <= Len(audit')
  BY <1>1 DEF ForkInv
<1>5. ASSUME NEW p \in Nat PROVE Followers(p)' <= Writers
  <2>1. After(p)' = After(p)
    BY DEF After
  <2>2. /\ Cardinality(Heading(p)') \in Nat /\ Cardinality(Heading(p)') <= Cardinality(Caller)
        /\ Cardinality(Posting(p)') \in Nat /\ Cardinality(Posting(p)') <= Cardinality(Foreign)
        /\ Cardinality(Caller) \in Nat /\ Cardinality(Foreign) \in Nat
    <3>1. Heading(p)' \in SUBSET Caller /\ Posting(p)' \in SUBSET Foreign /\ IsFiniteSet(Foreign)
      BY SpendingAssumption DEF Heading, Posting
    <3>2. IsFiniteSet(Posting(p)') /\ Cardinality(Posting(p)') <= Cardinality(Foreign)
      BY <3>1, FS_Subset
    <3>3. Cardinality(Posting(p)') \in Nat /\ Cardinality(Foreign) \in Nat
      BY <3>1, <3>2, FS_CardinalityType
    <3>4. QED BY <3>1, <3>2, <3>3, CallersCounted
  <2>3. CASE p = Len(audit)
    <3>1. Cardinality(After(p)) = 0
      BY <2>3, NothingAfterLast
    <3>2. QED BY <2>1, <2>2, <3>1 DEF Followers, Writers
  <2>4. CASE p # Len(audit)
    <3>1. Heading(p)' \in SUBSET Heading(p) /\ Posting(p)' \in SUBSET Posting(p)
      BY <2>4 DEF Heading, Posting
    <3>2. Heading(p) \in SUBSET Caller /\ Posting(p) \in SUBSET Foreign /\ IsFiniteSet(Foreign)
      BY SpendingAssumption DEF Heading, Posting
    <3>3. Cardinality(Heading(p)') <= Cardinality(Heading(p))
      BY <3>1, <3>2, FewerCallers
    <3>4. Cardinality(Posting(p)') <= Cardinality(Posting(p))
      BY <3>1, <3>2, FS_Subset
    <3>5. /\ Followers(p) <= Writers /\ Cardinality(After(p)) \in Nat
          /\ Cardinality(Posting(p)) \in Nat /\ Cardinality(Heading(p)) \in Nat
      BY FollowersCounted DEF ForkInv
    <3>6. QED BY <2>1, <2>2, <3>3, <3>4, <3>5 DEF Followers, Writers
  <2>5. QED BY <2>3, <2>4
<1>6. Writers' = Writers
  BY DEF Writers
<1>7. QED BY <1>2, <1>3, <1>4, <1>5, <1>6 DEF ForkInv

\* What one more entry does to those that follow another.
LEMMA ForkAppend ==
  ASSUME TypeInv, ForkInv, NEW e, audit' = Append(audit, e),
         e.prev \in Nat, e.prev <= Len(audit)
  PROVE  /\ Len(audit') = Len(audit) + 1 /\ Len(audit) \in Nat
         /\ \A i \in DOMAIN audit' : audit'[i].prev < i
         /\ \A p \in Nat : Cardinality(After(p)') =
                               Cardinality(After(p)) + (IF p = e.prev THEN 1 ELSE 0)
<1> DEFINE n == Len(audit)
<1>1. audit \in Seq(Entry)
  BY DEF TypeInv, DataOK
<1>2. /\ DOMAIN audit' = 1 .. n + 1 /\ DOMAIN audit = 1 .. n /\ n \in Nat /\ Len(audit') = n + 1
      /\ \A i \in 1 .. n : audit'[i] = audit[i]
      /\ audit'[n + 1] = e
  BY <1>1
<1> HIDE DEF n
<1>3. \A i \in DOMAIN audit' : audit'[i].prev < i
  <2>1. \A i \in 1 .. n : audit'[i].prev < i
    BY <1>2 DEF ForkInv
  <2>2. audit'[n + 1].prev < n + 1
    BY <1>2 DEF n
  <2>3. \A i \in DOMAIN audit' : i \in 1 .. n \/ i = n + 1
    BY <1>2
  <2>4. QED BY <2>1, <2>2, <2>3
<1>4. ASSUME NEW p \in Nat
      PROVE  Cardinality(After(p)') = Cardinality(After(p)) + (IF p = e.prev THEN 1 ELSE 0)
  <2>1. IsFiniteSet(After(p)) /\ Cardinality(After(p)) \in Nat
    BY FollowersCounted
  <2>2. CASE p = e.prev
    <3>1. After(p)' = After(p) \cup {n + 1} /\ n + 1 \notin After(p)
      BY <1>2, <2>2 DEF After
    <3>2. QED BY <2>1, <2>2, <3>1, FS_AddElement
  <2>3. CASE p # e.prev
    <3>1. After(p)' = After(p)
      BY <1>2, <2>3 DEF After
    <3>2. QED BY <2>1, <2>3, <3>1
  <2>4. QED BY <2>2, <2>3
<1>5. QED BY <1>2, <1>3, <1>4 DEF n

\* An entry takes its writer's place among those who may follow the same one.
LEMMA ForkRecord ==
  ASSUME TypeInv, TypeInv', ForkInv, NEW c \in Caller, Record(c)
  PROVE  ForkInv'
<1> DEFINE e == [prev |-> h[c].head, id |-> h[c].req.id, verdict |-> h[c].verdict]
<1>1. audit' = Append(audit, e) /\ abroad' = abroad /\ h[c].pc = "insert"
  BY DEF Record
<1>2. e.prev = h[c].head /\ h[c].head \in Nat /\ h[c].head <= Len(audit)
  BY <1>1 DEF ForkInv, TypeInv, Work
<1> HIDE DEF e
<1>3. /\ Len(audit') = Len(audit) + 1 /\ Len(audit) \in Nat
      /\ \A i \in DOMAIN audit' : audit'[i].prev < i
      /\ \A p \in Nat : Cardinality(After(p)') =
                            Cardinality(After(p)) + (IF p = h[c].head THEN 1 ELSE 0)
  BY <1>1, <1>2, ForkAppend
<1>4. /\ \A d \in Caller \ {c} : h'[d] = h[d]
      /\ h'[c].pc \in {"park", "fetch", "idle"}
  BY GoHands, LeaveHands DEF Record
<1>5. \A d \in Caller : h'[d].pc = "insert" => h'[d].head <= Len(audit')
  <2>1. \A d \in Caller : h[d].pc = "insert" => h[d].head <= Len(audit) /\ h[d].head \in Nat
    BY DEF ForkInv, TypeInv, Work
  <2>2. QED BY <1>3, <1>4, <2>1
<1>6. \A f \in Foreign : abroad'[f] <= Len(audit')
  <2>1. \A f \in Foreign : abroad[f] <= Len(audit) /\ abroad[f] \in Int
    BY DEF ForkInv, TypeInv, DataOK, NoHead
  <2>2. QED BY <1>1, <1>3, <2>1
<1>7. ASSUME NEW p \in Nat PROVE Followers(p)' <= Writers
  <2>1. Heading(p) \in SUBSET Caller /\ Heading(p)' \in SUBSET Heading(p)
    BY <1>4 DEF Heading
  <2>2. Posting(p)' = Posting(p)
    BY <1>1 DEF Posting
  <2>3. /\ Followers(p) <= Writers /\ Cardinality(After(p)) \in Nat
        /\ Cardinality(Heading(p)) \in Nat /\ Cardinality(Posting(p)) \in Nat
        /\ Cardinality(Caller) \in Nat /\ Cardinality(Foreign) \in Nat
    BY FollowersCounted DEF ForkInv
  <2>4. Cardinality(Heading(p)') \in Nat /\ Cardinality(Heading(p)') <= Cardinality(Heading(p))
    BY <2>1, CallersCounted, FewerCallers
  <2>5. CASE p = h[c].head
    <3>1. Cardinality(After(p)') = Cardinality(After(p)) + 1
      BY <1>3, <2>5
    <3>2. c \in Heading(p) /\ c \notin Heading(p)'
      BY <1>1, <1>4, <2>5 DEF Heading
    <3>3. Cardinality(Heading(p)') <= Cardinality(Heading(p)) - 1
      BY <2>1, <3>2, FewerCallers
    <3>4. QED BY <2>2, <2>3, <2>4, <3>1, <3>3 DEF Followers, Writers
  <2>6. CASE p # h[c].head
    <3>1. Cardinality(After(p)') = Cardinality(After(p))
      BY <1>3, <2>3, <2>6
    <3>2. QED BY <2>2, <2>3, <2>4, <3>1 DEF Followers, Writers
  <2>7. QED BY <2>5, <2>6
<1>8. Writers' = Writers
  BY DEF Writers
<1>9. QED BY <1>3, <1>5, <1>6, <1>7, <1>8 DEF ForkInv

\* So does the entry of another account.
LEMMA ForkForeign ==
  ASSUME TypeInv, TypeInv', ForkInv, NEW f \in Foreign, ForeignRecord(f)
  PROVE  ForkInv'
<1> DEFINE e == [prev |-> abroad[f], id |-> 0, verdict |-> "pass"]
<1>1. audit' = Append(audit, e) /\ h' = h /\ abroad' = [abroad EXCEPT ![f] = NoHead]
  BY DEF ForeignRecord
<1>2. e.prev = abroad[f] /\ abroad[f] \in Nat /\ abroad[f] <= Len(audit)
  BY DEF ForeignRecord, ForkInv, TypeInv, DataOK
<1> HIDE DEF e
<1>3. /\ Len(audit') = Len(audit) + 1 /\ Len(audit) \in Nat
      /\ \A i \in DOMAIN audit' : audit'[i].prev < i
      /\ \A p \in Nat : Cardinality(After(p)') =
                            Cardinality(After(p)) + (IF p = abroad[f] THEN 1 ELSE 0)
  BY <1>1, <1>2, ForkAppend
<1>4. \A d \in Caller : h'[d].pc = "insert" => h'[d].head <= Len(audit')
  <2>1. \A d \in Caller : h[d].pc = "insert" => h[d].head <= Len(audit) /\ h[d].head \in Nat
    BY DEF ForkInv, TypeInv, Work
  <2>2. QED BY <1>1, <1>3, <2>1
<1>5. /\ \A g \in Foreign \ {f} : abroad'[g] = abroad[g]
      /\ abroad'[f] = NoHead
  BY <1>1 DEF TypeInv, DataOK
<1>6. \A g \in Foreign : abroad'[g] <= Len(audit')
  <2>1. \A g \in Foreign : abroad[g] <= Len(audit) /\ abroad[g] \in Int
    BY DEF ForkInv, TypeInv, DataOK, NoHead
  <2>2. QED BY <1>3, <1>5, <2>1 DEF NoHead
<1>7. ASSUME NEW p \in Nat PROVE Followers(p)' <= Writers
  <2>1. Heading(p)' = Heading(p)
    BY <1>1 DEF Heading
  <2>2. p # NoHead
    BY DEF NoHead
  <2>3. /\ Followers(p) <= Writers /\ Cardinality(After(p)) \in Nat
        /\ Cardinality(Heading(p)) \in Nat /\ Cardinality(Posting(p)) \in Nat
        /\ Cardinality(Caller) \in Nat /\ Cardinality(Foreign) \in Nat
    BY FollowersCounted DEF ForkInv
  <2>4. IsFiniteSet(Posting(p))
    <3>1. Posting(p) \in SUBSET Foreign /\ IsFiniteSet(Foreign)
      BY SpendingAssumption DEF Posting
    <3>2. QED BY <3>1, FS_Subset
  <2>5. CASE p = abroad[f]
    <3>1. Posting(p)' = Posting(p) \ {f} /\ f \in Posting(p)
      BY <1>5, <2>2, <2>5 DEF Posting
    <3>2. Cardinality(Posting(p)') = Cardinality(Posting(p)) - 1
      BY <2>4, <3>1, FS_RemoveElement
    <3>3. Cardinality(After(p)') = Cardinality(After(p)) + 1
      BY <1>3, <2>5
    <3>4. QED BY <2>1, <2>3, <3>2, <3>3 DEF Followers, Writers
  <2>6. CASE p # abroad[f]
    <3>1. Posting(p)' = Posting(p)
      BY <1>5, <2>2, <2>6 DEF Posting
    <3>2. Cardinality(After(p)') = Cardinality(After(p))
      BY <1>3, <2>3, <2>6
    <3>3. QED BY <2>1, <2>3, <3>1, <3>2 DEF Followers, Writers
  <2>7. QED BY <2>5, <2>6
<1>8. Writers' = Writers
  BY DEF Writers
<1>9. QED BY <1>3, <1>4, <1>6, <1>7, <1>8 DEF ForkInv

\* An empty trail has no forks.
LEMMA ForkInit == Init => ForkInv
<1> SUFFICES ASSUME Init PROVE ForkInv
  OBVIOUS
<1>1. \A p \in Nat : After(p) = {} /\ Heading(p) = {} /\ Posting(p) = {}
  BY DEF Init, After, Heading, Posting, Idle, NoHead
<1>2. Cardinality({}) = 0 /\ Cardinality(Caller) \in Nat /\ Cardinality(Foreign) \in Nat
  BY SpendingAssumption, FS_EmptySet, FS_CardinalityType, CallersCounted
<1>3. \A p \in Nat : Followers(p) <= Writers
  BY <1>1, <1>2 DEF Followers, Writers
<1>4. \A c \in Caller : h[c].pc # "insert"
  BY DEF Init, Idle
<1>5. DOMAIN audit = {} /\ \A f \in Foreign : abroad[f] <= Len(audit)
  BY DEF Init, NoHead
<1>6. QED BY <1>3, <1>4, <1>5 DEF ForkInv

\* Every step keeps it: only the two steps of recordPolicyDecision touch the trail.
LEMMA ForkStep == TypeInv /\ TypeInv' /\ ForkInv /\ [Next]_vars => ForkInv'
<1> SUFFICES ASSUME TypeInv, TypeInv', ForkInv, [Next]_vars PROVE ForkInv'
  OBVIOUS
<1>1. ASSUME NEW c \in Caller, Command(c) PROVE ForkInv'
  <2>1. CASE Ask(c) \/ AskPrice(c) \/ AskRate(c) \/ AskLock(c) \/ Confirm(c)
    <3>1. UNCHANGED trail
      BY <2>1 DEF Ask, AskPrice, AskRate, AskLock, Confirm
    <3>2. h'[c].pc # "insert" /\ \A d \in Caller \ {c} : h'[d] = h[d]
      BY <2>1, AskHands, AskPriceHands, AskRateHands, AskLockHands, ConfirmHands
    <3>3. QED BY <3>1, <3>2, ForkFrame
  <2>2. CASE SetPolicy(c) \/ ClearPolicy(c) \/ ReportSim(c) \/ Callback(c) \/ Cancel(c)
    <3>1. UNCHANGED <<trail, h>>
      BY <2>2 DEF SetPolicy, ClearPolicy, ReportSim, Callback, Cancel
    <3>2. QED BY <3>1, ForkFrame
  <2>3. QED BY <1>1, <2>1, <2>2 DEF Command
<1>2. ASSUME NEW c \in Caller, Gate(c) PROVE ForkInv'
  <2>1. CASE CheckRules(c) \/ CheckLocks(c) \/ ReadBalance(c) \/ CompareLocked(c) \/ ReadSum(c)
             \/ Park(c)
    <3>1. UNCHANGED trail
      BY <2>1 DEF CheckRules, CheckLocks, ReadBalance, CompareLocked, ReadSum, Park
    <3>2. h'[c].pc # "insert"
      BY <2>1, GoHands, DecidedHands, LeaveHands, ReadBalanceHands, ReadSumHands
         DEF CheckRules, CheckLocks, CompareLocked, Weigh, Park
    <3>3. \A d \in Caller \ {c} : h'[d] = h[d]
      BY <1>2, GateHands
    <3>4. QED BY <3>1, <3>2, <3>3, ForkFrame
  <2>2. CASE ReadHead(c)
    <3>1. audit' = audit /\ abroad' = abroad
      BY <2>2 DEF ReadHead, trail
    <3>2. QED BY <2>2, <3>1, ReadHeadHands, ForkReadHead
  <2>3. QED BY <1>2, <2>1, <2>2, ForkRecord DEF Gate
<1>3. ASSUME NEW c \in Caller, Step(c) PROVE ForkInv'
  <2>1. CASE Fetch(c) \/ ClaimKey(c) \/ CheckCap(c) \/ Pay(c) \/ Book(c) \/ Done(c)
             \/ PlaceLock(c) \/ ClearRules(c)
    <3>1. UNCHANGED trail
      BY <2>1 DEF Fetch, ClaimKey, CheckCap, Pay, Book, Done, PlaceLock, ClearRules
    <3>2. \/ \E pc \in Steps \ {"insert"} : Go(c, pc)
          \/ \E v : Decided(c, v)
          \/ Leave(c)
      BY <2>1 DEF Fetch, ClaimKey, CheckCap, Pay, Book, Done, PlaceLock, ClearRules, Steps
    <3>3. h'[c].pc # "insert" /\ \A d \in Caller \ {c} : h'[d] = h[d]
      BY <3>2, GoHands, DecidedHands, LeaveHands
    <3>4. QED BY <3>1, <3>3, ForkFrame
  <2>2. CASE FreezeRule(c)
    <3>1. h'[c].pc # "insert" /\ \A d \in Caller \ {c} : h'[d] = h[d]
      BY <2>2, FreezeRuleHands
    <3>2. QED BY <2>2, <3>1, ForkFrame DEF FreezeRule
  <2>3. QED BY <1>2, <1>3, <2>1, <2>2 DEF Step
<1>4. ASSUME NEW c \in Caller, Crash(c) PROVE ForkInv'
  BY <1>4, LeaveHands, ForkFrame DEF Crash
<1>5. ASSUME NEW f \in Foreign, ForeignHead(f) PROVE ForkInv'
  <2>1. audit' = audit /\ h' = h /\ abroad' = [abroad EXCEPT ![f] = Len(audit)]
    BY <1>5 DEF ForeignHead
  <2>2. \A g \in Foreign : abroad'[g] = abroad[g] \/ abroad'[g] = Len(audit)
    BY <2>1 DEF TypeInv, DataOK
  <2>3. QED BY <2>1, <2>2, ForkReadHead
<1>6. CASE Deposit \/ Mature \/ RiskPasses \/ NewDay \/ UNCHANGED vars
  <2>1. UNCHANGED <<trail, h>>
    BY <1>6 DEF Deposit, Mature, RiskPasses, NewDay, vars
  <2>2. QED BY <2>1, ForkFrame
<1>7. QED BY <1>1, <1>3, <1>4, <1>5, <1>6, ForkForeign DEF Next

\* The trail of decisions is a tree: every entry follows an older one, and no
\* entry is followed by more entries than requests can run at a time, those of
\* the other accounts included.
THEOREM TrailForksAreBounded == Spec => []ForksAreBounded
<1>1. TypeInv /\ ForkInv => ForksAreBounded
  <2> SUFFICES ASSUME TypeInv, ForkInv PROVE ForksAreBounded
    OBVIOUS
  <2>1. \A i \in DOMAIN audit : audit[i].prev < i
    BY DEF ForkInv
  <2>2. ASSUME NEW p \in 0 .. Len(audit) PROVE Cardinality(After(p)) <= Writers
    <3>1. p \in Nat
      BY DEF TypeInv, DataOK
    <3>2. /\ Cardinality(After(p)) \in Nat /\ Cardinality(Heading(p)) \in Nat
          /\ Cardinality(Posting(p)) \in Nat /\ Cardinality(Caller) \in Nat
          /\ Cardinality(Foreign) \in Nat
      BY FollowersCounted
    <3>3. QED BY <3>1, <3>2 DEF ForkInv, Followers, Writers
  <2>3. QED BY <2>1, <2>2 DEF ForksAreBounded, After, Writers
<1>2. QED BY <1>1, ForkInit, ForkStep, SpendingTyped, PTL DEF Spec

-----------------------------------------------------------------------------
(* Paid lookups.                                                            *)

\* Callers that the limit let through, and that have not paid yet.
Paying == {c \in Caller : /\ h[c].req.kind = "price"
                          /\ \/ h[c].pc \in {"head", "insert"} /\ h[c].verdict = "pass"
                             \/ h[c].pc = "fetch"}

\* What the last lookup that is let through may find, with one for every caller.
LookupRoom == NanopayDaily - PriceChecked + Cardinality(Caller) * MaxPrice
Owing == gated + Cardinality(Paying) * MaxPrice

\* A price is asked for at what the gate takes a lookup to cost.
PriceOK(t) == t.pc = "sums" /\ t.req.kind = "price" => t.req.amt = PriceChecked

NanopayInv ==
  /\ \A c \in Caller : PriceOK(h[c])
  /\ gated <= spent["nanopay"]
  /\ gated > 0 \/ Paying # {} => Owing <= LookupRoom

\* More lookups cost more.
LEMMA LookupsCost ==
  ASSUME NEW m \in Nat, NEW n \in Nat, m <= n
  PROVE  /\ m * MaxPrice \in Nat /\ n * MaxPrice \in Nat /\ m * MaxPrice <= n * MaxPrice
         /\ m < n => m * MaxPrice + MaxPrice <= n * MaxPrice
<1>1. MaxPrice \in Nat
  BY SpendingAssumption
<1>2. PICK k \in Nat : n = m + k
  <2>1. n - m \in Nat /\ n = m + (n - m)
    OBVIOUS
  <2>2. QED BY <2>1
<1>3. m * MaxPrice \in Nat /\ k * MaxPrice \in Nat /\ n * MaxPrice = m * MaxPrice + k * MaxPrice
  BY <1>1, <1>2
<1>4. m < n => k * MaxPrice >= MaxPrice
  <2>1. SUFFICES ASSUME m < n PROVE k * MaxPrice >= MaxPrice
    OBVIOUS
  <2>2. PICK j \in Nat : k = j + 1
    <3>1. k - 1 \in Nat /\ k = (k - 1) + 1
      BY <1>2, <2>1
    <3>2. QED BY <3>1
  <2>3. k * MaxPrice = j * MaxPrice + MaxPrice /\ j * MaxPrice \in Nat
    BY <1>1, <2>2
  <2>4. QED BY <1>1, <2>3
<1>5. QED BY <1>1, <1>3, <1>4

\* The numbers the bound is made of.
LEMMA LookupsTyped ==
  ASSUME TypeInv
  PROVE  /\ gated \in Nat /\ spent["nanopay"] \in Nat /\ NanopayDaily \in Nat
         /\ PriceChecked \in Nat /\ MaxPrice \in Nat
         /\ Cardinality(Paying) \in Nat /\ Cardinality(Caller) \in Nat
         /\ Cardinality(Paying) <= Cardinality(Caller)
         /\ Cardinality(Paying) * MaxPrice \in Nat /\ Cardinality(Caller) * MaxPrice \in Nat
<1>1. Paying \in SUBSET Caller
  BY DEF Paying
<1>2. /\ Cardinality(Paying) \in Nat /\ Cardinality(Caller) \in Nat
      /\ Cardinality(Paying) <= Cardinality(Caller)
  BY <1>1, CallersCounted
<1>3. gated \in Nat /\ spent["nanopay"] \in Nat
  BY DEF TypeInv, DataOK, Kind
<1>4. QED BY <1>2, <1>3, LookupsCost, LimitsAssumption, SpendingAssumption

\* A step that pays for no such lookup and lets none through.
LEMMA NanopayFrame ==
  ASSUME TypeInv, TypeInv', NanopayInv, gated' = gated,
         spent'["nanopay"] >= spent["nanopay"],
         NEW c \in Caller, \A d \in Caller \ {c} : h'[d] = h[d],
         PriceOK(h'[c]), c \in Paying' => c \in Paying
  PROVE  NanopayInv'
<1>1. Paying' \in SUBSET Paying /\ Paying \in SUBSET Caller
  BY DEF Paying
<1>2. Cardinality(Paying') <= Cardinality(Paying) /\ Cardinality(Paying') \in Nat
      /\ Cardinality(Paying) \in Nat
  BY <1>1, FewerCallers, CallersCounted
<1>3. Cardinality(Paying') * MaxPrice <= Cardinality(Paying) * MaxPrice
      /\ Cardinality(Paying') * MaxPrice \in Nat
  BY <1>2, LookupsCost
<1>4. Owing' <= Owing /\ Owing \in Nat /\ Owing' \in Nat /\ LookupRoom \in Int
  BY <1>3, LookupsTyped DEF Owing, LookupRoom
<1>5. LookupRoom' = LookupRoom
  BY DEF LookupRoom
<1>6. gated' > 0 \/ Paying' # {} => Owing' <= LookupRoom'
  BY <1>1, <1>4, <1>5 DEF NanopayInv
<1>7. gated' <= spent'["nanopay"]
  <2>1. spent'["nanopay"] \in Nat
    BY DEF TypeInv, DataOK, Kind
  <2>2. QED BY <2>1, LookupsTyped DEF NanopayInv
<1>8. \A d \in Caller : PriceOK(h'[d])
  BY DEF NanopayInv
<1>9. QED BY <1>6, <1>7, <1>8 DEF NanopayInv, PriceOK

\* A lookup that is let through finds the sum within the limit, with what it is
\* taken to cost added.
LEMMA NanopayReadSum ==
  ASSUME TypeInv, TypeInv', NanopayInv, NEW c \in Caller, ReadSum(c)
  PROVE  NanopayInv'
<1> DEFINE r == h[c].req
           v == SumVerdict(r.kind, r.amt, Lim, h[c].sum + spent[Head(h[c].unread)])
<1>1. UNCHANGED <<spent, gated>> /\ h[c].pc = "sums" /\ h[c] \in Work /\ WorkOK(h[c], started)
  BY DEF ReadSum, money, TypeInv
<1>2. /\ \A d \in Caller \ {c} : h'[d] = h[d]
      /\ h'[c].req = r
      /\ \/ Len(h[c].unread) = 1 /\ h'[c].pc = "head" /\ h'[c].verdict = v
         \/ Len(h[c].unread) # 1 /\ h'[c].pc = "sums"
  BY ReadSumHands
<1> HIDE DEF v
<1>3. PriceOK(h'[c])
  BY <1>1, <1>2 DEF NanopayInv, PriceOK
<1>4. CASE h'[c].pc = "head" /\ r.kind = "price" /\ v = "pass"
  <2>1. r.amt = PriceChecked
    BY <1>1, <1>4 DEF NanopayInv, PriceOK
  <2>2. h[c].unread = <<"nanopay">> /\ h[c].sum = 0
    <3>1. h[c].unread \in ToSum("price") /\ (h[c].unread = Counted("price") => h[c].sum = 0)
      BY <1>1, <1>4 DEF WorkOK, SumOK, Asking
    <3>2. QED BY <3>1 DEF ToSum, Counted
  <2>3. v = SumVerdict("price", PriceChecked, Lim, spent["nanopay"])
    <3>1. Head(h[c].unread) = "nanopay"
      BY <2>2
    <3>2. h[c].sum + spent[Head(h[c].unread)] = spent["nanopay"]
      BY <2>2, <3>1, LookupsTyped
    <3>3. QED BY <1>4, <2>1, <3>2 DEF v
  <2>4. spent["nanopay"] + PriceChecked <= NanopayDaily
    <3>1. ~(spent["nanopay"] + PriceChecked > NanopayDaily)
      BY <1>4, <2>3 DEF SumVerdict
    <3>2. QED BY <3>1, LookupsTyped
  <2>5. gated <= spent["nanopay"]
    BY DEF NanopayInv
  <2>6. /\ Cardinality(Paying') \in Nat
        /\ Cardinality(Paying') <= Cardinality(Caller)
    <3>1. Paying' \in SUBSET Caller
      BY DEF Paying
    <3>2. QED BY <3>1, CallersCounted
  <2>7. /\ Cardinality(Paying') * MaxPrice \in Nat
        /\ Cardinality(Paying') * MaxPrice <= Cardinality(Caller) * MaxPrice
    BY <2>6, LookupsTyped, LookupsCost
  <2>8. Owing' <= LookupRoom
    <3>1. Owing' = gated + Cardinality(Paying') * MaxPrice
      BY <1>1 DEF Owing
    <3>2. QED BY <2>4, <2>5, <2>7, <3>1, LookupsTyped DEF LookupRoom
  <2>9. QED BY <1>1, <1>2, <1>3, <2>5, <2>8 DEF NanopayInv, PriceOK, LookupRoom
<1>5. CASE ~(h'[c].pc = "head" /\ r.kind = "price" /\ v = "pass")
  <2>1. c \notin Paying'
    BY <1>2, <1>5 DEF Paying
  <2>2. spent'["nanopay"] >= spent["nanopay"]
    BY <1>1, LookupsTyped
  <2>3. QED BY <1>1, <1>2, <1>3, <2>1, <2>2, NanopayFrame
<1>6. QED BY <1>4, <1>5

\* A lookup that is paid leaves the others that are still to be paid; one that the
\* limit was not asked for leaves them all.
LEMMA NanopayFetch ==
  ASSUME TypeInv, TypeInv', NanopayInv, NEW c \in Caller, Fetch(c)
  PROVE  NanopayInv'
<1>1. /\ \A d \in Caller \ {c} : h'[d] = h[d]
      /\ h'[c].pc = "idle" /\ h[c].pc = "fetch"
  BY LeaveHands DEF Fetch
<1>2. PriceOK(h'[c]) /\ c \notin Paying'
  BY <1>1 DEF PriceOK, Paying
<1>3. spent'["nanopay"] = spent["nanopay"] \/ spent'["nanopay"] = spent["nanopay"] + MaxPrice
  BY DEF Fetch, TypeInv, DataOK, Kind
<1>4. spent'["nanopay"] >= spent["nanopay"] /\ spent'["nanopay"] \in Nat
  BY <1>3, LookupsTyped
<1>5. CASE h[c].req.kind # "price" \/ gated' = gated
  <2>1. gated' = gated
    BY <1>5 DEF Fetch
  <2>2. QED BY <1>1, <1>2, <1>4, <2>1, NanopayFrame
<1>6. CASE h[c].req.kind = "price" /\ gated' # gated
  <2>1. gated' = gated + MaxPrice /\ spent'["nanopay"] = spent["nanopay"] + MaxPrice
    BY <1>6 DEF Fetch, TypeInv, DataOK, Kind
  <2>2. c \in Paying
    BY <1>1, <1>6 DEF Paying
  <2>3. Paying' \in SUBSET Paying /\ Paying \in SUBSET Caller
    BY <1>1, <1>2 DEF Paying
  <2>4. /\ Cardinality(Paying') <= Cardinality(Paying) - 1 /\ Cardinality(Paying) \in Nat
        /\ Cardinality(Paying') \in Nat
    BY <1>2, <2>2, <2>3, FewerCallers, CallersCounted
  <2>5. /\ Cardinality(Paying') * MaxPrice \in Nat /\ Cardinality(Paying) * MaxPrice \in Nat
        /\ Cardinality(Paying') * MaxPrice + MaxPrice <= Cardinality(Paying) * MaxPrice
    BY <2>4, LookupsCost
  <2>6. Owing' <= Owing /\ Owing \in Nat /\ Owing' \in Nat
    BY <2>1, <2>5, LookupsTyped DEF Owing
  <2>7. Owing <= LookupRoom /\ LookupRoom \in Int
    BY <2>2, LookupsTyped DEF NanopayInv, LookupRoom
  <2>8. Owing' <= LookupRoom
    BY <2>6, <2>7
  <2>9. gated' <= spent'["nanopay"]
    BY <2>1, LookupsTyped DEF NanopayInv
  <2>10. \A d \in Caller : PriceOK(h'[d])
    BY <1>1, <1>2 DEF NanopayInv
  <2>11. QED BY <2>8, <2>9, <2>10 DEF NanopayInv, PriceOK, LookupRoom
<1>7. QED BY <1>5, <1>6

\* At midnight the lookups still to be paid are all there is.
LEMMA NanopayNewDay ==
  ASSUME TypeInv, NanopayInv, NewDay
  PROVE  NanopayInv'
<1>1. h' = h /\ spent'["nanopay"] = 0 /\ gated' = 0 /\ Paying' = Paying
  BY DEF NewDay, Kind, Paying
<1>2. Owing' = Cardinality(Paying) * MaxPrice /\ Owing' <= Owing /\ Owing \in Nat /\ Owing' \in Nat
  BY <1>1, LookupsTyped DEF Owing
<1>3. LookupRoom \in Int
  BY LookupsTyped DEF LookupRoom
<1>4. Paying' # {} => Owing' <= LookupRoom
  BY <1>1, <1>2, <1>3 DEF NanopayInv
<1>5. QED BY <1>1, <1>4 DEF NanopayInv, PriceOK, LookupRoom

\* Every step keeps it.
LEMMA NanopayStep == TypeInv /\ TypeInv' /\ NanopayInv /\ [Next]_vars => NanopayInv'
<1> SUFFICES ASSUME TypeInv, TypeInv', NanopayInv, [Next]_vars PROVE NanopayInv'
  OBVIOUS
<1>0. NoReq.kind # "price" /\ (\A a, b \in Nat : a = b => a >= b)
  BY DEF NoReq
<1>1. ASSUME NEW c \in Caller, Command(c) PROVE NanopayInv'
  <2>1. CASE Ask(c) \/ AskPrice(c) \/ AskRate(c) \/ AskLock(c) \/ Confirm(c)
    <3>1. UNCHANGED <<spent, gated>>
      BY <2>1 DEF Ask, AskPrice, AskRate, AskLock, Confirm, money
    <3>2. \A d \in Caller \ {c} : h'[d] = h[d]
      BY <2>1, AskHands, AskPriceHands, AskRateHands, AskLockHands, ConfirmHands
    <3>3. PriceOK(h'[c]) /\ c \notin Paying'
      <4>1. CASE Ask(c)
        BY <4>1, AskHands DEF PriceOK, Paying, Spends
      <4>2. CASE AskPrice(c)
        BY <4>2, AskPriceHands DEF PriceOK, Paying
      <4>3. CASE AskRate(c) \/ AskLock(c) \/ Confirm(c)
        BY <4>3, AskRateHands, AskLockHands, ConfirmHands DEF PriceOK, Paying
      <4>4. QED BY <2>1, <4>1, <4>2, <4>3
    <3>4. QED BY <1>0, <3>1, <3>2, <3>3, LookupsTyped, NanopayFrame
  <2>2. CASE SetPolicy(c) \/ ClearPolicy(c) \/ ReportSim(c) \/ Callback(c) \/ Cancel(c)
    <3>1. UNCHANGED <<h, spent, gated>>
      BY <2>2 DEF SetPolicy, ClearPolicy, ReportSim, Callback, Cancel, money
    <3>2. Paying' = Paying
      BY <3>1 DEF Paying
    <3>3. QED BY <3>1, <3>2 DEF NanopayInv, PriceOK, Owing, LookupRoom
  <2>3. QED BY <1>1, <2>1, <2>2 DEF Command
<1>2. ASSUME NEW c \in Caller, Gate(c) PROVE NanopayInv'
  <2>1. CASE ReadSum(c)
    BY <2>1, NanopayReadSum
  <2>2. CASE ~ReadSum(c)
    <3>1. UNCHANGED <<spent, gated>>
      BY <1>2, <2>2 DEF Gate, CheckRules, CheckLocks, ReadBalance, CompareLocked, ReadHead,
                        Record, Park, money
    <3>2. \A d \in Caller \ {c} : h'[d] = h[d]
      BY <1>2, GateHands
    <3>3. PriceOK(h'[c]) /\ (c \in Paying' => c \in Paying)
      <4>0. h[c] \in Work /\ WorkOK(h[c], started)
        BY DEF TypeInv
      <4>1. CASE CheckRules(c) \/ CheckLocks(c) \/ CompareLocked(c)
        <5>1. h[c].req.kind \in Spends \cup {"lock"}
          BY <4>0, <4>1 DEF CheckRules, CheckLocks, CompareLocked, WorkOK, KindsAt
        <5>2. h'[c].req \in {h[c].req, NoReq}
          BY <1>2, GateHands
        <5>3. h'[c].req.kind # "price"
          BY <1>0, <5>1, <5>2 DEF Spends
        <5>4. QED BY <5>3 DEF PriceOK, Paying
      <4>2. CASE ReadBalance(c) \/ ReadHead(c)
        BY <4>2, ReadBalanceHands, ReadHeadHands DEF PriceOK, Paying
      <4>3. CASE Record(c)
        <5>1. h[c].pc = "insert"
          BY <4>3 DEF Record
        <5>2. \/ Go(c, "park") \/ Leave(c)
              \/ h[c].verdict = "pass" /\ h[c].req.kind = "price" /\ Go(c, "fetch")
          BY <4>3 DEF Record
        <5>3. QED BY <5>1, <5>2, GoHands, LeaveHands DEF PriceOK, Paying
      <4>4. CASE Park(c)
        BY <4>4, LeaveHands DEF Park, PriceOK, Paying
      <4>5. QED BY <1>2, <2>2, <4>1, <4>2, <4>3, <4>4 DEF Gate
    <3>4. QED BY <1>0, <3>1, <3>2, <3>3, LookupsTyped, NanopayFrame
  <2>3. QED BY <2>1, <2>2
<1>3. ASSUME NEW c \in Caller, Step(c), ~Gate(c), ~Fetch(c) PROVE NanopayInv'
  <2>1. spent'["nanopay"] = spent["nanopay"] /\ gated' = gated
    BY <1>3 DEF Step, ClaimKey, CheckCap, Pay, Book, Done, PlaceLock, ClearRules, FreezeRule,
                money, BookedAs, TypeInv, DataOK, Kind
  <2>2. /\ \A d \in Caller \ {c} : h'[d] = h[d]
        /\ h'[c].pc # "sums" /\ c \notin Paying'
    <3>1. CASE FreezeRule(c)
      BY <3>1, FreezeRuleHands DEF Paying
    <3>2. CASE Done(c)
      <4>1. (h[c].req.kind = "policy" /\ Decided(c, "pass")) \/ Leave(c)
        BY <3>2 DEF Done
      <4>2. QED BY <4>1, DecidedHands, LeaveHands DEF Paying
    <3>3. CASE ClaimKey(c) \/ CheckCap(c) \/ Pay(c) \/ Book(c) \/ PlaceLock(c) \/ ClearRules(c)
      <4>1. \/ \E pc \in {"cap", "pay", "book", "done", "freeze"} : Go(c, pc)
            \/ Leave(c)
        BY <3>3 DEF ClaimKey, CheckCap, Pay, Book, PlaceLock, ClearRules
      <4>2. QED BY <4>1, GoHands, LeaveHands DEF Paying
    <3>4. QED BY <1>3, <3>1, <3>2, <3>3 DEF Step
  <2>3. PriceOK(h'[c])
    BY <2>2 DEF PriceOK
  <2>4. QED BY <1>0, <2>1, <2>2, <2>3, LookupsTyped, NanopayFrame
<1>4. ASSUME NEW c \in Caller, Crash(c) PROVE NanopayInv'
  <2>1. UNCHANGED <<spent, gated>>
    BY <1>4 DEF Crash, money
  <2>2. PriceOK(h'[c]) /\ c \notin Paying' /\ \A d \in Caller \ {c} : h'[d] = h[d]
    BY <1>4, LeaveHands DEF Crash, Paying, PriceOK
  <2>3. QED BY <1>0, <2>1, <2>2, LookupsTyped, NanopayFrame
<1>5. ASSUME \/ Deposit \/ Mature \/ RiskPasses \/ UNCHANGED vars
             \/ \E f \in Foreign : ForeignHead(f) \/ ForeignRecord(f)
      PROVE NanopayInv'
  <2>1. UNCHANGED <<spent, gated, h>>
    BY <1>5 DEF Deposit, Mature, RiskPasses, ForeignHead, ForeignRecord, vars, money
  <2>2. Paying' = Paying
    BY <2>1 DEF Paying
  <2>3. QED BY <2>1, <2>2 DEF NanopayInv, PriceOK, Owing, LookupRoom
<1>6. QED BY <1>1, <1>2, <1>3, <1>4, <1>5, NanopayFetch, NanopayNewDay DEF Next, Step

\* The lookups that ask for the daily limit pass it by at most one lookup for
\* every request the account can have at work, whatever the limit, the price that
\* is checked, the price that is paid, and however many rate checks run beside them.
THEOREM LookupsOvershoot == Spec => []NanopayOvershoot
<1>1. Init => NanopayInv
  <2> SUFFICES ASSUME Init PROVE NanopayInv
    OBVIOUS
  <2>1. Paying = {} /\ spent["nanopay"] = 0 /\ gated = 0
    BY DEF Init, Paying, Idle, NoReq, Kind
  <2>2. \A c \in Caller : PriceOK(h[c])
    BY DEF Init, Idle, PriceOK
  <2>3. QED BY <2>1, <2>2 DEF NanopayInv
<1>2. TypeInv /\ NanopayInv => NanopayOvershoot
  <2> SUFFICES ASSUME TypeInv, NanopayInv, gated > 0
               PROVE  gated <= NanopayDaily - PriceChecked + Cardinality(Caller) * MaxPrice
    BY DEF NanopayOvershoot
  <2>1. Owing <= LookupRoom
    BY DEF NanopayInv
  <2>2. QED BY <2>1, LookupsTyped DEF Owing, LookupRoom
<1>3. QED BY <1>1, <1>2, NanopayStep, SpendingTyped, PTL DEF Spec

-----------------------------------------------------------------------------
(* Pending claims.                                                          *)

\* Callers that have been counted under the cap, and have not opened a claim.
Holding == {c \in Caller : h[c].pc \in {"pay", "book"} /\ BookedAs(h[c].req) = "escrow_hold"}

ClaimInv ==
  /\ Holding # {} => ClaimCap >= 1
  /\ claims + Cardinality(Holding) <= ClaimCap + Cardinality(Caller) - 1

\* A step that opens no claim and counts none.
LEMMA ClaimFrame ==
  ASSUME TypeInv, ClaimInv, claims' = claims,
         NEW c \in Caller, \A d \in Caller \ {c} : h'[d] = h[d],
         c \in Holding' => c \in Holding
  PROVE  ClaimInv'
<1>1. Holding' \in SUBSET Holding /\ Holding \in SUBSET Caller
  BY DEF Holding
<1>2. Cardinality(Holding') <= Cardinality(Holding) /\ Cardinality(Holding) \in Nat
      /\ Cardinality(Holding') \in Nat /\ Cardinality(Caller) \in Nat
  BY <1>1, FewerCallers, CallersCounted
<1>3. claims \in Nat /\ ClaimCap \in Nat
  BY SpendingAssumption DEF TypeInv, DataOK
<1>4. claims' + Cardinality(Holding') <= ClaimCap + Cardinality(Caller) - 1
  BY <1>2, <1>3 DEF ClaimInv
<1>5. QED BY <1>1, <1>4 DEF ClaimInv

\* A send that passes the cap finds fewer claims than the cap.
LEMMA ClaimCheckCap ==
  ASSUME TypeInv, ClaimInv, NEW c \in Caller, CheckCap(c)
  PROVE  ClaimInv'
<1>1. claims' = claims /\ claims \in Nat /\ ClaimCap \in Nat
  BY SpendingAssumption DEF CheckCap, money, TypeInv, DataOK
<1>2. CASE claims < ClaimCap
  <2>1. Holding' \in SUBSET Caller
    BY DEF Holding
  <2>2. Cardinality(Holding') \in Nat /\ Cardinality(Caller) \in Nat
        /\ Cardinality(Holding') <= Cardinality(Caller)
    BY <2>1, CallersCounted
  <2>3. claims' + Cardinality(Holding') <= ClaimCap + Cardinality(Caller) - 1
    BY <1>1, <1>2, <2>2
  <2>4. ClaimCap >= 1
    BY <1>1, <1>2
  <2>5. QED BY <2>3, <2>4 DEF ClaimInv
<1>3. CASE ~(claims < ClaimCap)
  <2>1. Leave(c)
    BY <1>1, <1>3 DEF CheckCap
  <2>2. c \notin Holding' /\ \A d \in Caller \ {c} : h'[d] = h[d]
    BY <2>1, LeaveHands DEF Holding
  <2>3. QED BY <1>1, <2>2, ClaimFrame
<1>4. QED BY <1>2, <1>3

\* A claim that is booked leaves the sends that are still to be booked.
LEMMA ClaimBook ==
  ASSUME TypeInv, ClaimInv, NEW c \in Caller, Book(c)
  PROVE  ClaimInv'
<1>1. /\ \A d \in Caller \ {c} : h'[d] = h[d]
      /\ h'[c].pc = "done" /\ h[c].pc = "book"
  BY GoHands DEF Book
<1>2. c \notin Holding'
  BY <1>1 DEF Holding
<1>3. CASE BookedAs(h[c].req) # "escrow_hold"
  BY <1>1, <1>2, <1>3, ClaimFrame DEF Book
<1>4. CASE BookedAs(h[c].req) = "escrow_hold"
  <2>1. claims' = claims + 1 /\ c \in Holding
    BY <1>1, <1>4 DEF Book, Holding
  <2>2. Holding' \in SUBSET Holding /\ Holding \in SUBSET Caller
    BY <1>1, <1>2 DEF Holding
  <2>3. /\ Cardinality(Holding') <= Cardinality(Holding) - 1 /\ Cardinality(Holding) \in Nat
        /\ Cardinality(Holding') \in Nat /\ Cardinality(Caller) \in Nat
    BY <1>2, <2>1, <2>2, FewerCallers, CallersCounted
  <2>4. claims \in Nat /\ ClaimCap \in Nat
    BY SpendingAssumption DEF TypeInv, DataOK
  <2>5. claims' + Cardinality(Holding') <= ClaimCap + Cardinality(Caller) - 1
    BY <2>1, <2>3, <2>4 DEF ClaimInv
  <2>6. QED BY <2>2, <2>5 DEF ClaimInv
<1>5. QED BY <1>3, <1>4

\* At midnight the sends still to be booked are all there is.
LEMMA ClaimNewDay ==
  ASSUME TypeInv, ClaimInv, NewDay
  PROVE  ClaimInv'
<1>1. claims' = 0 /\ Holding' = Holding
  BY DEF NewDay, Holding
<1>2. Holding \in SUBSET Caller /\ ClaimCap \in Nat
  BY SpendingAssumption DEF Holding
<1>3. /\ Cardinality(Holding) \in Nat /\ Cardinality(Caller) \in Nat
      /\ Cardinality(Holding) <= Cardinality(Caller) /\ Cardinality(Caller) >= 1
      /\ Holding = {} => Cardinality(Holding) = 0
  BY <1>2, CallersCounted, FS_EmptySet
<1>4. Cardinality(Holding) <= ClaimCap + Cardinality(Caller) - 1
  BY <1>2, <1>3 DEF ClaimInv
<1>5. QED BY <1>1, <1>3, <1>4 DEF ClaimInv

\* Every step keeps it.
LEMMA ClaimStep == TypeInv /\ ClaimInv /\ [Next]_vars => ClaimInv'
<1> SUFFICES ASSUME TypeInv, ClaimInv, [Next]_vars PROVE ClaimInv'
  OBVIOUS
<1>1. ASSUME NEW c \in Caller, Command(c) PROVE ClaimInv'
  <2>1. CASE Ask(c) \/ AskPrice(c) \/ AskRate(c) \/ AskLock(c) \/ Confirm(c)
    <3>1. claims' = claims
      BY <2>1 DEF Ask, AskPrice, AskRate, AskLock, Confirm, money
    <3>2. c \notin Holding' /\ \A d \in Caller \ {c} : h'[d] = h[d]
      BY <2>1, AskHands, AskPriceHands, AskRateHands, AskLockHands, ConfirmHands DEF Holding
    <3>3. QED BY <3>1, <3>2, ClaimFrame
  <2>2. CASE SetPolicy(c) \/ ClearPolicy(c) \/ ReportSim(c) \/ Callback(c) \/ Cancel(c)
    <3>1. UNCHANGED <<h, claims>>
      BY <2>2 DEF SetPolicy, ClearPolicy, ReportSim, Callback, Cancel, money
    <3>2. QED BY <3>1 DEF ClaimInv, Holding
  <2>3. QED BY <1>1, <2>1, <2>2 DEF Command
<1>2. ASSUME NEW c \in Caller, Gate(c) PROVE ClaimInv'
  <2>1. claims' = claims
    BY <1>2 DEF Gate, CheckRules, CheckLocks, ReadBalance, CompareLocked, ReadSum, ReadHead,
                Record, Park, money
  <2>2. h'[c].pc \notin {"pay", "book"}
    BY <1>2, GoHands, DecidedHands, LeaveHands, ReadBalanceHands, ReadSumHands, ReadHeadHands
       DEF Gate, CheckRules, CheckLocks, CompareLocked, Weigh, Record, Park
  <2>3. c \notin Holding' /\ \A d \in Caller \ {c} : h'[d] = h[d]
    BY <1>2, <2>2, GateHands DEF Holding
  <2>4. QED BY <2>1, <2>3, ClaimFrame
<1>3. ASSUME NEW c \in Caller, Step(c) PROVE ClaimInv'
  <2>1. CASE Fetch(c) \/ Done(c) \/ PlaceLock(c) \/ ClearRules(c)
    <3>1. claims' = claims
      BY <2>1 DEF Fetch, Done, PlaceLock, ClearRules, money
    <3>2. \/ \E pc \in {"done", "freeze"} : Go(c, pc)
          \/ \E v : Decided(c, v)
          \/ Leave(c)
      BY <2>1 DEF Fetch, Done, PlaceLock, ClearRules
    <3>3. c \notin Holding' /\ \A d \in Caller \ {c} : h'[d] = h[d]
      BY <3>2, GoHands, DecidedHands, LeaveHands DEF Holding
    <3>4. QED BY <3>1, <3>3, ClaimFrame
  <2>2. CASE FreezeRule(c)
    <3>1. claims' = claims
      BY <2>2 DEF FreezeRule, money
    <3>2. c \notin Holding' /\ \A d \in Caller \ {c} : h'[d] = h[d]
      BY <2>2, FreezeRuleHands DEF Holding
    <3>3. QED BY <3>1, <3>2, ClaimFrame
  <2>3. CASE ClaimKey(c)
    <3>1. claims' = claims /\ h[c].pc = "claim"
      BY <2>3 DEF ClaimKey
    <3>2. \/ Leave(c) \/ Go(c, "cap")
          \/ Go(c, "pay") /\ ~(h[c].req.kind = "send" /\ h[c].req.to.claim)
      BY <2>3 DEF ClaimKey
    <3>3. ~(h[c].req.kind = "send" /\ h[c].req.to.claim) => BookedAs(h[c].req) # "escrow_hold"
      BY DEF BookedAs
    <3>4. c \notin Holding' /\ \A d \in Caller \ {c} : h'[d] = h[d]
      BY <3>2, <3>3, GoHands, LeaveHands DEF Holding
    <3>5. QED BY <3>1, <3>4, ClaimFrame
  <2>4. CASE CheckCap(c)
    BY <2>4, ClaimCheckCap
  <2>5. CASE Pay(c)
    <3>1. claims' = claims /\ h[c].pc = "pay"
      BY <2>5 DEF Pay
    <3>2. Go(c, "book") \/ Leave(c)
      BY <2>5 DEF Pay
    <3>3. (c \in Holding' => c \in Holding) /\ \A d \in Caller \ {c} : h'[d] = h[d]
      BY <3>1, <3>2, GoHands, LeaveHands DEF Holding
    <3>4. QED BY <3>1, <3>3, ClaimFrame
  <2>6. CASE Book(c)
    BY <2>6, ClaimBook
  <2>7. QED BY <1>3, <1>2, <2>1, <2>2, <2>3, <2>4, <2>5, <2>6 DEF Step
<1>4. ASSUME NEW c \in Caller, Crash(c) PROVE ClaimInv'
  <2>1. claims' = claims /\ c \notin Holding' /\ \A d \in Caller \ {c} : h'[d] = h[d]
    BY <1>4, LeaveHands DEF Crash, money, Holding
  <2>2. QED BY <2>1, ClaimFrame
<1>5. ASSUME \/ Deposit \/ Mature \/ RiskPasses \/ UNCHANGED vars
             \/ \E f \in Foreign : ForeignHead(f) \/ ForeignRecord(f)
      PROVE ClaimInv'
  <2>1. UNCHANGED <<claims, h>>
    BY <1>5 DEF Deposit, Mature, RiskPasses, ForeignHead, ForeignRecord, vars, money
  <2>2. QED BY <2>1 DEF ClaimInv, Holding
<1>6. QED BY <1>1, <1>3, <1>4, <1>5, ClaimNewDay DEF Next

\* The cap on the claims of a day is passed by at most one claim for every
\* request the account can have at work beside another.
THEOREM ClaimsOvershoot == Spec => []ClaimCapOvershoot
<1>1. Init => ClaimInv
  <2> SUFFICES ASSUME Init PROVE ClaimInv
    OBVIOUS
  <2>1. Holding = {} /\ claims = 0
    BY DEF Init, Holding, Idle
  <2>2. Cardinality({}) = 0 /\ Cardinality(Caller) \in Nat /\ Cardinality(Caller) >= 1
        /\ ClaimCap \in Nat
    BY FS_EmptySet, CallersCounted, SpendingAssumption
  <2>3. claims + Cardinality(Holding) <= ClaimCap + Cardinality(Caller) - 1
    BY <2>1, <2>2
  <2>4. QED BY <2>1, <2>3 DEF ClaimInv
<1>2. TypeInv /\ ClaimInv => ClaimCapOvershoot
  <2> SUFFICES ASSUME TypeInv, ClaimInv PROVE ClaimCapOvershoot
    OBVIOUS
  <2>1. Holding \in SUBSET Caller
    BY DEF Holding
  <2>2. Cardinality(Holding) \in Nat /\ Cardinality(Caller) \in Nat /\ ClaimCap \in Nat
        /\ claims \in Nat
    BY <2>1, CallersCounted, SpendingAssumption DEF TypeInv, DataOK
  <2>3. QED BY <2>2 DEF ClaimInv, ClaimCapOvershoot, Others
<1>3. QED BY <1>1, <1>2, ClaimStep, SpendingTyped, PTL DEF Spec
-----------------------------------------------------------------------------
(* What is locked is in the wallet.                                         *)

\* The amounts of the locks add up to a number.
LEMMA LocksSum ==
  ASSUME NEW s \in Seq(Nat)
  PROVE  /\ DOMAIN s = 1 .. Len(s) /\ Len(s) \in Nat /\ IsFiniteSet(DOMAIN s)
         /\ Sum(s) = SumFunctionOnSet(s, DOMAIN s) /\ Sum(s) \in Nat
         /\ \A i \in DOMAIN s : s[i] \in Nat
<1>1. DOMAIN s = 1 .. Len(s) /\ Len(s) \in Nat /\ \A i \in DOMAIN s : s[i] \in Nat
  OBVIOUS
<1>2. IsFiniteSet(DOMAIN s)
  BY <1>1, FS_Interval
<1>3. Sum(s) = SumFunctionOnSet(s, DOMAIN s)
  BY DEF Sum, SumFunction
<1>4. QED BY <1>1, <1>2, <1>3, SumIsNat

\* One more lock.
LEMMA LocksAdded ==
  ASSUME NEW s \in Seq(Nat), NEW n \in Nat
  PROVE  Sum(Append(s, n)) = Sum(s) + n
<1> DEFINE t == Append(s, n)
<1>1. t \in Seq(Nat) /\ Len(t) = Len(s) + 1
  OBVIOUS
<1>2. \A i \in 1 .. Len(s) : t[i] = s[i]
  OBVIOUS
<1>3. t[Len(s) + 1] = n
  OBVIOUS
<1> HIDE DEF t
<1>4. DOMAIN t = DOMAIN s \cup {Len(s) + 1} /\ Len(s) + 1 \notin DOMAIN s
  BY <1>1, LocksSum
<1>5. \A i \in DOMAIN t : t[i] \in Int
  BY <1>1, LocksSum
<1>6. SumFunctionOnSet(t, DOMAIN t) = n + SumFunctionOnSet(t, DOMAIN s)
  BY <1>3, <1>4, <1>5, LocksSum, SumAdds
<1>7. SumFunctionOnSet(t, DOMAIN s) = SumFunctionOnSet(s, DOMAIN s)
  <2>1. \A i \in DOMAIN s : t[i] \in Int /\ t[i] = s[i]
    BY <1>2, LocksSum
  <2>2. QED BY <2>1, LocksSum, SumOfSame
<1>8. Sum(t) = n + Sum(s) /\ Sum(s) \in Nat
  BY <1>1, <1>6, <1>7, LocksSum
<1>9. QED BY <1>8 DEF t

\* No lock holds nothing.
LEMMA NothingLocked == Sum(<<>>) = 0
<1>1. <<>> \in Seq(Nat) /\ Len(<<>>) = 0
  OBVIOUS
<1>2. DOMAIN <<>> = {}
  BY <1>1, LocksSum
<1>3. Sum(<<>>) = SumFunctionOnSet(<<>>, {})
  BY <1>1, <1>2, LocksSum
<1>4. QED BY <1>3, SumOfNone

\* A wallet covers nothing.
LEMMA NothingMissing == \A x, y, z \in Nat : 0 <= x + y + z
  OBVIOUS

\* A piece of a list of numbers.
LEMMA PieceOfSeq ==
  ASSUME NEW s, NEW p \in Int, NEW q \in Int, p - 1 <= q, \A n \in p .. q : s[n] \in Nat
  PROVE  /\ SubSeq(s, p, q) \in Seq(Nat) /\ Len(SubSeq(s, p, q)) = q - p + 1
         /\ \A n \in 1 .. q - p + 1 : SubSeq(s, p, q)[n] = s[p + n - 1]
<1>1. /\ SubSeq(s, p, q) \in Seq(Nat)
      /\ Len(SubSeq(s, p, q)) = IF p <= q THEN q - p + 1 ELSE 0
      /\ \A n \in 1 .. q - p + 1 : SubSeq(s, p, q)[n] = s[p + n - 1]
  BY SubSeqProperties
<1>2. (IF p <= q THEN q - p + 1 ELSE 0) = q - p + 1
  OBVIOUS
<1>3. QED BY <1>1, <1>2

\* One lock less.
LEMMA LocksReleased ==
  ASSUME NEW s \in Seq(Nat), NEW i \in DOMAIN s
  PROVE  RemoveAt(s, i) \in Seq(Nat) /\ Sum(RemoveAt(s, i)) <= Sum(s)
<1> DEFINE t == RemoveAt(s, i)
           k == [j \in DOMAIN t |-> IF j < i THEN j ELSE j + 1]
<1>1. i \in 1 .. Len(s) /\ Len(s) \in Nat
  OBVIOUS
<1>2. /\ t \in Seq(Nat) /\ Len(t) = Len(s) - 1
      /\ \A j \in 1 .. Len(s) - 1 : t[j] = IF j < i THEN s[j] ELSE s[j + 1]
  <2>1. t = SubSeq(s, 1, i - 1) \o SubSeq(s, i + 1, Len(s))
    BY DEF RemoveAt
  <2>2. /\ SubSeq(s, 1, i - 1) \in Seq(Nat) /\ Len(SubSeq(s, 1, i - 1)) = i - 1
        /\ \A j \in 1 .. i - 1 : SubSeq(s, 1, i - 1)[j] = s[j]
    BY <1>1
  <2>3. /\ SubSeq(s, i + 1, Len(s)) \in Seq(Nat) /\ Len(SubSeq(s, i + 1, Len(s))) = Len(s) - i
        /\ \A j \in 1 .. Len(s) - i : SubSeq(s, i + 1, Len(s))[j] = s[i + j]
    <3> DEFINE p == i + 1
               q == Len(s)
    <3>1. p \in Int /\ q \in Int /\ p - 1 <= q
      BY <1>1
    <3>2. \A n \in p .. q : s[n] \in Nat
      BY <1>1
    <3> HIDE DEF p, q
    <3>3. /\ SubSeq(s, p, q) \in Seq(Nat) /\ Len(SubSeq(s, p, q)) = q - p + 1
          /\ \A n \in 1 .. q - p + 1 : SubSeq(s, p, q)[n] = s[p + n - 1]
      BY <3>1, <3>2, PieceOfSeq
    <3>4. i \in Int /\ q - p + 1 = q - i /\ p = i + 1
      BY <1>1, <3>1 DEF p
    <3>5. \A n \in 1 .. q - i : p + n - 1 = i + n
      BY <3>1, <3>4
    <3>6. /\ SubSeq(s, p, q) \in Seq(Nat) /\ Len(SubSeq(s, p, q)) = q - i
          /\ \A n \in 1 .. q - i : SubSeq(s, p, q)[n] = s[i + n]
      BY <3>3, <3>4, <3>5
    <3>7. QED BY <3>6 DEF p, q
  <2> DEFINE a == SubSeq(s, 1, i - 1)
             b == SubSeq(s, i + 1, Len(s))
  <2> HIDE DEF t, a, b
  <2>4. t = a \o b /\ a \in Seq(Nat) /\ b \in Seq(Nat) /\ Len(a) = i - 1 /\ Len(b) = Len(s) - i
    BY <2>1, <2>2, <2>3 DEF a, b
  <2>5. t \in Seq(Nat) /\ Len(t) = Len(s) - 1
    BY <1>1, <2>4
  <2>6. ASSUME NEW j \in 1 .. Len(s) - 1
        PROVE  t[j] = IF j < i THEN s[j] ELSE s[j + 1]
    <3>1. CASE j < i
      <4>1. t[j] = a[j]
        BY <1>1, <2>4, <3>1
      <4>2. a[j] = s[j]
        BY <1>1, <2>2, <3>1 DEF a
      <4>3. QED BY <3>1, <4>1, <4>2
    <3>2. CASE ~(j < i)
      <4>0. /\ Len(a) = i - 1 /\ Len(b) = Len(s) - i
            /\ a \in Seq(Nat) /\ b \in Seq(Nat) /\ t = a \o b
        BY <2>4
      <4>5. i \in Int /\ j \in Int /\ Len(s) \in Int /\ 1 <= i /\ i <= j /\ j <= Len(s) - 1
        BY <1>1, <3>2
      <4>6. j - (i - 1) \in 1 .. Len(s) - i
        BY <4>5
      <4>9. Len(a) = i - 1 /\ Len(b) = Len(s) - i
        BY <4>0
      <4>7. j \in 1 .. Len(a) + Len(b) /\ ~(j <= Len(a)) /\ j - Len(a) = j - (i - 1)
        BY <4>5, <4>9
      <4>8. (a \o b)[j] = IF j <= Len(a) THEN a[j] ELSE b[j - Len(a)]
        BY <4>0, <4>7, ConcatProperties
      <4>1. t[j] = b[j - (i - 1)] /\ j - (i - 1) \in 1 .. Len(s) - i
        BY <4>0, <4>6, <4>7, <4>8
      <4>2. b[j - (i - 1)] = s[i + (j - (i - 1))]
        BY <2>3, <4>1 DEF b
      <4>3. i + (j - (i - 1)) = j + 1
        BY <1>1
      <4>4. QED BY <3>2, <4>1, <4>2, <4>3
    <3>3. QED BY <3>1, <3>2
  <2>7. QED BY <2>5, <2>6
<1> HIDE DEF t
<1>3. /\ DOMAIN t = 1 .. Len(s) - 1 /\ DOMAIN s = 1 .. Len(s)
      /\ IsFiniteSet(DOMAIN t) /\ IsFiniteSet(DOMAIN s)
  BY <1>2, LocksSum
<1>4. /\ \A j \in DOMAIN t : t[j] \in Int /\ k[j] \in DOMAIN s \ {i} /\ t[j] = s[k[j]]
      /\ \A j, l \in DOMAIN t : k[j] = k[l] => j = l
  <2>1. \A j \in DOMAIN t : t[j] \in Int
    BY <1>2, LocksSum
  <2>2. ASSUME NEW j \in DOMAIN t
        PROVE  k[j] \in DOMAIN s \ {i} /\ t[j] = s[k[j]]
    <3>1. j \in 1 .. Len(s) - 1 /\ k[j] = IF j < i THEN j ELSE j + 1
      BY <1>3
    <3>2. t[j] = IF j < i THEN s[j] ELSE s[j + 1]
      BY <1>2, <3>1
    <3>3. k[j] \in 1 .. Len(s) /\ k[j] # i
      BY <1>1, <3>1
    <3>4. QED BY <1>3, <3>1, <3>2, <3>3
  <2>3. ASSUME NEW j \in DOMAIN t, NEW l \in DOMAIN t, k[j] = k[l]
        PROVE  j = l
    <3>1. j \in Int /\ l \in Int /\ i \in Int
      BY <1>1, <1>3
    <3>2. (IF j < i THEN j ELSE j + 1) = (IF l < i THEN l ELSE l + 1)
      BY <2>3
    <3>3. QED BY <3>1, <3>2
  <2>4. QED BY <2>1, <2>2, <2>3
<1>5. \A z \in DOMAIN s \ {i} : \E j \in DOMAIN t : k[j] = z
  <2> SUFFICES ASSUME NEW z \in DOMAIN s \ {i}
               PROVE  \E j \in DOMAIN t : k[j] = z
    OBVIOUS
  <2>1. CASE z < i
    <3>1. z \in DOMAIN t
      BY <1>1, <1>3, <2>1
    <3>2. k[z] = z
      BY <2>1, <3>1
    <3>3. QED BY <3>1, <3>2
  <2>2. CASE z > i
    <3>1. z - 1 \in DOMAIN t /\ ~(z - 1 < i) /\ z - 1 + 1 = z
      BY <1>1, <1>3, <2>2
    <3>2. k[z - 1] = z
      BY <3>1
    <3>3. QED BY <3>1, <3>2
  <2>3. QED BY <1>1, <1>3, <2>1, <2>2
<1> HIDE DEF k
<1>6. IsFiniteSet(DOMAIN s \ {i})
  BY <1>3, FS_Subset
<1>7. SumFunctionOnSet(t, DOMAIN t) = SumFunctionOnSet(s, DOMAIN s \ {i})
  <2> DEFINE T == DOMAIN s \ {i}
             D == DOMAIN t
  <2>1. /\ \A j \in D : t[j] \in Int /\ k[j] \in T /\ t[j] = s[k[j]]
        /\ \A j, l \in D : k[j] = k[l] => j = l
        /\ \A z \in T : \E j \in D : k[j] = z
        /\ IsFiniteSet(D) /\ IsFiniteSet(T)
    BY <1>3, <1>4, <1>5, <1>6
  <2> HIDE DEF T, D
  <2>2. SumFunctionOnSet(t, D) = SumFunctionOnSet(s, T)
    BY <2>1, SumRenamed
  <2>3. QED BY <2>2 DEF T, D
<1>8. SumFunctionOnSet(s, DOMAIN s \ {i}) <= SumFunctionOnSet(s, DOMAIN s)
  <2>1. \A j \in DOMAIN s : s[j] \in Int /\ s[j] >= 0
    BY LocksSum
  <2>2. QED BY <1>3, <2>1, SumOfPart
<1>9. Sum(t) <= Sum(s)
  BY <1>2, <1>7, <1>8, LocksSum
<1>10. QED BY <1>2, <1>9 DEF t

\* A request the locks leave room for: a spend always, when there are none.
Fits(r) ==
  r.kind \in Spends \cup {"lock"} =>
    r.amt <= Available(balance, Sum(locks)) \/ (r.kind # "lock" /\ Sum(locks) = 0)

\* The check of the locks is behind it.
Passed(t) == \/ t.pc \in {"sums", "park", "claim", "cap", "pay", "place"}
             \/ t.pc \in {"head", "insert"} /\ t.verdict = "confirm"

\* A caller that nothing has overtaken: what it has been let through with, or
\* the balance it has read, still holds.
LockHand(t) ==
  t.req.id \notin stale =>
    /\ Passed(t) => Fits(t.req)
    /\ t.pc = "locked" => t.bal <= balance \/ (t.req.kind # "lock" /\ Sum(locks) = 0)

LockInv ==
  /\ LocksCovered
  /\ pend.id \notin stale => Fits(pend)
  /\ \A c \in Caller : LockHand(h[c])

\* The numbers of a state, and the amounts of the requests in hand.
LEMMA LockNumbers ==
  ASSUME TypeInv
  PROVE  /\ balance \in Nat /\ Sum(locks) \in Nat /\ locks \in Seq(Nat)
         /\ burnt \in Nat /\ loose \in Nat
         /\ Available(balance, Sum(locks)) \in Nat
         /\ pend.amt \in Nat
         /\ \A c \in Caller : h[c].req.amt \in Nat /\ h[c].bal \in Nat
<1>1. balance \in Nat /\ Sum(locks) \in Nat /\ locks \in Seq(Nat)
  BY LocksSum DEF TypeInv, DataOK
<1>2. Available(balance, Sum(locks)) \in Nat
  BY <1>1 DEF Available
<1>3. QED BY <1>1, <1>2 DEF TypeInv, DataOK, Work, Request

\* A step of a caller that leaves the wallet and the locks alone.
LEMMA LockFrame ==
  ASSUME LockInv, NEW c \in Caller, \A d \in Caller \ {c} : h'[d] = h[d],
         balance' = balance, UNCHANGED savings, LockHand(h[c])',
         pend'.id \notin stale => Fits(pend)'
  PROVE  LockInv'
<1>1. locks' = locks /\ burnt' = burnt /\ stale' = stale /\ loose' = loose
  BY DEF savings
<1>2. LocksCovered'
  BY <1>1 DEF LockInv, LocksCovered
<1>3. ASSUME NEW d \in Caller PROVE LockHand(h[d])'
  <2>1. CASE d = c
    BY <2>1
  <2>2. CASE d # c
    BY <1>1, <2>2 DEF LockInv, LockHand, Passed, Fits
  <2>3. QED BY <2>1, <2>2
<1>4. QED BY <1>1, <1>2, <1>3 DEF LockInv

\* The usual case of it: the parked request stays as it is.
LEMMA LockKeeps ==
  ASSUME LockInv, NEW c \in Caller, \A d \in Caller \ {c} : h'[d] = h[d],
         balance' = balance, UNCHANGED savings, LockHand(h[c])', pend' = pend
  PROVE  LockInv'
<1>1. pend'.id \notin stale => Fits(pend)'
  BY DEF LockInv, Fits, savings
<1>2. QED BY <1>1, LockFrame

\* More money, or less that is locked.
LEMMA LockEases ==
  ASSUME TypeInv, TypeInv', LockInv, UNCHANGED <<h, pend, stale>>,
         balance' >= balance, Sum(locks)' <= Sum(locks), LocksCovered'
  PROVE  LockInv'
<1>0. balance' \in Nat /\ Sum(locks)' \in Nat
  <2>1. locks' \in Seq(Nat)
    BY DEF TypeInv, DataOK
  <2>2. Sum(locks') \in Nat
    BY <2>1, LocksSum
  <2>3. QED BY <2>2 DEF TypeInv, DataOK, Sum
<1>1. /\ balance \in Nat /\ balance' \in Nat /\ Sum(locks) \in Nat /\ Sum(locks)' \in Nat
      /\ pend.amt \in Nat /\ \A c \in Caller : h[c].req.amt \in Nat /\ h[c].bal \in Nat
  BY <1>0, LockNumbers
<1>2. /\ Available(balance, Sum(locks)) <= Available(balance, Sum(locks))'
      /\ Available(balance, Sum(locks)) \in Nat /\ Available(balance, Sum(locks))' \in Nat
      /\ Sum(locks) = 0 => Sum(locks)' = 0
  BY <1>1 DEF Available
<1>3. ASSUME NEW r, r.amt \in Nat, Fits(r)
      PROVE  Fits(r)'
  BY <1>2, <1>3 DEF Fits
<1>4. pend'.id \notin stale' => Fits(pend)'
  <2>1. Fits(pend) => Fits(pend)'
    BY <1>1, <1>2 DEF Fits
  <2>2. QED BY <2>1 DEF LockInv
<1>5. ASSUME NEW c \in Caller PROVE LockHand(h[c])'
  <2>1. LockHand(h[c]) /\ h[c].req.amt \in Nat /\ h[c].bal \in Nat
    BY <1>1 DEF LockInv
  <2>2. Fits(h[c].req) => Fits(h[c].req)'
    BY <1>2, <2>1 DEF Fits
  <2>3. h[c].bal <= balance => h[c].bal <= balance'
    BY <1>1, <2>1
  <2>4. QED BY <1>2, <2>1, <2>2, <2>3 DEF LockHand, Passed
<1>6. QED BY <1>4, <1>5 DEF LockInv

\* Whoever takes from the wallet, or adds a lock, makes stale what is in play: a
\* lock, and a spend when the locks count.
LEMMA Overtaken ==
  ASSUME TypeInv, NEW locked \in BOOLEAN, Overtake(locked)
  PROVE  /\ pend.id \notin stale' =>
              pend.kind # "lock" /\ (locked => pend.kind \notin Spends)
         /\ \A d \in Caller :
              h[d].pc \notin {"rules", "locks", "balance"} /\ h[d].req.id \notin stale' =>
                h[d].req.kind # "lock" /\ (locked => h[d].req.kind \notin Spends)
<1>1. stale' = stale \cup {r.id : r \in Checked(locked)}
  BY DEF Overtake
<1>2. ASSUME NEW r \in Checked(locked) PROVE r.id \in stale'
  BY <1>1
<1>3. pend.kind = "lock" \/ (locked /\ pend.kind \in Spends) => pend \in Checked(locked)
  BY DEF Checked
<1>4. ASSUME NEW d \in Caller, h[d].pc \notin {"rules", "locks", "balance"},
             h[d].req.kind = "lock" \/ (locked /\ h[d].req.kind \in Spends)
      PROVE  h[d].req \in Checked(locked)
  BY <1>4 DEF Checked
<1>5. QED BY <1>2, <1>3, <1>4

\* Then nothing that is left has been checked against what is gone.
LEMMA LockOvertakes ==
  ASSUME TypeInv, NEW c \in Caller, \A d \in Caller \ {c} : h'[d] = h[d],
         ~Passed(h[c])', h'[c].pc # "locked", pend' = pend,
         NEW locked \in BOOLEAN, Overtake(locked), ~locked => Sum(locks)' = 0,
         LocksCovered'
  PROVE  LockInv'
<1>1. pend'.id \notin stale' => Fits(pend)'
  BY Overtaken DEF Fits
<1>2. ASSUME NEW d \in Caller PROVE LockHand(h[d])'
  <2>1. CASE d = c
    BY <2>1 DEF LockHand
  <2>2. CASE d # c
    <3>1. h'[d] = h[d] /\ WorkOK(h[d], started)
      BY <2>2 DEF TypeInv
    <3>2. SUFFICES ASSUME h[d].req.id \notin stale', Passed(h[d]) \/ h[d].pc = "locked"
                   PROVE  Fits(h[d].req)' /\ (h[d].pc = "locked" =>
                              h[d].req.kind # "lock" /\ Sum(locks)' = 0)
      BY <3>1 DEF LockHand, Passed
    <3>3. h[d].pc \notin {"rules", "locks", "balance"}
      BY <3>2 DEF Passed
    <3>4. h[d].req.kind # "lock" /\ (locked => h[d].req.kind \notin Spends)
      BY <3>2, <3>3, Overtaken
    <3>5. Fits(h[d].req)'
      BY <3>1, <3>4 DEF Fits
    <3>6. h[d].pc = "locked" => h[d].req.kind \in Spends \cup {"lock"}
      BY <3>1 DEF WorkOK, KindsAt
    <3>7. QED BY <3>4, <3>5, <3>6
  <2>3. QED BY <2>1, <2>2
<1>3. QED BY <1>1, <1>2 DEF LockInv

\* A command has been checked against nothing yet, or was when it was parked.
LEMMA LockCommand ==
  ASSUME TypeInv, LockInv, NEW c \in Caller, Command(c)
  PROVE  LockInv'
<1>1. balance' = balance /\ UNCHANGED savings
  BY DEF Command, Ask, AskPrice, AskRate, SetPolicy, ClearPolicy, AskLock, ReportSim, Callback,
         Cancel, Confirm, money
<1>2. CASE Ask(c) \/ AskPrice(c) \/ AskRate(c) \/ AskLock(c)
  <2>1. pend' = pend
    BY <1>2 DEF Ask, AskPrice, AskRate, AskLock
  <2>2. /\ \A d \in Caller \ {c} : h'[d] = h[d]
        /\ h'[c].pc # "locked" /\ (Passed(h'[c]) => h'[c].req.kind = "price")
    <3>1. CASE Ask(c)
      BY <3>1, AskHands DEF Passed
    <3>2. CASE AskPrice(c) \/ AskRate(c) \/ AskLock(c)
      BY <3>2, AskPriceHands, AskRateHands, AskLockHands DEF Passed
    <3>3. QED BY <1>2, <3>1, <3>2
  <2>3. LockHand(h[c])'
    BY <2>2 DEF LockHand, Passed, Fits, Spends
  <2>4. QED BY <1>1, <2>1, <2>2, <2>3, LockKeeps
<1>3. CASE SetPolicy(c) \/ Cancel(c) \/ ClearPolicy(c) \/ ReportSim(c) \/ Callback(c)
  <2>1. h' = h /\ (pend' = pend \/ pend'.kind \in {"policy", "none"})
    <3>1. CASE SetPolicy(c)
      BY <3>1 DEF SetPolicy, NoReq
    <3>2. CASE Cancel(c)
      BY <3>2 DEF Cancel, NoReq
    <3>3. CASE ClearPolicy(c) \/ ReportSim(c) \/ Callback(c)
      BY <3>3 DEF ClearPolicy, ReportSim, Callback
    <3>4. QED BY <1>3, <3>1, <3>2, <3>3
  <2>2. LockHand(h[c])'
    BY <1>1, <2>1 DEF LockInv, LockHand, Passed, Fits, savings
  <2>3. pend'.id \notin stale => Fits(pend)'
    BY <1>1, <2>1 DEF LockInv, Fits, Spends, savings
  <2>4. QED BY <1>1, <2>1, <2>2, <2>3, LockFrame
<1>4. CASE Confirm(c)
  <2>1. pend' = pend
    BY <1>4 DEF Confirm
  <2>2. LockHand(h[c])'
    BY <1>1, <1>4, ConfirmHands DEF LockInv, LockHand, Passed, Fits, savings
  <2>3. QED BY <1>1, <1>4, <2>1, <2>2, ConfirmHands, LockKeeps
<1>5. QED BY <1>2, <1>3, <1>4 DEF Command

\* The gate lets through what fits: the balance it has read is still there, or
\* the request has been overtaken.
LEMMA LockCompare ==
  ASSUME TypeInv, LockInv, NEW c \in Caller, CheckLocks(c) \/ CompareLocked(c)
  PROVE  LockHand(h[c])'
<1> DEFINE r == h[c].req
<1>0. /\ balance' = balance /\ UNCHANGED savings /\ LockHand(h[c])
      /\ h[c] \in Work /\ WorkOK(h[c], started)
  BY DEF CheckLocks, CompareLocked, money, LockInv, TypeInv
<1>1. /\ balance \in Nat /\ Sum(locks) \in Nat /\ r.amt \in Nat /\ h[c].bal \in Nat
      /\ Available(balance, Sum(locks)) \in Nat
  BY LockNumbers
<1>2. locks' = locks /\ stale' = stale
  BY <1>0 DEF savings
<1>3. ASSUME r.id \notin stale => Fits(r), h'[c].req = r, h'[c].pc # "locked"
      PROVE  LockHand(h[c])'
  BY <1>0, <1>2, <1>3 DEF LockHand, Passed, Fits
<1>4. CASE CheckLocks(c)
  <2>1. CASE Sum(locks) > 0
    <3>1. h'[c].pc = "balance"
      BY <1>4, <2>1, GoHands DEF CheckLocks
    <3>2. QED BY <3>1 DEF LockHand, Passed
  <2>2. CASE ~(Sum(locks) > 0)
    <3>1. Weigh(c, r.amt) /\ h[c].pc = "locks"
      BY <1>4, <2>2 DEF CheckLocks
    <3>2. r.kind \in Spends
      BY <1>0, <3>1 DEF WorkOK, KindsAt
    <3>3. Fits(r)
      BY <1>1, <2>2, <3>2 DEF Fits, Spends
    <3>4. h'[c].req = r /\ h'[c].pc \in {"sums", "head"}
      BY <1>1, <3>1, WeighHands
    <3>5. QED BY <1>3, <3>3, <3>4
  <2>3. QED BY <2>1, <2>2
<1>5. CASE CompareLocked(c)
  <2> DEFINE available == Available(h[c].bal, Sum(locks))
  <2>1. h[c].pc = "locked" /\ available \in Nat
    BY <1>1, <1>5 DEF CompareLocked, Available
  <2>2. ASSUME r.amt <= available
        PROVE  r.id \notin stale => Fits(r)
    <3>1. SUFFICES ASSUME r.id \notin stale PROVE Fits(r)
      OBVIOUS
    <3>2. h[c].bal <= balance \/ (r.kind # "lock" /\ Sum(locks) = 0)
      BY <1>0, <2>1, <3>1 DEF LockHand
    <3>3. h[c].bal <= balance => available <= Available(balance, Sum(locks))
      BY <1>1 DEF Available
    <3>4. CASE h[c].bal <= balance
      BY <1>1, <2>1, <2>2, <3>3, <3>4 DEF Fits
    <3>5. CASE r.kind # "lock" /\ Sum(locks) = 0
      BY <3>5 DEF Fits
    <3>6. QED BY <3>2, <3>4, <3>5
  <2>3. CASE r.kind # "lock"
    <3>1. Weigh(c, available)
      BY <1>5, <2>3 DEF CompareLocked
    <3> HIDE DEF available
    <3>2. /\ h'[c].req = r
          /\ \/ h'[c].pc = "sums" /\ r.amt <= available
             \/ /\ h'[c].pc = "head" /\ h'[c].verdict \in {"reject", "confirm"}
                /\ h'[c].verdict = "confirm" => r.amt <= available
      BY <2>1, <3>1, WeighHands
    <3>3. CASE r.amt <= available
      BY <1>3, <2>2, <3>2, <3>3
    <3>4. CASE ~(r.amt <= available)
      BY <3>2, <3>4 DEF LockHand, Passed
    <3>5. QED BY <3>3, <3>4
  <2>4. CASE r.kind = "lock"
    <3>1. Leave(c) \/ (Go(c, "park") /\ ~(r.amt > available))
      BY <1>5, <2>4 DEF CompareLocked
    <3>2. CASE Leave(c)
      BY <3>2, LeaveHands DEF LockHand, Passed
    <3>3. CASE Go(c, "park") /\ ~(r.amt > available)
      <4>1. r.amt <= available
        BY <1>1, <2>1, <3>3
      <4>2. h'[c].req = r /\ h'[c].pc = "park"
        BY <3>3, GoHands
      <4>3. QED BY <1>3, <2>2, <4>1, <4>2
    <3>4. QED BY <3>1, <3>2, <3>3
  <2>5. QED BY <2>3, <2>4
<1>6. QED BY <1>4, <1>5

\* The gate, up to the parked request.
LEMMA LockGate ==
  ASSUME TypeInv, LockInv, NEW c \in Caller, Gate(c)
  PROVE  LockInv'
<1>1. balance' = balance /\ UNCHANGED savings /\ \A d \in Caller \ {c} : h'[d] = h[d]
  BY GateHands DEF Gate, CheckRules, CheckLocks, ReadBalance, CompareLocked, ReadSum, ReadHead,
                   Record, Park, money
<1>2. locks' = locks /\ stale' = stale /\ LockHand(h[c])
  BY <1>1 DEF savings, LockInv
<1>3. ASSUME h'[c].req = h[c].req, Passed(h'[c]) => Passed(h[c]), h'[c].pc # "locked"
      PROVE  LockHand(h[c])'
  BY <1>1, <1>2, <1>3 DEF LockHand, Passed, Fits
<1>4. CASE Park(c)
  <2>1. pend' = h[c].req /\ h[c].pc = "park" /\ h'[c].pc = "idle"
    BY <1>4, LeaveHands DEF Park
  <2>2. pend'.id \notin stale => Fits(pend)'
    BY <1>1, <1>2, <2>1 DEF LockHand, Passed, Fits
  <2>3. LockHand(h[c])'
    BY <2>1 DEF LockHand, Passed
  <2>4. QED BY <1>1, <2>2, <2>3, LockFrame
<1>5. CASE ~Park(c)
  <2>1. pend' = pend
    BY <1>5 DEF Gate, CheckRules, CheckLocks, ReadBalance, CompareLocked, ReadSum, ReadHead, Record
  <2>2. LockHand(h[c])'
    <3>1. CASE CheckRules(c)
      <4>1. \/ Go(c, "locks")
            \/ \E v \in {"reject", "callback", "next"} : Decided(c, v)
        BY <3>1, VerdictsTyped DEF CheckRules
      <4>2. CASE Go(c, "locks")
        BY <4>2, GoHands DEF LockHand, Passed
      <4>3. CASE \E v \in {"reject", "callback", "next"} : Decided(c, v)
        BY <4>3, DecidedHands DEF LockHand, Passed
      <4>4. QED BY <4>1, <4>2, <4>3
    <3>2. CASE CheckLocks(c) \/ CompareLocked(c)
      BY <3>2, LockCompare
    <3>3. CASE ReadBalance(c)
      <4>1. h'[c].pc = "locked" /\ h'[c].bal = balance
        BY <3>3, ReadBalanceHands
      <4>2. balance \in Nat
        BY LockNumbers
      <4>3. QED BY <1>1, <4>1, <4>2 DEF LockHand, Passed
    <3>4. CASE ReadSum(c)
      BY <1>3, <3>4, ReadSumHands DEF Passed
    <3>5. CASE ReadHead(c)
      BY <1>3, <3>5, ReadHeadHands DEF Passed
    <3>6. CASE Record(c)
      <4>1. h[c].pc = "insert"
        BY <3>6 DEF Record
      <4>2. \/ h[c].verdict = "confirm" /\ Go(c, "park")
            \/ Go(c, "fetch")
            \/ Leave(c)
        BY <3>6 DEF Record
      <4>3. CASE h[c].verdict = "confirm" /\ Go(c, "park")
        BY <1>3, <4>1, <4>3, GoHands DEF Passed
      <4>4. CASE Go(c, "fetch") \/ Leave(c)
        BY <4>4, GoHands, LeaveHands DEF LockHand, Passed
      <4>5. QED BY <4>2, <4>3, <4>4
    <3>7. QED BY <1>5, <3>1, <3>2, <3>3, <3>4, <3>5, <3>6 DEF Gate
  <2>3. QED BY <1>1, <2>1, <2>2, LockKeeps
<1>6. QED BY <1>4, <1>5

\* A payment that was not overtaken takes no more than there is beside the
\* locks; what one takes that was, and the gas, are counted.
LEMMA LockPay ==
  ASSUME TypeInv, TypeInv', LockInv, NEW c \in Caller, Pay(c)
  PROVE  LockInv'
<1> DEFINE r == h[c].req
           locked == Sum(locks) > 0
<1>1. /\ h[c].pc = "pay" /\ pend' = pend /\ locks' = locks
      /\ Go(c, "book") \/ Leave(c)
  BY DEF Pay
<1>2. /\ h'[c].pc \in {"book", "idle"} /\ \A d \in Caller \ {c} : h'[d] = h[d]
  BY <1>1, GoHands, LeaveHands
<1>3. /\ balance \in Nat /\ Sum(locks) \in Nat /\ r.amt \in Nat
      /\ burnt \in Nat /\ loose \in Nat /\ Available(balance, Sum(locks)) \in Nat
  BY LockNumbers
<1>4. menu.gas \in Nat
  BY MenuTyped DEF TypeInv, DataOK
<1>5. PICK gas \in Nat, amt \in {0, r.amt} : Takes(c, amt, gas)
  <2>1. PICK gas \in 0 .. menu.gas : Takes(c, r.amt, gas) \/ Takes(c, 0, gas)
    BY DEF Pay
  <2>2. gas \in Nat
    BY <1>4, <2>1
  <2>3. QED BY <2>1, <2>2
<1>6. /\ amt + gas <= balance /\ balance' = balance - (amt + gas)
      /\ burnt' = IF locked THEN burnt + gas ELSE burnt
      /\ loose' = IF locked /\ r.id \in stale THEN loose + amt ELSE loose
      /\ IF amt + gas = 0 THEN stale' = stale ELSE Overtake(locked)
  BY <1>5 DEF Takes
<1>7. amt \in Nat /\ gas \in Nat /\ amt <= r.amt
  BY <1>3, <1>5
<1>8. Sum(locks)' = Sum(locks)
  BY <1>1 DEF Sum
<1>9. LocksCovered'
  <2>1. SUFFICES Sum(locks) <= balance' + burnt' + loose'
    BY <1>8 DEF LocksCovered
  <2>2. Sum(locks) <= balance + burnt + loose
    BY DEF LockInv, LocksCovered
  <2>3. CASE ~locked
    <3>1. Sum(locks) = 0 /\ balance' \in Nat /\ burnt' = burnt /\ loose' = loose
      <4>1. balance' \in Nat
        BY <1>3, <1>6, <1>7
      <4>2. burnt' = burnt /\ loose' = loose
        BY <1>6, <2>3
      <4>3. Sum(locks) = 0
        BY <1>3, <2>3
      <4>4. QED BY <4>1, <4>2, <4>3
    <3>2. QED BY <1>3, <3>1, NothingMissing
  <2>4. CASE locked /\ r.id \in stale
    <3>1. burnt' = burnt + gas /\ loose' = loose + amt
      BY <1>6, <2>4
    <3>2. QED BY <1>3, <1>6, <1>7, <2>2, <3>1
  <2>5. CASE locked /\ r.id \notin stale
    <3>1. burnt' = burnt + gas /\ loose' = loose
      BY <1>6, <2>5
    <3>2. r.kind \in Spends
      BY <1>1 DEF TypeInv, WorkOK, KindsAt
    <3>3. r.amt <= Available(balance, Sum(locks))
      <4>1. Fits(r)
        BY <1>1, <2>5 DEF LockInv, LockHand, Passed
      <4>2. Sum(locks) # 0
        BY <1>3, <2>5
      <4>3. QED BY <3>2, <4>1, <4>2 DEF Fits
    <3>4. CASE balance > Sum(locks)
      <4>1. r.amt <= balance - Sum(locks)
        BY <3>3, <3>4 DEF Available
      <4>2. QED BY <1>3, <1>6, <1>7, <3>1, <4>1
    <3>5. CASE ~(balance > Sum(locks))
      <4>1. r.amt <= 0
        BY <3>3, <3>5 DEF Available
      <4>2. amt = 0
        BY <1>3, <1>7, <4>1
      <4>3. QED BY <1>3, <1>6, <1>7, <2>2, <3>1, <4>2
    <3>6. QED BY <3>4, <3>5
  <2>6. QED BY <2>3, <2>4, <2>5
<1>10. ~Passed(h[c])' /\ h'[c].pc # "locked"
  BY <1>2 DEF Passed
<1>11. CASE amt + gas = 0
  <2>1. amt = 0 /\ gas = 0
    BY <1>7, <1>11
  <2>2. balance' = balance /\ stale' = stale
    BY <1>3, <1>6, <1>11, <2>1
  <2>3. burnt' = burnt /\ loose' = loose
    BY <1>3, <1>6, <2>1
  <2>4. LockHand(h[c])'
    BY <1>10 DEF LockHand
  <2>5. UNCHANGED savings
    BY <1>1, <2>2, <2>3 DEF savings
  <2>6. QED BY <1>1, <1>2, <2>2, <2>4, <2>5, LockKeeps
<1>12. CASE amt + gas # 0
  <2>1. Overtake(locked)
    BY <1>6, <1>12
  <2>2. locked \in BOOLEAN /\ (~locked => Sum(locks)' = 0)
    BY <1>3, <1>8
  <2> HIDE DEF locked
  <2>3. QED BY <1>1, <1>2, <1>9, <1>10, <2>1, <2>2, LockOvertakes
<1>13. QED BY <1>11, <1>12

\* So does a lock.
LEMMA LockPlace ==
  ASSUME TypeInv, TypeInv', LockInv, NEW c \in Caller, PlaceLock(c)
  PROVE  LockInv'
<1> DEFINE r == h[c].req
<1>1. /\ h[c].pc = "place" /\ pend' = pend /\ balance' = balance /\ burnt' = burnt
      /\ locks' = Append(locks, r.amt) /\ Overtake(TRUE)
      /\ loose' = IF r.id \in stale THEN loose + r.amt ELSE loose
  BY DEF PlaceLock, money
<1>2. /\ h'[c].pc = "done" /\ \A d \in Caller \ {c} : h'[d] = h[d]
  BY GoHands DEF PlaceLock
<1>3. /\ balance \in Nat /\ Sum(locks) \in Nat /\ locks \in Seq(Nat) /\ r.amt \in Nat
      /\ burnt \in Nat /\ loose \in Nat
  BY LockNumbers
<1>4. Sum(locks)' = Sum(locks) + r.amt
  <2>1. Sum(Append(locks, r.amt)) = Sum(locks) + r.amt
    BY <1>3, LocksAdded
  <2>2. QED BY <1>1, <2>1 DEF Sum
<1>5. LocksCovered'
  <2>1. SUFFICES Sum(locks) + r.amt <= balance + burnt + loose'
    BY <1>1, <1>4 DEF LocksCovered
  <2>2. Sum(locks) <= balance + burnt + loose
    BY DEF LockInv, LocksCovered
  <2>3. CASE r.id \in stale
    <3>1. loose' = loose + r.amt
      BY <1>1, <2>3
    <3>2. QED BY <1>3, <2>2, <3>1
  <2>4. CASE r.id \notin stale
    <3>1. r.kind = "lock"
      BY <1>1 DEF TypeInv, WorkOK, KindsAt
    <3>2. r.amt <= Available(balance, Sum(locks))
      <4>1. Fits(r)
        BY <1>1, <2>4 DEF LockInv, LockHand, Passed
      <4>2. QED BY <3>1, <4>1 DEF Fits
    <3>3. r.amt <= balance - Sum(locks) \/ r.amt <= 0
      BY <3>2 DEF Available
    <3>4. loose' = loose
      BY <1>1, <2>4
    <3>5. QED BY <1>3, <2>2, <3>3, <3>4
  <2>5. QED BY <2>3, <2>4
<1>6. ~Passed(h[c])' /\ h'[c].pc # "locked"
  BY <1>2 DEF Passed
<1>7. TRUE \in BOOLEAN /\ (~TRUE => Sum(locks)' = 0)
  OBVIOUS
<1>8. QED BY <1>1, <1>2, <1>5, <1>6, <1>7, LockOvertakes

\* The other steps leave the wallet and the locks alone.
LEMMA LockRest ==
  ASSUME TypeInv, LockInv, NEW c \in Caller,
         \/ Fetch(c) \/ ClaimKey(c) \/ CheckCap(c) \/ Book(c) \/ Done(c) \/ ClearRules(c)
         \/ FreezeRule(c) \/ Crash(c)
  PROVE  LockInv'
<1>1. balance' = balance /\ UNCHANGED savings
  BY DEF Fetch, ClaimKey, CheckCap, Book, Done, ClearRules, FreezeRule, Crash, money
<1>2. /\ \A d \in Caller \ {c} : h'[d] = h[d]
      /\ \/ h'[c].pc \in {"idle", "book", "done", "freeze"}
         \/ h'[c].pc = "head" /\ h'[c].verdict = "pass"
         \/ /\ h'[c].pc \in {"cap", "pay"} /\ h[c].pc \in {"claim", "cap"}
            /\ h'[c].req = h[c].req
  <2>1. CASE FreezeRule(c)
    BY <2>1, FreezeRuleHands
  <2>2. CASE ClaimKey(c) \/ CheckCap(c)
    <3>1. h[c].pc \in {"claim", "cap"} /\ (Leave(c) \/ Go(c, "cap") \/ Go(c, "pay"))
      BY <2>2 DEF ClaimKey, CheckCap
    <3>2. QED BY <3>1, LeaveHands, GoHands
  <2>3. CASE Fetch(c) \/ Book(c) \/ Done(c) \/ ClearRules(c) \/ Crash(c)
    <3>1. Leave(c) \/ Go(c, "done") \/ Go(c, "freeze") \/ Decided(c, "pass")
      BY <2>3 DEF Fetch, Book, Done, ClearRules, Crash
    <3>2. QED BY <3>1, LeaveHands, GoHands, DecidedHands
  <2>4. QED BY <2>1, <2>2, <2>3
<1>3. LockHand(h[c])'
  BY <1>1, <1>2 DEF LockInv, LockHand, Passed, Fits, savings
<1>4. pend' = pend \/ pend' = NoReq
  BY DEF Fetch, ClaimKey, CheckCap, Book, Done, ClearRules, FreezeRule, Crash
<1>5. pend'.id \notin stale => Fits(pend)'
  BY <1>1, <1>4 DEF LockInv, Fits, NoReq, Spends, savings
<1>6. QED BY <1>1, <1>2, <1>3, <1>5, LockFrame

\* What happens around the requests adds money or frees what is locked.
LEMMA LockAround ==
  ASSUME TypeInv, TypeInv', LockInv,
         \/ Deposit \/ Mature \/ RiskPasses \/ NewDay \/ UNCHANGED vars
         \/ \E f \in Foreign : ForeignHead(f) \/ ForeignRecord(f)
  PROVE  LockInv'
<1>1. UNCHANGED <<h, pend, stale>>
  BY DEF Deposit, Mature, RiskPasses, NewDay, ForeignHead, ForeignRecord, vars, money, savings
<1>2. balance \in Nat /\ Sum(locks) \in Nat /\ locks \in Seq(Nat) /\ burnt \in Nat /\ loose \in Nat
  BY LockNumbers
<1>c. Sum(locks) <= balance + burnt + loose
  BY DEF LockInv, LocksCovered
<1>3. CASE Mature
  <2>1. balance' = balance
    BY <1>3 DEF Mature, money
  <2>2. PICK i \in DOMAIN locks : locks' = RemoveAt(locks, i)
    BY <1>3 DEF Mature
  <2>3. Sum(RemoveAt(locks, i)) <= Sum(locks)
    BY <1>2, LocksReleased
  <2>4. Sum(locks)' <= Sum(locks) /\ Sum(locks)' \in Nat
    <3>1. Sum(RemoveAt(locks, i)) \in Nat
      BY <1>2, LocksReleased, LocksSum
    <3>2. QED BY <2>2, <2>3, <3>1 DEF Sum
  <2>5. LocksCovered'
    <3>1. CASE locks' = <<>>
      <4>1. Sum(locks)' = 0
        BY <3>1, NothingLocked DEF Sum
      <4>2. balance' \in Nat /\ burnt' \in Nat /\ loose' \in Nat
        BY DEF TypeInv, DataOK
      <4>3. QED BY <4>1, <4>2, NothingMissing DEF LocksCovered
    <3>2. CASE locks' # <<>>
      <4>1. burnt' = burnt /\ loose' = loose
        BY <1>3, <3>2 DEF Mature
      <4>2. QED BY <1>2, <1>c, <2>1, <2>4, <4>1 DEF LocksCovered
    <3>3. QED BY <3>1, <3>2
  <2>6. QED BY <1>1, <1>2, <2>1, <2>4, <2>5, LockEases
<1>4. CASE \/ Deposit \/ RiskPasses \/ NewDay \/ UNCHANGED vars
           \/ \E f \in Foreign : ForeignHead(f) \/ ForeignRecord(f)
  <2>1. /\ locks' = locks /\ burnt' = burnt /\ loose' = loose
        /\ balance' = balance \/ balance' = balance + 1
    BY <1>4 DEF Deposit, RiskPasses, NewDay, ForeignHead, ForeignRecord, vars, money, savings
  <2>2. Sum(locks)' = Sum(locks)
    BY <2>1 DEF Sum
  <2>3. LocksCovered'
    BY <1>2, <1>c, <2>1, <2>2 DEF LocksCovered
  <2>4. QED BY <1>1, <1>2, <2>1, <2>2, <2>3, LockEases
<1>5. QED BY <1>3, <1>4

\* The covered locks are kept by every step.
LEMMA LockStep == TypeInv /\ TypeInv' /\ LockInv /\ [Next]_vars => LockInv'
<1> SUFFICES ASSUME TypeInv, TypeInv', LockInv, [Next]_vars PROVE LockInv'
  OBVIOUS
<1>1. ASSUME NEW c \in Caller, Command(c) \/ Gate(c) \/ Crash(c) PROVE LockInv'
  BY <1>1, LockCommand, LockGate, LockRest
<1>2. ASSUME NEW c \in Caller, Step(c) PROVE LockInv'
  BY <1>1, <1>2, LockPay, LockPlace, LockRest DEF Step
<1>3. QED BY <1>1, <1>2, LockAround DEF Next

\* Nothing is locked, parked or in hand before the first command.
LEMMA LockInit == Init => LockInv
<1> SUFFICES ASSUME Init PROVE LockInv
  OBVIOUS
<1>1. LocksCovered
  <2>1. locks = <<>> /\ balance \in Nat /\ burnt = 0 /\ loose = 0
    BY TypeInit, LockNumbers DEF Init
  <2>2. QED BY <2>1, NothingLocked DEF LocksCovered
<1>2. Fits(pend)
  BY DEF Init, NoReq, Fits, Spends
<1>3. \A c \in Caller : h[c].pc = "idle"
  BY DEF Init, Idle
<1>4. \A c \in Caller : LockHand(h[c])
  BY <1>3 DEF LockHand, Passed
<1>5. QED BY <1>1, <1>2, <1>4 DEF LockInv

\* Whatever requests overlap and wherever they are cut off, what is locked is in
\* the wallet but for the gas that was paid, and for what was spent or locked by
\* requests that another one had overtaken between the check of the locks
\* (policy.ts:195, pipeline.ts:828) and the payment: one that nothing came between
\* was checked against the balance and the locks there are when it is paid.
THEOREM LockedIsAlwaysCovered == Spec => []LocksCovered
<1>1. LockInv => LocksCovered
  BY DEF LockInv
<1>2. QED BY <1>1, LockInit, LockStep, SpendingTyped, PTL DEF Spec

-----------------------------------------------------------------------------
(* Corners of the gate.                                                     *)

\* A deny rule whose label holds no digit refuses every payee that has a phone,
\* whatever it is called: the digits of the label are the empty string, which
\* every phone contains (policyRules.ts:243-246).
THEOREM WordyDenyRefusesAllPhones ==
  ASSUME NEW rule, rule.kind = "deny_label", rule.label \in Wordy,
         NEW payee, payee.phone # None, NEW rules_, rule \in rules_,
         NEW amount, NEW paid_
  PROVE  RulesRefuse(rules_, amount, payee, paid_)
<1>1. DenyApplies(rule, payee)
  BY DEF DenyApplies
<1>2. RuleRefuses(rule, amount, payee, AskedAs(payee) \in paid_)
  BY <1>1 DEF RuleRefuses
<1>3. QED BY <1>2 DEF RulesRefuse

\* A contact that is an address and no phone stays a new payee however often it
\* was paid: the ledger knows it by its address, the rule asks for its label
\* (policy.ts:167, pipeline.ts:1347).
THEOREM AddressIsAlwaysNew ==
  ASSUME NEW payees, NEW payee, payee.phone = None,
         \A p \in payees : Counterparty(p) # payee.label,
         NEW rule, rule.kind = "max_new_payee_usdc",
         NEW amount, amount > rule.max, NEW rules_, rule \in rules_
  PROVE  RulesRefuse(rules_, amount, payee, {Counterparty(p) : p \in payees})
<1>1. AskedAs(payee) \notin {Counterparty(p) : p \in payees}
  BY DEF AskedAs
<1>2. RuleRefuses(rule, amount, payee,
                  AskedAs(payee) \in {Counterparty(p) : p \in payees})
  BY <1>1 DEF RuleRefuses
<1>3. QED BY <1>2 DEF RulesRefuse
=============================================================================
