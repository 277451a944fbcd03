---------------------------- MODULE DailyCapProofs ----------------------------
(***************************************************************************)
(* How far a day's sends can pass the daily limit.  The sum is read when a  *)
(* request is accepted and grows when it has been paid, so the sends that   *)
(* are out between the two are not in it.  The argument counts them: at     *)
(* most as many can still be booked as there are callers to carry them, one *)
(* of them was accepted against a sum that left room for it, and the others *)
(* are each within the soft limit.                                          *)
(***************************************************************************)
EXTENDS SpendingProofs, FunctionTheorems

-----------------------------------------------------------------------------
(* The count, away from the state: S are the sends that are out, e the      *)
(* callers that can carry one, s the sum of the day, x the crashes.         *)

Room(w, s, x) == Lim.daily + Lim.perTx * (Cardinality(Caller) + x - w) - s

Count(S, e) == IF Cardinality(S) <= e THEN Cardinality(S) ELSE e
Over(S, t)  == {r \in S : r.amt > t}

CapOK(S, e, s, x) ==
  /\ Room(1, s, x) >= 0
  /\ Count(S, e) > 0 => Cardinality(Over(S, Room(Count(S, e), s, x))) < Count(S, e)

\* Sends within the soft limit, finitely many.
Sends(S) == IsFiniteSet(S) /\ \A r \in S : r.amt \in Nat /\ r.amt <= Lim.perTx

\* The limits of the account are whole numbers.
LEMMA LimTyped == Lim.daily \in Nat /\ Lim.perTx \in Nat
<1> DEFINE t == IF AtTier < 0 THEN 0 ELSE IF AtTier > 2 THEN 2 ELSE AtTier
<1>1. t \in Tier
  BY SpendingAssumption DEF Tier
<1>2. Lim.daily = Daily[t] /\ Lim.perTx = PerTx[t]
  BY DEF Lim, LimitsForTier
<1> HIDE DEF t
<1>3. Daily \in [Tier -> Nat] /\ PerTx \in [Tier -> Nat]
  BY LimitsAssumption
<1>4. QED BY <1>1, <1>2, <1>3

\* A product grows with its factor.
LEMMA TimesGrows ==
  ASSUME NEW p \in Nat, NEW a \in Int, NEW b \in Int, a <= b
  PROVE  p * a \in Int /\ p * b \in Int /\ p * a <= p * b /\ (a < b => p * a + p <= p * b)
<1>1. PICK k \in Nat : b = a + k
  <2>1. b - a \in Nat /\ b = a + (b - a)
    OBVIOUS
  <2>2. QED BY <2>1
<1>2. p * b = p * a + p * k /\ p * a \in Int /\ p * k \in Nat
  BY <1>1
<1>3. CASE k = 0
  BY <1>1, <1>2, <1>3
<1>4. CASE k # 0
  <2>1. PICK m \in Nat : k = m + 1
    <3>1. k - 1 \in Nat /\ k = (k - 1) + 1
      BY <1>4
    <3>2. QED BY <3>1
  <2>2. p * k = p * m + p /\ p * m \in Nat
    BY <2>1
  <2>3. QED BY <1>1, <1>2, <2>2
<1>5. QED BY <1>3, <1>4

\* Fewer sends to be booked, a crash more, or a smaller sum: more room.
LEMMA RoomGrows ==
  ASSUME NEW w \in Nat, NEW v \in Nat, NEW s \in Nat, NEW x \in Nat, NEW y \in Nat
  PROVE  /\ Room(w, s, x) \in Int
         /\ y - v >= x - w => Room(v, s, y) >= Room(w, s, x)
         /\ y - v > x - w => Room(v, s, y) >= Room(w, s, x) + Lim.perTx
         /\ \A a \in Nat : Room(w, s + a, x) = Room(w, s, x) - a
<1> DEFINE n == Cardinality(Caller)
           p == Lim.perTx
           d == Lim.daily
<1>1. n \in Nat /\ p \in Nat /\ d \in Nat
  BY CallersCounted, LimTyped
<1>2. /\ Room(w, s, x) = d + p * (n + x - w) - s
      /\ Room(v, s, y) = d + p * (n + y - v) - s
      /\ \A a : Room(w, s + a, x) = d + p * (n + x - w) - (s + a)
      /\ p = Lim.perTx
  BY DEF Room
<1> HIDE DEF n, p, d
<1>3. n + x - w \in Int /\ n + y - v \in Int
  BY <1>1
<1>4. p * (n + x - w) \in Int /\ p * (n + y - v) \in Int
  BY <1>1, <1>3
<1>5. ASSUME y - v >= x - w PROVE p * (n + x - w) <= p * (n + y - v)
  BY <1>1, <1>3, <1>5, TimesGrows
<1>6. ASSUME y - v > x - w PROVE p * (n + x - w) + p <= p * (n + y - v)
  <2>1. n + x - w < n + y - v
    BY <1>1, <1>6
  <2>2. QED BY <1>1, <1>3, <2>1, TimesGrows
<1> DEFINE A == p * (n + x - w)
           B == p * (n + y - v)
<1>7. A \in Int /\ B \in Int
  BY <1>4
<1>8. y - v >= x - w => A <= B
  BY <1>5
<1>9. y - v > x - w => A + p <= B
  BY <1>6
<1>10. Room(w, s, x) = d + A - s /\ Room(v, s, y) = d + B - s
       /\ \A a : Room(w, s + a, x) = d + A - (s + a)
  BY <1>2
<1> HIDE DEF A, B
<1>11. Room(w, s, x) \in Int
  BY <1>1, <1>7, <1>10
<1>12. ASSUME NEW a \in Nat PROVE Room(w, s + a, x) = Room(w, s, x) - a
  <2>1. Room(w, s + a, x) = d + A - (s + a) /\ Room(w, s, x) = d + A - s
    BY <1>10
  <2>2. QED BY <1>1, <1>7, <2>1
<1>13. y - v >= x - w => Room(v, s, y) >= Room(w, s, x)
  BY <1>1, <1>7, <1>8, <1>10
<1>14. y - v > x - w => Room(v, s, y) >= Room(w, s, x) + p
  BY <1>1, <1>7, <1>9, <1>10
<1>15. QED BY <1>2, <1>11, <1>12, <1>13, <1>14

\* A larger sum leaves less room.
LEMMA RoomSpent ==
  ASSUME NEW w \in Nat, NEW s \in Nat, NEW x \in Nat
  PROVE  Room(w, s, x) \in Int /\ \A a \in Nat : Room(w, s + a, x) = Room(w, s, x) - a
<1>1. x - w >= x - w
  OBVIOUS
<1>2. QED BY <1>1, RoomGrows

\* Whatever the callers carry, there is room for what the day has left.
LEMMA RoomLeft ==
  ASSUME NEW w \in Nat, w <= Cardinality(Caller), NEW s \in Nat, NEW x \in Nat
  PROVE  Room(w, s, x) \in Int /\ Room(w, s, x) >= Lim.daily - s
<1> DEFINE n == Cardinality(Caller)
<1>1. n \in Nat /\ Lim.daily \in Nat /\ Lim.perTx \in Nat
  BY CallersCounted, LimTyped
<1>2. n + x - w \in Nat
  BY <1>1
<1>3. Lim.perTx * 0 = 0 /\ Lim.perTx * 0 <= Lim.perTx * (n + x - w)
      /\ Lim.perTx * (n + x - w) \in Int
  <2>1. 0 <= n + x - w /\ 0 \in Int /\ n + x - w \in Int
    BY <1>2
  <2>2. Lim.perTx * 0 = 0
    BY <1>1
  <2>3. QED BY <1>1, <2>1, <2>2, TimesGrows
<1>4. Room(w, s, x) = Lim.daily + Lim.perTx * (n + x - w) - s
  BY DEF Room
<1> DEFINE A == Lim.perTx * (n + x - w)
<1>5. A \in Int /\ A >= 0 /\ Room(w, s, x) = Lim.daily + A - s
  BY <1>3, <1>4
<1> HIDE DEF A
<1>6. QED BY <1>1, <1>5

\* What is counted, and what is over, are numbers within the number of sends.
LEMMA CountBounded ==
  ASSUME NEW S, IsFiniteSet(S), NEW e \in Nat, NEW t
  PROVE  /\ Cardinality(S) \in Nat /\ Count(S, e) \in Nat
         /\ Count(S, e) <= Cardinality(S) /\ Count(S, e) <= e
         /\ Cardinality(Over(S, t)) \in Nat /\ IsFiniteSet(Over(S, t))
         /\ Over(S, t) \in SUBSET S /\ Cardinality(Over(S, t)) <= Cardinality(S)
<1>1. Cardinality(S) \in Nat
  BY FS_CardinalityType
<1>2. Over(S, t) \in SUBSET S
  BY DEF Over
<1>3. IsFiniteSet(Over(S, t)) /\ Cardinality(Over(S, t)) <= Cardinality(S)
  BY <1>2, FS_Subset
<1>4. Cardinality(Over(S, t)) \in Nat
  BY <1>3, FS_CardinalityType
<1>5. QED BY <1>1, <1>2, <1>3, <1>4 DEF Count

\* With room for the soft limit nothing is over.
LEMMA NothingOver ==
  ASSUME NEW S, Sends(S), NEW t \in Int, t >= Lim.perTx
  PROVE  Cardinality(Over(S, t)) = 0
<1>1. Over(S, t) = {}
  BY LimTyped DEF Over, Sends
<1>2. QED BY <1>1, FS_EmptySet

\* Of the sends that are counted one fits, so there is room.
LEMMA OneFits ==
  ASSUME NEW S, Sends(S), NEW e \in Nat, NEW s \in Nat, NEW x \in Nat,
         CapOK(S, e, s, x), Count(S, e) > 0
  PROVE  Room(Count(S, e), s, x) >= 0
<1> DEFINE w == Count(S, e)
           t == Room(w, s, x)
<1>1. IsFiniteSet(S) /\ w \in Nat
  BY CountBounded DEF Sends
<1>2. t \in Int
  BY <1>1, RoomGrows
<1>3. Cardinality(Over(S, t)) < Cardinality(S)
  <2>1. Cardinality(Over(S, t)) < w
    BY DEF CapOK
  <2>2. w <= Cardinality(S) /\ Cardinality(S) \in Nat /\ Cardinality(Over(S, t)) \in Nat
    BY <1>1, CountBounded
  <2>3. QED BY <1>1, <2>1, <2>2
<1>4. Over(S, t) # S
  BY <1>1, <1>3, FS_CardinalityType
<1>5. PICK g \in S : ~(g.amt > t)
  BY <1>4 DEF Over
<1>6. g.amt \in Nat
  BY DEF Sends
<1>7. QED BY <1>2, <1>5, <1>6

-----------------------------------------------------------------------------
(* The count from step to step. *)

\* No more is out than before, and no more of it can still be booked.
LEMMA CapFrame ==
  ASSUME NEW S, Sends(S), NEW T \in SUBSET S, NEW e \in Nat, NEW f \in Nat,
         NEW s \in Nat, NEW x \in Nat, CapOK(S, e, s, x), Count(T, f) <= Count(S, e)
  PROVE  CapOK(T, f, s, x)
<1> DEFINE w == Count(S, e)
           v == Count(T, f)
<1>1. IsFiniteSet(S) /\ IsFiniteSet(T) /\ Sends(T)
  BY FS_Subset DEF Sends
<1>2. w \in Nat /\ v \in Nat /\ v <= w
  BY <1>1, CountBounded
<1>3. Room(1, s, x) >= 0
  BY DEF CapOK
<1>4. ASSUME v > 0 PROVE Cardinality(Over(T, Room(v, s, x))) < v
  <2>1. CASE v = w
    <3>1. Over(T, Room(v, s, x)) \in SUBSET Over(S, Room(w, s, x))
      BY <2>1 DEF Over
    <3>2. IsFiniteSet(Over(S, Room(w, s, x))) /\ Cardinality(Over(S, Room(w, s, x))) \in Nat
          /\ Cardinality(Over(T, Room(v, s, x))) \in Nat
      BY <1>1, CountBounded
    <3>3. Cardinality(Over(T, Room(v, s, x))) <= Cardinality(Over(S, Room(w, s, x)))
      BY <3>1, <3>2, FS_Subset
    <3>4. Cardinality(Over(S, Room(w, s, x))) < w
      BY <1>4, <2>1 DEF CapOK
    <3>5. QED BY <1>2, <2>1, <3>2, <3>3, <3>4
  <2>2. CASE v # w
    <3>1. v < w /\ w > 0
      BY <1>2, <1>4, <2>2
    <3>2. Room(w, s, x) >= 0 /\ Room(w, s, x) \in Int /\ Room(v, s, x) \in Int
      BY <1>2, <3>1, OneFits, RoomGrows
    <3>3. Room(v, s, x) >= Room(w, s, x) + Lim.perTx
      <4>1. x - v > x - w
        BY <1>2, <3>1
      <4>2. QED BY <1>2, <4>1, RoomGrows
    <3>4. Room(v, s, x) >= Lim.perTx
      BY <3>2, <3>3, LimTyped
    <3>5. Cardinality(Over(T, Room(v, s, x))) = 0
      BY <1>1, <3>2, <3>4, NothingOver
    <3>6. QED BY <1>4, <3>5
  <2>3. QED BY <2>1, <2>2
<1>5. QED BY <1>3, <1>4 DEF CapOK

\* A crash makes up for one send more that can be booked.
LEMMA CapCrash ==
  ASSUME NEW S, Sends(S), NEW T \in SUBSET S, NEW e \in Nat, NEW f \in Nat,
         NEW s \in Nat, NEW x \in Nat, CapOK(S, e, s, x), Count(T, f) <= Count(S, e) + 1
  PROVE  CapOK(T, f, s, x + 1)
<1> DEFINE w == Count(S, e)
           v == Count(T, f)
<1>1. IsFiniteSet(S) /\ IsFiniteSet(T) /\ Sends(T)
  BY FS_Subset DEF Sends
<1>2. w \in Nat /\ v \in Nat /\ v <= w + 1 /\ x + 1 \in Nat
  BY <1>1, CountBounded
<1>3. Room(1, s, x) >= 0 /\ Room(1, s, x) \in Int /\ Room(1, s, x + 1) \in Int
      /\ Room(1, s, x + 1) >= Room(1, s, x) + Lim.perTx
  <2>1. (x + 1) - 1 > x - 1
    OBVIOUS
  <2>2. QED BY <1>2, <2>1, RoomGrows DEF CapOK
<1>4. Room(1, s, x + 1) >= 0 /\ Room(1, s, x + 1) >= Lim.perTx
  BY <1>3, LimTyped
<1>5. ASSUME v > 0 PROVE Cardinality(Over(T, Room(v, s, x + 1))) < v
  <2>1. CASE v <= w
    <3>1. w > 0
      BY <1>2, <1>5, <2>1
    <3>2. Room(w, s, x) >= 0 /\ Room(w, s, x) \in Int /\ Room(v, s, x + 1) \in Int
      BY <1>2, <3>1, OneFits, RoomGrows
    <3>3. Room(v, s, x + 1) >= Room(w, s, x) + Lim.perTx
      <4>1. (x + 1) - v > x - w
        BY <1>2, <2>1
      <4>2. QED BY <1>2, <4>1, RoomGrows
    <3>4. Room(v, s, x + 1) >= Lim.perTx
      BY <3>2, <3>3, LimTyped
    <3>5. Cardinality(Over(T, Room(v, s, x + 1))) = 0
      BY <1>1, <3>2, <3>4, NothingOver
    <3>6. QED BY <1>5, <3>5
  <2>2. CASE v = w + 1 /\ w > 0
    <3>1. Room(w, s, x) \in Int /\ Room(v, s, x + 1) \in Int /\ Room(v, s, x + 1) >= Room(w, s, x)
      <4>1. (x + 1) - v >= x - w
        BY <1>2, <2>2
      <4>2. QED BY <1>2, <4>1, RoomGrows
    <3>2. Over(T, Room(v, s, x + 1)) \in SUBSET Over(S, Room(w, s, x))
      <4>1. ASSUME NEW r \in T, r.amt > Room(v, s, x + 1) PROVE r.amt > Room(w, s, x)
        BY <3>1, <4>1 DEF Sends
      <4>2. QED BY <4>1 DEF Over
    <3>3. IsFiniteSet(Over(S, Room(w, s, x))) /\ Cardinality(Over(S, Room(w, s, x))) \in Nat
          /\ Cardinality(Over(T, Room(v, s, x + 1))) \in Nat
      BY <1>1, CountBounded
    <3>4. Cardinality(Over(T, Room(v, s, x + 1))) <= Cardinality(Over(S, Room(w, s, x)))
      BY <3>2, <3>3, FS_Subset
    <3>5. Cardinality(Over(S, Room(w, s, x))) < w
      BY <2>2 DEF CapOK
    <3>6. QED BY <1>2, <2>2, <3>3, <3>4, <3>5
  <2>3. CASE v = w + 1 /\ w = 0
    <3>1. v = 1
      BY <2>3
    <3>2. Cardinality(Over(T, Room(1, s, x + 1))) = 0
      BY <1>1, <1>3, <1>4, NothingOver
    <3>3. QED BY <1>5, <3>1, <3>2
  <2>4. QED BY <1>2, <2>1, <2>2, <2>3
<1>6. QED BY <1>4, <1>5 DEF CapOK

\* A send that is booked is out no longer, and its caller carries no other one.
LEMMA CapBook ==
  ASSUME NEW S, Sends(S), NEW r \in S, NEW T \in SUBSET (S \ {r}), NEW e \in Nat, e >= 1,
         NEW s \in Nat, NEW x \in Nat, CapOK(S, e, s, x)
  PROVE  CapOK(T, e - 1, s + r.amt, x)
<1> DEFINE w == Count(S, e)
           v == Count(T, e - 1)
<1>1. /\ IsFiniteSet(S) /\ IsFiniteSet(T) /\ Sends(T) /\ IsFiniteSet(S \ {r})
      /\ r.amt \in Nat /\ r.amt <= Lim.perTx /\ s + r.amt \in Nat /\ e - 1 \in Nat
  <2>1. IsFiniteSet(T) /\ IsFiniteSet(S \ {r})
    BY FS_Subset DEF Sends
  <2>2. QED BY <2>1 DEF Sends
<1>2. w \in Nat /\ v \in Nat
  BY <1>1, CountBounded
<1>3. w >= 1 /\ v <= w - 1
  <2>1. Cardinality(S) \in Nat /\ Cardinality(T) \in Nat
    BY <1>1, FS_CardinalityType
  <2>2. Cardinality(S \ {r}) = Cardinality(S) - 1 /\ Cardinality(T) <= Cardinality(S \ {r})
    BY <1>1, FS_RemoveElement, FS_Subset
  <2>3. Cardinality(T) <= Cardinality(S) - 1
    BY <2>1, <2>2
  <2>4. QED BY <2>1, <2>3 DEF Count
<1> DEFINE t == Room(w, s, x)
           u == Room(v, s + r.amt, x)
<1>4. t \in Int /\ u \in Int /\ t >= 0
  <2>1. w > 0
    BY <1>2, <1>3
  <2>2. QED BY <1>1, <1>2, <2>1, OneFits, RoomGrows
<1> DEFINE a == r.amt
<1>0. a \in Nat /\ \A b \in Nat : Room(b, s, x) \in Int /\ Room(b, s + a, x) = Room(b, s, x) - a
  <2>1. a \in Nat
    BY <1>1
  <2>2. ASSUME NEW b \in Nat
        PROVE  Room(b, s, x) \in Int /\ \A y \in Nat : Room(b, s + y, x) = Room(b, s, x) - y
    BY RoomSpent
  <2>3. QED BY <2>1, <2>2
<1>5. Room(v, s, x) \in Int /\ u = Room(v, s, x) - r.amt
  BY <1>0, <1>2
<1>6. Room(v, s, x) >= t + Lim.perTx
  <2>1. x - v > x - w
    BY <1>2, <1>3
  <2>2. QED BY <1>2, <2>1, RoomGrows
<1>7. Room(1, s + r.amt, x) >= 0
  <2>1. Room(1, s, x) \in Int /\ Room(1, s + r.amt, x) = Room(1, s, x) - r.amt
    BY <1>0
  <2>2. CASE w = 1
    <3>1. Cardinality(Over(S, t)) < 1 /\ Cardinality(Over(S, t)) \in Nat /\ IsFiniteSet(Over(S, t))
      BY <1>1, <2>2, CountBounded DEF CapOK
    <3>2. Over(S, t) = {}
      BY <3>1, FS_EmptySet
    <3>3. r.amt <= Room(1, s, x)
      BY <1>1, <1>4, <2>2, <3>2 DEF Over
    <3>4. QED BY <1>1, <2>1, <3>3
  <2>3. CASE w # 1
    <3>1. x - 1 > x - w
      BY <1>2, <1>3, <2>3
    <3>2. Room(1, s, x) >= t + Lim.perTx
      BY <1>2, <3>1, RoomGrows
    <3>3. QED BY <1>1, <1>4, <2>1, <3>2, LimTyped
  <2>4. QED BY <2>2, <2>3
<1>8. ASSUME v > 0 PROVE Cardinality(Over(T, u)) < v
  <2>1. CASE r.amt <= t
    <3>1. u >= Lim.perTx
      BY <1>1, <1>4, <1>5, <1>6, <2>1, LimTyped
    <3>2. Cardinality(Over(T, u)) = 0
      BY <1>1, <1>4, <3>1, NothingOver
    <3>3. QED BY <1>8, <3>2
  <2>2. CASE ~(r.amt <= t) /\ v = w - 1
    <3>1. u >= t
      BY <1>1, <1>4, <1>5, <1>6, LimTyped
    <3>2. r \in Over(S, t) /\ Over(T, u) \in SUBSET (Over(S, t) \ {r})
      <4>1. r \in Over(S, t)
        BY <1>1, <1>4, <2>2 DEF Over
      <4>2. ASSUME NEW q \in T, q.amt > u PROVE q.amt > t
        BY <1>1, <1>4, <3>1, <4>2 DEF Sends
      <4>3. QED BY <4>1, <4>2 DEF Over
    <3>3. IsFiniteSet(Over(S, t)) /\ Cardinality(Over(S, t)) \in Nat /\ Cardinality(Over(T, u)) \in Nat
      BY <1>1, <1>2, CountBounded
    <3>4. /\ IsFiniteSet(Over(S, t) \ {r})
          /\ Cardinality(Over(S, t) \ {r}) = Cardinality(Over(S, t)) - 1
      BY <3>2, <3>3, FS_RemoveElement
    <3>5. Cardinality(Over(T, u)) <= Cardinality(Over(S, t)) - 1
      BY <3>2, <3>4, FS_Subset
    <3>6. Cardinality(Over(S, t)) < w
      BY <1>2, <1>3 DEF CapOK
    <3>7. QED BY <1>2, <2>2, <3>3, <3>5, <3>6
  <2>3. CASE v < w - 1
    <3>1. Room(v, s, x) >= Room(w - 1, s, x) + Lim.perTx /\ Room(w - 1, s, x) >= t + Lim.perTx
          /\ Room(w - 1, s, x) \in Int
      <4>1. x - v > x - (w - 1) /\ x - (w - 1) > x - w /\ w - 1 \in Nat
        BY <1>2, <1>3, <2>3
      <4>2. QED BY <1>2, <4>1, RoomGrows
    <3>2. u >= Lim.perTx
      BY <1>1, <1>4, <1>5, <3>1, LimTyped
    <3>3. Cardinality(Over(T, u)) = 0
      BY <1>1, <1>4, <3>2, NothingOver
    <3>4. QED BY <1>8, <3>3
  <2>4. QED BY <1>1, <1>2, <1>3, <1>4, <2>1, <2>2, <2>3
<1>9. QED BY <1>7, <1>8 DEF CapOK

\* A send that is accepted fits into the day with all that are out before it.
LEMMA CapAccept ==
  ASSUME NEW S, Sends(S), NEW r, NEW T \in SUBSET (S \cup {r}), r \in T, Sends(T),
         NEW e \in Nat, e >= 1, e <= Cardinality(Caller),
         NEW s \in Nat, NEW x \in Nat, CapOK(S, e, s, x), s + r.amt <= Lim.daily
  PROVE  CapOK(T, e, s, x)
<1> DEFINE w == Count(S, e)
           v == Count(T, e)
           t == Room(w, s, x)
           u == Room(v, s, x)
<1>1. IsFiniteSet(S) /\ IsFiniteSet(T) /\ r.amt \in Nat /\ IsFiniteSet(S \cup {r})
  BY FS_AddElement DEF Sends
<1>2. w \in Nat /\ v \in Nat /\ v <= e /\ t \in Int /\ u \in Int
  BY <1>1, CountBounded, RoomGrows
<1>3. Cardinality(Caller) \in Nat /\ Cardinality(S) \in Nat /\ Cardinality(T) \in Nat
  BY <1>1, CallersCounted, FS_CardinalityType
<1>4. r.amt <= u
  <2>1. u >= Lim.daily - s
    BY <1>2, <1>3, RoomLeft
  <2>2. QED BY <1>1, <1>2, <2>1, LimTyped
<1>5. r \notin Over(T, u)
  BY <1>1, <1>2, <1>4 DEF Over
<1>6. Cardinality(Over(T, u)) \in Nat /\ Cardinality(Over(S, u)) \in Nat /\ IsFiniteSet(Over(S, u))
      /\ Cardinality(Over(S, t)) \in Nat
  BY <1>1, <1>2, CountBounded
<1>7. Cardinality(T) <= Cardinality(S) + 1
  <2>1. Cardinality(S \cup {r}) <= Cardinality(S) + 1
    BY <1>1, <1>3, FS_AddElement
  <2>2. Cardinality(T) <= Cardinality(S \cup {r}) /\ Cardinality(S \cup {r}) \in Nat
    BY <1>1, FS_Subset, FS_CardinalityType
  <2>3. QED BY <1>3, <2>1, <2>2
<1>8. CASE v <= w
  <2>1. CASE w = 0
    <3>1. v = 0
      BY <1>2, <1>8, <2>1
    <3>2. QED BY <3>1 DEF CapOK
  <2>2. CASE w > 0
    <3>1. u >= t
      <4>1. x - v >= x - w
        BY <1>2, <1>8
      <4>2. QED BY <1>2, <4>1, RoomGrows
    <3>2. Over(T, u) \in SUBSET Over(S, t)
      <4>1. ASSUME NEW q \in Over(T, u) PROVE q \in Over(S, t)
        <5>1. q \in S /\ q \in T /\ q.amt > u
          BY <1>5 DEF Over
        <5>2. q.amt > t
          BY <1>2, <3>1, <5>1 DEF Sends
        <5>3. QED BY <5>1, <5>2 DEF Over
      <4>2. QED BY <4>1
    <3>3. Cardinality(Over(T, u)) <= Cardinality(Over(S, t)) /\ IsFiniteSet(Over(S, t))
      BY <1>1, <1>2, <3>2, CountBounded, FS_Subset
    <3>4. Cardinality(Over(S, t)) < w
      BY <2>2 DEF CapOK
    <3>5. CASE v = w
      BY <1>2, <1>6, <3>3, <3>4, <3>5 DEF CapOK
    <3>6. CASE v < w
      <4>1. t >= 0
        BY <2>2, OneFits
      <4>2. u >= t + Lim.perTx
        <5>1. x - v > x - w
          BY <1>2, <3>6
        <5>2. QED BY <1>2, <5>1, RoomGrows
      <4>3. u >= Lim.perTx
        BY <1>2, <4>1, <4>2, LimTyped
      <4>4. Cardinality(Over(T, u)) = 0
        BY <1>2, <4>3, NothingOver
      <4>5. v > 0 => Cardinality(Over(T, u)) < v
        BY <4>4
      <4>6. QED BY <4>5 DEF CapOK
    <3>7. QED BY <1>2, <1>8, <3>5, <3>6
  <2>3. QED BY <1>2, <2>1, <2>2
<1>9. CASE v > w
  <2>1. w = Cardinality(S) /\ v = Cardinality(S) + 1
    BY <1>2, <1>3, <1>7, <1>9 DEF Count
  <2>2. Over(T, u) \in SUBSET S
    BY <1>5 DEF Over
  <2>3. Cardinality(Over(T, u)) <= Cardinality(S)
    BY <1>1, <2>2, FS_Subset
  <2>4. Cardinality(Over(T, u)) < v
    BY <1>3, <1>6, <2>1, <2>3
  <2>5. QED BY <2>4 DEF CapOK
<1>10. QED BY <1>2, <1>8, <1>9

\* When the sum starts again, what is out was accepted on its own.
LEMMA CapMidnight ==
  ASSUME NEW S, Sends(S), \A r \in S : r.amt <= Lim.daily,
         NEW e \in Nat, e <= Cardinality(Caller), NEW x \in Nat
  PROVE  CapOK(S, e, 0, x)
<1> DEFINE w == Count(S, e)
           u == Room(w, 0, x)
<1>1. IsFiniteSet(S) /\ w \in Nat /\ w <= e /\ Cardinality(Caller) \in Nat
      /\ Cardinality(Caller) >= 1
  BY CountBounded, CallersCounted DEF Sends
<1>2. 0 \in Nat /\ 1 \in Nat /\ w <= Cardinality(Caller)
  BY <1>1
<1>a. ASSUME NEW v \in Nat, v <= Cardinality(Caller)
      PROVE  Room(v, 0, x) \in Int /\ Room(v, 0, x) >= Lim.daily
  <2>1. Room(v, 0, x) \in Int /\ Room(v, 0, x) >= Lim.daily - 0
    BY <1>a, <1>2, RoomLeft
  <2>2. QED BY <2>1, LimTyped
<1>3. u \in Int /\ u >= Lim.daily
  BY <1>1, <1>2, <1>a
<1>4. Room(1, 0, x) >= 0
  <2>1. Room(1, 0, x) \in Int /\ Room(1, 0, x) >= Lim.daily
    BY <1>1, <1>2, <1>a
  <2>2. QED BY <2>1, LimTyped
<1>5. Over(S, u) = {}
  BY <1>3, LimTyped DEF Over, Sends
<1>6. Cardinality(Over(S, u)) = 0
  BY <1>5, FS_EmptySet
<1>7. w > 0 => Cardinality(Over(S, u)) < w
  BY <1>6
<1>8. QED BY <1>4, <1>7 DEF CapOK

-----------------------------------------------------------------------------
(* Who has which key: a request that is being decided is nobody else's, and  *)
(* a key is executed by one caller.                                         *)

Past   == {"cap", "pay", "book"}
Deciding(t) ==
  /\ t.pc \in {"rules", "locks", "balance", "locked", "sums", "head", "insert", "park"}
  /\ t.req.kind \in Spends

KeyInv ==
  /\ \A c \in Caller : h[c].pc \in Past => h[c].req.id \in claimed
  /\ \A c, d \in Caller : c # d /\ h[c].pc \in Past /\ h[d].pc \in Past => h[c].req.id # h[d].req.id
  /\ \A c \in Caller : Deciding(h[c]) => h[c].req.id \notin claimed /\ h[c].req.id # pend.id
  /\ \A c, d \in Caller : c # d /\ Deciding(h[c]) => h[c].req.id # h[d].req.id

\* Spends in hand have keys, and what is not a request has none.
LEMMA KeysGiven ==
  ASSUME TypeInv, NEW c \in Caller
  PROVE  (Deciding(h[c]) => h[c].req.id # 0) /\ NoReq.id = 0
<1>1. RequestOK(h[c].req, started) /\ h[c].req.id \in Nat
  BY DEF TypeInv, WorkOK, Work, Request
<1>2. QED BY <1>1 DEF Deciding, RequestOK, NoReq, Spends

\* A caller that goes on with its request, or leaves it.
LEMMA KeyFrame ==
  ASSUME TypeInv, KeyInv, claimed' = claimed, pend' = pend \/ pend' = NoReq,
         NEW c \in Caller, \A d \in Caller \ {c} : h'[d] = h[d],
         h'[c].req = h[c].req \/ h'[c].req = NoReq,
         h'[c].pc \in Past => h[c].pc \in Past /\ h'[c].req = h[c].req,
         Deciding(h'[c]) => Deciding(h[c]) /\ h'[c].req = h[c].req
  PROVE  KeyInv'
<1>1. ASSUME NEW d \in Caller, h'[d].pc \in Past
      PROVE  h[d].pc \in Past /\ h'[d].req = h[d].req
  BY <1>1
<1>2. ASSUME NEW d \in Caller, Deciding(h'[d])
      PROVE  Deciding(h[d]) /\ h'[d].req = h[d].req /\ h[d].req.id # 0
  BY <1>2, KeysGiven
<1>3. \A d \in Caller : h'[d].req.id = h[d].req.id \/ h'[d].req.id = 0
  BY KeysGiven
<1>4. pend'.id = pend.id \/ pend'.id = 0
  BY KeysGiven
<1>5. \A d \in Caller : h'[d].pc \in Past => h'[d].req.id \in claimed'
  BY <1>1 DEF KeyInv
<1>6. ASSUME NEW d \in Caller, NEW k \in Caller, d # k, h'[d].pc \in Past, h'[k].pc \in Past
      PROVE  h'[d].req.id # h'[k].req.id
  BY <1>1, <1>6 DEF KeyInv
<1>7. ASSUME NEW d \in Caller, Deciding(h'[d])
      PROVE  h'[d].req.id \notin claimed' /\ h'[d].req.id # pend'.id
  BY <1>2, <1>4, <1>7 DEF KeyInv
<1>8. ASSUME NEW d \in Caller, NEW k \in Caller, d # k, Deciding(h'[d])
      PROVE  h'[d].req.id # h'[k].req.id
  BY <1>2, <1>3, <1>8 DEF KeyInv
<1>9. QED BY <1>5, <1>6, <1>7, <1>8 DEF KeyInv

\* A new request has a key that was never given out.
LEMMA KeyAsk ==
  ASSUME TypeInv, KeyInv, NEW c \in Caller,
         Ask(c) \/ AskPrice(c) \/ AskRate(c) \/ AskLock(c)
  PROVE  KeyInv'
<1>1. /\ \A d \in Caller \ {c} : h'[d] = h[d]
      /\ h'[c].req.id = started + 1 /\ h'[c].pc \notin Past
      /\ claimed' = claimed /\ pend' = pend
  BY AskHands, AskPriceHands, AskRateHands, AskLockHands
     DEF Ask, AskPrice, AskRate, AskLock, money, Past
<1>2. started + 1 \notin claimed /\ pend.id # started + 1
      /\ \A d \in Caller : h[d].req.id # started + 1
  BY ChillKeys
<1>3. QED BY <1>1, <1>2 DEF KeyInv

\* A confirmation takes the parked request, which nobody is deciding.
LEMMA KeyConfirm ==
  ASSUME TypeInv, KeyInv, NEW c \in Caller, Confirm(c)
  PROVE  KeyInv'
<1>1. /\ \A d \in Caller \ {c} : h'[d] = h[d]
      /\ h'[c].req = pend /\ h'[c].pc \notin Past /\ ~Deciding(h'[c])
      /\ claimed' = claimed /\ pend' = pend
  BY ConfirmHands DEF Confirm, money, Past, Deciding
<1>2. QED BY <1>1 DEF KeyInv

\* A request that is parked is in nobody's hands.
LEMMA KeyPark ==
  ASSUME TypeInv, KeyInv, NEW c \in Caller, Park(c)
  PROVE  KeyInv'
<1>1. /\ \A d \in Caller \ {c} : h'[d] = h[d]
      /\ h'[c].req.id = 0 /\ h'[c].pc \notin Past /\ ~Deciding(h'[c])
      /\ claimed' = claimed /\ pend' = h[c].req
  BY LeaveHands, KeysGiven DEF Park, money, Past, Deciding
<1>2. \A d \in Caller : Deciding(h[d]) => h[d].req.id # 0
  BY KeysGiven
<1>3. ASSUME NEW d \in Caller, NEW k \in Caller, d # k, h'[d].pc \in Past, h'[k].pc \in Past
      PROVE  h'[d].req.id # h'[k].req.id
  BY <1>1, <1>3 DEF KeyInv
<1>4. ASSUME NEW d \in Caller, NEW k \in Caller, d # k, Deciding(h'[d])
      PROVE  h'[d].req.id # h'[k].req.id
  <2>1. d # c /\ Deciding(h[d]) /\ h'[d] = h[d]
    BY <1>1, <1>4
  <2>2. QED BY <1>1, <1>2, <1>4, <2>1 DEF KeyInv
<1>5. ASSUME NEW d \in Caller, Deciding(h'[d])
      PROVE  h'[d].req.id \notin claimed' /\ h'[d].req.id # pend'.id
  <2>1. d # c /\ Deciding(h[d]) /\ h'[d] = h[d]
    BY <1>1, <1>5
  <2>2. QED BY <1>1, <2>1 DEF KeyInv
<1>6. \A d \in Caller : h'[d].pc \in Past => h'[d].req.id \in claimed'
  BY <1>1 DEF KeyInv
<1>7. QED BY <1>3, <1>4, <1>5, <1>6 DEF KeyInv

\* A key is claimed once.
LEMMA KeyClaimKey ==
  ASSUME TypeInv, KeyInv, NEW c \in Caller, ClaimKey(c)
  PROVE  KeyInv'
<1> DEFINE k == h[c].req.id
<1>1. /\ \A d \in Caller \ {c} : h'[d] = h[d]
      /\ \/ h'[c].req = NoReq /\ h'[c].pc = "idle"
         \/ h'[c].req = h[c].req /\ k \notin claimed
      /\ ~Deciding(h'[c])
      /\ claimed' = claimed \cup {k} /\ pend' = pend
  BY GoHands, LeaveHands DEF ClaimKey, Deciding
<1>2. \A d \in Caller : Deciding(h[d]) => h[d].req.id # 0
  BY KeysGiven
<1>3. \A d \in Caller : Deciding(h[d]) => d # c
  BY DEF ClaimKey, Deciding
<1>4. ASSUME NEW d \in Caller, h'[d].pc \in Past
      PROVE  /\ h'[d].req = h[d].req /\ h'[d].req.id \in claimed'
             /\ d # c => h[d].pc \in Past /\ h'[d].req.id \in claimed
             /\ d = c => k \notin claimed
  BY <1>1, <1>4 DEF KeyInv, Past
<1>5. ASSUME NEW d \in Caller, NEW g \in Caller, d # g, h'[d].pc \in Past, h'[g].pc \in Past
      PROVE  h'[d].req.id # h'[g].req.id
  BY <1>4, <1>5 DEF KeyInv
<1>6. ASSUME NEW d \in Caller, Deciding(h'[d])
      PROVE  /\ h'[d].req.id \notin claimed' /\ h'[d].req.id # pend'.id
             /\ d # c /\ Deciding(h[d]) /\ h'[d] = h[d]
  <2>1. d # c /\ Deciding(h[d]) /\ h'[d] = h[d]
    BY <1>1, <1>6
  <2>2. QED BY <1>1, <2>1 DEF KeyInv
<1>7. ASSUME NEW d \in Caller, NEW g \in Caller, d # g, Deciding(h'[d])
      PROVE  h'[d].req.id # h'[g].req.id
  <2>1. h'[g].req = h[g].req \/ h'[g].req.id = 0
    BY <1>1, KeysGiven
  <2>2. QED BY <1>2, <1>6, <1>7, <2>1 DEF KeyInv
<1>8. QED BY <1>4, <1>5, <1>6, <1>7 DEF KeyInv

\* A caller that goes on, decides, leaves, or has nothing in hand that is a spend.
LEMMA KeyStep == TypeInv /\ KeyInv /\ [Next]_vars => KeyInv'
<1> SUFFICES ASSUME TypeInv, KeyInv, [Next]_vars PROVE KeyInv'
  OBVIOUS
<1>1. ASSUME NEW c \in Caller, Command(c) PROVE KeyInv'
  <2>1. CASE Ask(c) \/ AskPrice(c) \/ AskRate(c) \/ AskLock(c)
    BY <2>1, KeyAsk
  <2>3. CASE Confirm(c)
    BY <2>3, KeyConfirm
  <2>4. CASE SetPolicy(c)
    <3>1. h' = h /\ claimed' = claimed /\ pend'.id = started + 1
      BY <2>4 DEF SetPolicy, money, NoReq
    <3>2. \A d \in Caller : h[d].req.id # started + 1
      BY ChillKeys
    <3>3. QED BY <3>1, <3>2 DEF KeyInv
  <2>5. CASE ClearPolicy(c) \/ ReportSim(c) \/ Callback(c) \/ Cancel(c)
    <3>1. h' = h /\ claimed' = claimed /\ (pend' = pend \/ pend' = NoReq)
      BY <2>5 DEF ClearPolicy, ReportSim, Callback, Cancel, money
    <3>2. QED BY <3>1, KeyFrame
  <2>6. QED BY <1>1, <2>1, <2>3, <2>4, <2>5 DEF Command
<1>2. ASSUME NEW c \in Caller, Step(c) PROVE KeyInv'
  <2>1. CASE Gate(c) /\ ~Park(c)
    <3>1. /\ claimed' = claimed /\ pend' = pend
          /\ h[c].pc \in {"rules", "locks", "balance", "locked", "sums", "head", "insert"}
      BY <2>1 DEF Gate, CheckRules, CheckLocks, ReadBalance, CompareLocked, ReadSum, ReadHead,
                  Record, money
    <3>2. (\A d \in Caller \ {c} : h'[d] = h[d]) /\ h'[c].req \in {h[c].req, NoReq}
      BY <2>1, GateHands
    <3>3. h'[c].pc \notin Past
      BY <2>1, GoHands, DecidedHands, LeaveHands, ReadBalanceHands, ReadSumHands, ReadHeadHands
         DEF Gate, CheckRules, CheckLocks, CompareLocked, Weigh, Record, Past
    <3>4. Deciding(h'[c]) => Deciding(h[c]) /\ h'[c].req = h[c].req
      BY <3>1, <3>2 DEF Deciding, NoReq, Spends
    <3>5. QED BY <3>1, <3>2, <3>3, <3>4, KeyFrame
  <2>3. CASE Park(c)
    BY <2>3, KeyPark
  <2>4. CASE ClaimKey(c)
    BY <2>4, KeyClaimKey
  <2>5. CASE CheckCap(c) \/ Pay(c) \/ Book(c) \/ Fetch(c)
    <3>1. claimed' = claimed /\ pend' = pend /\ h[c].pc \in Past \cup {"fetch"}
      BY <2>5 DEF CheckCap, Pay, Book, Fetch, money, Past
    <3>2. (h[c].pc \in Past /\ \E pc \in {"pay", "book", "done"} : Go(c, pc)) \/ Leave(c)
      BY <2>5 DEF CheckCap, Pay, Book, Fetch, Past
    <3>3. /\ \A d \in Caller \ {c} : h'[d] = h[d]
          /\ h'[c].req = h[c].req \/ h'[c].req = NoReq
          /\ h'[c].pc \in Past => h[c].pc \in Past /\ h'[c].req = h[c].req
          /\ h'[c].pc \in {"pay", "book", "done", "idle"}
      BY <3>2, GoHands, LeaveHands DEF Past
    <3>4. ~Deciding(h'[c])
      BY <3>3 DEF Deciding
    <3>5. QED BY <3>1, <3>3, <3>4, KeyFrame
  <2>6. CASE Done(c)
    <3>1. claimed' = claimed /\ pend' = NoReq
      BY <2>6 DEF Done, money
    <3>2. (h[c].req.kind = "policy" /\ \E v : Decided(c, v)) \/ Leave(c)
      BY <2>6 DEF Done
    <3>3. /\ \A d \in Caller \ {c} : h'[d] = h[d]
          /\ \/ h'[c].req = h[c].req /\ h[c].req.kind = "policy" /\ h'[c].pc = "head"
             \/ h'[c].req = NoReq /\ h'[c].pc = "idle"
      BY <3>2, DecidedHands, LeaveHands
    <3>4. h'[c].pc \notin Past /\ ~Deciding(h'[c])
      BY <3>3 DEF Past, Deciding, Spends
    <3>5. QED BY <3>1, <3>3, <3>4, KeyFrame
  <2>7. CASE PlaceLock(c) \/ ClearRules(c)
    <3>1. claimed' = claimed /\ pend' = pend
      BY <2>7 DEF PlaceLock, ClearRules, money
    <3>2. \E pc \in {"done", "freeze"} : Go(c, pc)
      BY <2>7 DEF PlaceLock, ClearRules
    <3>3. /\ \A d \in Caller \ {c} : h'[d] = h[d]
          /\ h'[c].req = h[c].req /\ h'[c].pc \in {"done", "freeze"}
      BY <3>2, GoHands
    <3>4. h'[c].pc \notin Past /\ ~Deciding(h'[c])
      BY <3>3 DEF Past, Deciding
    <3>5. QED BY <3>1, <3>3, <3>4, KeyFrame
  <2>8. CASE FreezeRule(c)
    <3>1. claimed' = claimed /\ pend' = pend
      BY <2>8 DEF FreezeRule, money
    <3>2. /\ \A d \in Caller \ {c} : h'[d] = h[d]
          /\ h'[c].req \in {h[c].req, NoReq} /\ h'[c].pc \in {"done", "freeze", "idle"}
      BY <2>8, FreezeRuleHands
    <3>3. h'[c].pc \notin Past /\ ~Deciding(h'[c])
      BY <3>2 DEF Past, Deciding
    <3>4. QED BY <3>1, <3>2, <3>3, KeyFrame
  <2>9. QED BY <1>2, <2>1, <2>3, <2>4, <2>5, <2>6, <2>7, <2>8 DEF Step, Gate
<1>3. ASSUME NEW c \in Caller, Crash(c) PROVE KeyInv'
  <2>1. /\ claimed' = claimed /\ pend' = pend
        /\ \A d \in Caller \ {c} : h'[d] = h[d]
        /\ h'[c].req = NoReq /\ h'[c].pc = "idle"
    BY <1>3, LeaveHands DEF Crash, money
  <2>2. h'[c].pc \notin Past /\ ~Deciding(h'[c])
    BY <2>1 DEF Past, Deciding
  <2>3. QED BY <2>1, <2>2, KeyFrame
<1>4. ASSUME \/ Deposit \/ Mature \/ RiskPasses \/ NewDay \/ UNCHANGED vars
             \/ \E f \in Foreign : ForeignHead(f) \/ ForeignRecord(f)
      PROVE KeyInv'
  <2>1. UNCHANGED <<h, claimed, pend>>
    BY <1>4 DEF Deposit, Mature, RiskPasses, NewDay, ForeignHead, ForeignRecord, vars, money
  <2>2. QED BY <2>1 DEF KeyInv
<1>5. QED BY <1>1, <1>2, <1>3, <1>4 DEF Next

-----------------------------------------------------------------------------
(* The sends that are out: accepted within the soft limit, and not booked. *)

Soft(r) == r.kind = "send" /\ r.amt <= Lim.perTx

\* What it has summed up so far will let it pass, if the holds stay as they are.
Passing(t, held) ==
  t.pc = "sums" /\ t.unread = <<"escrow_hold">> /\ t.sum + held + t.req.amt <= Lim.daily

\* In the hands of a caller, when these keys are claimed and this much is held,
\* or parked.
Due(t, taken, held) ==
  /\ Soft(t.req)
  /\ \/ Passing(t, held)
     \/ t.pc \in {"head", "insert"} /\ t.verdict = "confirm"
     \/ t.pc = "park"
     \/ t.pc = "claim" /\ t.req.id \notin taken
     \/ t.pc \in Past
Parked(p, taken) == IF Soft(p) /\ p.id \notin taken THEN {p} ELSE {}

Carrying == {c \in Caller : Due(h[c], claimed, spent["escrow_hold"])}
InHand   == {h[c].req : c \in Carrying}
Out      == InHand \cup Parked(pend, claimed)
Ending   == {c \in Caller : h[c].pc = "done"}
Free     == Cardinality(Caller) - Cardinality(Ending)

DayInv ==
  /\ CapOK(Out, Free, soft, crashes)
  /\ \A r \in Out : r.amt <= Lim.daily
  /\ soft <= spent["send"] + spent["escrow_hold"]

\* The numbers of the invariant.
LEMMA DayTyped ==
  ASSUME TypeInv
  PROVE  /\ soft \in Nat /\ crashes \in Nat /\ Free \in Nat /\ Free <= Cardinality(Caller)
         /\ Cardinality(Caller) \in Nat /\ Cardinality(Ending) \in Nat
         /\ spent["send"] \in Nat /\ spent["escrow_hold"] \in Nat
<1>1. Ending \in SUBSET Caller
  BY DEF Ending
<1>2. /\ Cardinality(Caller) \in Nat /\ Cardinality(Ending) \in Nat
      /\ Cardinality(Ending) <= Cardinality(Caller)
  BY <1>1, CallersCounted
<1>3. Free \in Nat /\ Free <= Cardinality(Caller)
  BY <1>2 DEF Free
<1>4. soft \in Nat /\ crashes \in Nat /\ spent["send"] \in Nat /\ spent["escrow_hold"] \in Nat
  BY SpendingAssumption DEF TypeInv, DataOK, Kind
<1>5. QED BY <1>2, <1>3, <1>4

\* After a step too.
LEMMA FreeAfter == Free' \in Nat /\ Free' <= Cardinality(Caller)
<1>1. Ending' \in SUBSET Caller
  BY DEF Ending
<1>2. /\ Cardinality(Caller) \in Nat /\ Cardinality(Ending') \in Nat
      /\ Cardinality(Ending') <= Cardinality(Caller)
  BY <1>1, CallersCounted
<1>3. QED BY <1>2 DEF Free

\* What the callers carry is finite, and no more than they are.
LEMMA InHandCounted ==
  ASSUME TypeInv
  PROVE  /\ IsFiniteSet(InHand) /\ Cardinality(InHand) \in Nat
         /\ Cardinality(InHand) <= Free
<1>1. Carrying \in SUBSET (Caller \ Ending) /\ Carrying \in SUBSET Caller
      /\ Ending \in SUBSET Caller
  BY DEF Carrying, Ending, Due, Passing, Past
<1>2. IsFiniteSet(Carrying) /\ IsFiniteSet(Caller) /\ IsFiniteSet(Ending)
      /\ IsFiniteSet(Caller \ Ending)
  BY <1>1, CallersCounted, FS_Subset, SpendingAssumption
<1>3. Cardinality(Caller \ Ending) = Free
  <2>1. Caller \cap Ending = Ending
    BY <1>1
  <2>2. Cardinality(Caller \ Ending) = Cardinality(Caller) - Cardinality(Caller \cap Ending)
    BY <1>2, FS_Difference
  <2>3. QED BY <2>1, <2>2 DEF Free
<1>4. Cardinality(Carrying) <= Free /\ Cardinality(Carrying) \in Nat /\ Free \in Nat
  BY <1>1, <1>2, <1>3, FS_Subset, FS_CardinalityType
<1> DEFINE f == [c \in Carrying |-> h[c].req]
<1>5. f \in Surjection(Carrying, InHand)
  <2>1. f \in [Carrying -> InHand]
    BY DEF InHand
  <2>2. \A r \in InHand : \E c \in Carrying : f[c] = r
    BY DEF InHand
  <2>3. QED BY <2>1, <2>2, Fun_IsSurj
<1>6. IsFiniteSet(InHand) /\ Cardinality(InHand) <= Cardinality(Carrying)
  BY <1>2, <1>5, FS_Surjection
<1>7. Cardinality(InHand) \in Nat
  BY <1>6, FS_CardinalityType
<1>8. QED BY <1>4, <1>6, <1>7

\* Whatever is in hand or parked within the soft limit are finitely many sends.
LEMMA AnySends ==
  ASSUME TypeInv, NEW S \in SUBSET ({h[c].req : c \in Caller} \cup {pend}), \A r \in S : Soft(r)
  PROVE  Sends(S)
<1> DEFINE R == {h[c].req : c \in Caller}
           f == [c \in Caller |-> h[c].req]
<1>1. f \in Surjection(Caller, R)
  <2>1. f \in [Caller -> R] /\ \A r \in R : \E c \in Caller : f[c] = r
    OBVIOUS
  <2>2. QED BY <2>1, Fun_IsSurj
<1>2. IsFiniteSet(R)
  BY <1>1, SpendingAssumption, FS_Surjection
<1>3. IsFiniteSet(R \cup {pend})
  BY <1>2, FS_AddElement
<1>4. IsFiniteSet(S)
  BY <1>3, FS_Subset
<1>5. ASSUME NEW r \in S PROVE r.amt \in Nat /\ r.amt <= Lim.perTx
  <2>1. r = pend \/ \E c \in Caller : r = h[c].req
    OBVIOUS
  <2>2. pend \in Request /\ \A c \in Caller : h[c].req \in Request
    BY DEF TypeInv, DataOK, Work
  <2>3. Soft(r)
    OBVIOUS
  <2>4. QED BY <2>1, <2>2, <2>3 DEF Soft, Request
<1>6. QED BY <1>4, <1>5 DEF Sends

\* What is out are sends within the soft limit, finitely many.
LEMMA OutSends == TypeInv => Sends(Out)
<1> SUFFICES ASSUME TypeInv PROVE Sends(Out)
  OBVIOUS
<1>1. Out \in SUBSET ({h[c].req : c \in Caller} \cup {pend}) /\ \A r \in Out : Soft(r)
  BY DEF Out, InHand, Carrying, Due, Parked
<1>2. QED BY <1>1, AnySends

\* More keys claimed and more held: nothing becomes due by it.
LEMMA DueKept ==
  ASSUME NEW t \in Work, NEW taken, NEW more, taken \subseteq more,
         NEW held \in Nat, NEW grown \in Nat, held <= grown, Due(t, more, grown)
  PROVE  Due(t, taken, held)
<1>1. t.sum \in Nat /\ t.req.amt \in Nat /\ Lim.daily \in Nat
  BY LimTyped DEF Work, Request
<1>2. Passing(t, grown) => Passing(t, held)
  BY <1>1 DEF Passing
<1>3. QED BY <1>2 DEF Due

\* A step that takes up no send and ends no request: what is counted shrinks.
LEMMA DayFrame ==
  ASSUME TypeInv, DayInv, TypeInv',
         UNCHANGED <<soft, crashes>>, soft <= spent'["send"] + spent'["escrow_hold"],
         Out' \in SUBSET Out, Count(Out', Free') <= Count(Out, Free)
  PROVE  DayInv'
<1>1. Sends(Out) /\ soft \in Nat /\ crashes \in Nat /\ Free \in Nat
  BY OutSends, DayTyped
<1>2. Free' \in Nat
  BY FreeAfter
<1>3. CapOK(Out', Free', soft, crashes)
  BY <1>1, <1>2, CapFrame DEF DayInv
<1>4. QED BY <1>3 DEF DayInv

\* Fewer sends and fewer callers count for less.
LEMMA CountShrinks ==
  ASSUME NEW S, Sends(S), NEW T \in SUBSET S, NEW e \in Nat, NEW f \in Nat
  PROVE  /\ f <= e => Count(T, f) <= Count(S, e)
         /\ f <= e + 1 => Count(T, f) <= Count(S, e) + 1
         /\ Cardinality(T) <= e => Count(T, f) <= Count(S, e)
<1>1. IsFiniteSet(S) /\ IsFiniteSet(T) /\ Cardinality(T) <= Cardinality(S)
  BY FS_Subset DEF Sends
<1>2. Cardinality(S) \in Nat /\ Cardinality(T) \in Nat
  BY <1>1, FS_CardinalityType
<1>3. QED BY <1>1, <1>2 DEF Count

\* A caller that is not at its end goes on with a send that was out already.
LEMMA DayMove ==
  ASSUME TypeInv, DayInv, TypeInv',
         UNCHANGED <<soft, crashes>>, soft <= spent'["send"] + spent'["escrow_hold"],
         NEW c \in Caller, \A d \in Caller \ {c} : h'[d] = h[d], h[c].pc # "done",
         claimed \subseteq claimed', spent["escrow_hold"] <= spent'["escrow_hold"],
         Due(h'[c], claimed', spent'["escrow_hold"]) => h'[c].req \in Out,
         Parked(pend', claimed') \subseteq Out
  PROVE  DayInv'
<1>1. Out' \in SUBSET Out
  <2>1. ASSUME NEW d \in Caller, Due(h'[d], claimed', spent'["escrow_hold"]) PROVE h'[d].req \in Out
    <3>1. CASE d = c
      BY <2>1, <3>1
    <3>2. CASE d # c
      <4>1. h'[d] = h[d] /\ h[d] \in Work
        BY <3>2 DEF TypeInv
      <4>2. spent["escrow_hold"] \in Nat /\ spent'["escrow_hold"] \in Nat
        BY DEF TypeInv, DataOK, Kind
      <4>3. Due(h[d], claimed', spent'["escrow_hold"])
        BY <2>1, <4>1
      <4>4. Due(h[d], claimed, spent["escrow_hold"])
        BY <4>1, <4>2, <4>3, DueKept
      <4>5. QED BY <4>1, <4>4 DEF Out, InHand, Carrying
    <3>3. QED BY <3>1, <3>2
  <2>2. QED BY <2>1 DEF Out, InHand, Carrying
<1>2. Free' <= Free
  <2>1. Ending \in SUBSET Ending' /\ Ending' \in SUBSET Caller
    BY DEF Ending
  <2>2. Cardinality(Ending) <= Cardinality(Ending')
    BY <2>1, FewerCallers
  <2>3. Cardinality(Ending) \in Nat /\ Cardinality(Caller) \in Nat /\ Cardinality(Ending') \in Nat
    BY <2>1, CallersCounted, DayTyped
  <2>4. QED BY <2>2, <2>3 DEF Free
<1>3. Sends(Out) /\ Free \in Nat
  BY OutSends, DayTyped
<1>4. Free' \in Nat
  BY FreeAfter
<1>5. Count(Out', Free') <= Count(Out, Free)
  BY <1>1, <1>2, <1>3, <1>4, CountShrinks
<1>6. QED BY <1>1, <1>5, DayFrame

\* A request that has been executed is dropped with whatever is parked: what
\* is left out is in the hands of the other callers.
LEMMA DayDone ==
  ASSUME TypeInv, DayInv, TypeInv', NEW c \in Caller, Done(c)
  PROVE  DayInv'
<1>1. /\ pend' = NoReq /\ UNCHANGED <<soft, crashes, spent, claimed>> /\ h[c].pc = "done"
      /\ Leave(c) \/ (h[c].req.kind = "policy" /\ Decided(c, "pass"))
  BY DEF Done, money
<1>2. /\ \A d \in Caller \ {c} : h'[d] = h[d]
      /\ ~Due(h'[c], claimed', spent'["escrow_hold"])
  BY <1>1, LeaveHands, DecidedHands DEF Due, Passing, Past
<1>3. Parked(pend', claimed') = {}
  BY <1>1 DEF Parked, Soft, NoReq
<1>4. Out' \in SUBSET InHand
  BY <1>1, <1>2, <1>3 DEF Out, InHand, Carrying
<1>5. Out' \in SUBSET Out
  BY <1>4 DEF Out
<1>6. Cardinality(Out') <= Free
  <2>1. IsFiniteSet(InHand) /\ Cardinality(InHand) \in Nat /\ Cardinality(InHand) <= Free
    BY InHandCounted
  <2>2. IsFiniteSet(Out') /\ Cardinality(Out') <= Cardinality(InHand)
    BY <1>4, <2>1, FS_Subset
  <2>3. Cardinality(Out') \in Nat /\ Free \in Nat
    BY <2>2, DayTyped, FS_CardinalityType
  <2>4. QED BY <2>1, <2>2, <2>3
<1>7. Free' \in Nat
  BY FreeAfter
<1>8. Count(Out', Free') <= Count(Out, Free)
  BY <1>5, <1>6, <1>7, OutSends, DayTyped, CountShrinks
<1>9. QED BY <1>1, <1>5, <1>8, DayFrame DEF DayInv

\* A crash takes what a caller carries with it, and leaves what is parked.
LEMMA DayCrash ==
  ASSUME TypeInv, DayInv, TypeInv', NEW c \in Caller, Crash(c)
  PROVE  DayInv'
<1>1. /\ UNCHANGED <<pend, soft, spent, claimed>> /\ crashes' = crashes + 1
      /\ \A d \in Caller \ {c} : h'[d] = h[d]
      /\ h'[c].pc = "idle"
  BY LeaveHands DEF Crash, money
<1>2. Out' \in SUBSET Out
  <2>1. ~Due(h'[c], claimed', spent'["escrow_hold"])
    BY <1>1 DEF Due, Passing, Past
  <2>2. QED BY <1>1, <2>1 DEF Out, InHand, Carrying
<1>3. Free' <= Free + 1 /\ Free' \in Nat /\ Free \in Nat
  <2>1. Ending \in SUBSET (Ending' \cup {c}) /\ Ending' \in SUBSET Caller
    BY <1>1 DEF Ending
  <2>2. IsFiniteSet(Ending') /\ Cardinality(Ending') \in Nat /\ Cardinality(Caller) \in Nat
    BY <2>1, CallersCounted
  <2>3. IsFiniteSet(Ending' \cup {c}) /\ Cardinality(Ending' \cup {c}) <= Cardinality(Ending') + 1
        /\ Cardinality(Ending' \cup {c}) \in Nat
    BY <2>2, FS_AddElement, FS_CardinalityType
  <2>4. Cardinality(Ending) <= Cardinality(Ending' \cup {c})
    BY <2>1, <2>3, FS_Subset
  <2>5. Cardinality(Ending) \in Nat /\ Free \in Nat
    BY DayTyped
  <2>6. Free' \in Nat
    BY FreeAfter
  <2>7. QED BY <2>2, <2>3, <2>4, <2>5, <2>6 DEF Free
<1>4. Sends(Out) /\ soft \in Nat /\ crashes \in Nat
  BY OutSends, DayTyped
<1>5. Count(Out', Free') <= Count(Out, Free) + 1
  BY <1>2, <1>3, <1>4, CountShrinks
<1>6. CapOK(Out', Free', soft, crashes + 1)
  BY <1>2, <1>3, <1>4, <1>5, CapCrash DEF DayInv
<1>7. QED BY <1>1, <1>2, <1>6 DEF DayInv

\* At midnight the sum starts again; what is out goes on, and what was summing
\* up may pass now.
LEMMA DayMidnight ==
  ASSUME TypeInv, DayInv, NewDay
  PROVE  DayInv'
<1>1. /\ soft' = 0 /\ crashes' = crashes /\ UNCHANGED <<h, pend, claimed>> /\ Free' = Free
      /\ spent'["send"] = 0 /\ spent'["escrow_hold"] = 0
  BY DEF NewDay, Free, Ending, Kind
<1>2. Out' \in SUBSET ({h[c].req : c \in Caller} \cup {pend}) /\ \A r \in Out' : Soft(r)
  BY <1>1 DEF Out, InHand, Carrying, Due, Parked
<1>3. Sends(Out')
  BY <1>2, AnySends
<1>4. ASSUME NEW r \in Out' PROVE r.amt <= Lim.daily
  <2>1. CASE r \in Parked(pend, claimed)
    BY <2>1 DEF DayInv, Out
  <2>2. CASE \E c \in Caller : r = h[c].req /\ Due(h[c], claimed, 0)
    <3>1. PICK c \in Caller : r = h[c].req /\ Due(h[c], claimed, 0)
      BY <2>2
    <3>2. CASE Passing(h[c], 0)
      <4>1. h[c].sum \in Nat /\ r.amt \in Nat /\ Lim.daily \in Nat
        BY <3>1, LimTyped DEF TypeInv, Work, Request
      <4>2. h[c].sum + 0 + r.amt <= Lim.daily
        BY <3>1, <3>2 DEF Passing
      <4>3. QED BY <4>1, <4>2
    <3>3. CASE ~Passing(h[c], 0)
      <4>1. Due(h[c], claimed, spent["escrow_hold"])
        BY <3>1, <3>3 DEF Due
      <4>2. QED BY <3>1, <4>1 DEF DayInv, Out, InHand, Carrying
    <3>4. QED BY <3>2, <3>3
  <2>3. QED BY <1>1, <2>1, <2>2 DEF Out, InHand, Carrying
<1>5. CapOK(Out', Free, 0, crashes)
  BY <1>3, <1>4, DayTyped, CapMidnight
<1>6. QED BY <1>1, <1>4, <1>5 DEF DayInv

\* A request begins without having been accepted.
LEMMA AskVerdict ==
  ASSUME TypeInv, NEW c \in Caller, Ask(c)
  PROVE  h'[c].verdict # "confirm"
<1>1. PICK kind, amt, to :
        LET v == FirstVerdict(kind, amt, Lim, cooldown)
            req == [NoReq EXCEPT !.kind = kind, !.id = started', !.amt = amt, !.to = to]
        IN  h' = [h EXCEPT ![c] =
                [Idle EXCEPT !.req = req, !.cool = cooldown, !.called = callback,
                             !.verdict = IF v = "next" THEN "none" ELSE v,
                             !.unread = Counted(kind),
                             !.pc = IF v # "next" THEN "head"
                                    ELSE IF kind = "send" THEN "rules" ELSE "locks"]]
  BY DEF Ask
<1> DEFINE v == FirstVerdict(kind, amt, Lim, cooldown)
<1>2. v \in {"reject", "next"}
  BY VerdictsTyped
<1>3. h'[c].verdict = IF v = "next" THEN "none" ELSE v
  BY <1>1 DEF Idle, TypeInv
<1> HIDE DEF v
<1>4. QED BY <1>2, <1>3

\* The locks accept only what is above the soft limit; what they let through has
\* its sums to read.
LEMMA DayWeigh ==
  ASSUME TypeInv, NEW c \in Caller, h[c].pc \in {"locks", "locked"}, h[c].req.kind # "lock",
         NEW available, Weigh(c, available), NEW taken, NEW held
  PROVE  ~Due(h'[c], taken, held)
<1> DEFINE r == h[c].req
           v == LockVerdict(r.kind, r.amt, Lim, available)
<1>1. v \in {"reject", "confirm", "next"} /\ (v = "confirm" => r.amt > Lim.perTx)
  BY VerdictsTyped DEF LockVerdict
<1>2. r.amt > Lim.perTx => ~Soft(r)
  BY LimTyped DEF Soft, TypeInv, Work, Request
<1>3. IF v = "next" THEN Go(c, "sums") ELSE Decided(c, v)
  BY DEF Weigh
<1> HIDE DEF v
<1>4. CASE v = "next"
  <2>1. h'[c].pc = "sums" /\ h'[c].req = r /\ h'[c].unread = h[c].unread
    BY <1>3, <1>4, GoHands
  <2>2. h[c].unread = Counted(r.kind)
    BY DEF TypeInv, WorkOK, SumOK, Asking
  <2>3. r.kind = "send" => h'[c].unread # <<"escrow_hold">>
    <3>1. <<"send", "escrow_hold">> # <<"escrow_hold">>
      OBVIOUS
    <3>2. QED BY <2>1, <2>2, <3>1 DEF Counted
  <2>4. QED BY <2>1, <2>3 DEF Due, Passing, Past, Soft
<1>5. CASE v # "next"
  <2>1. h'[c].pc = "head" /\ h'[c].req = r /\ h'[c].verdict = v
    BY <1>3, <1>5, DecidedHands
  <2>2. QED BY <1>1, <1>2, <1>5, <2>1 DEF Due, Passing, Past
<1>6. QED BY <1>4, <1>5

\* Up to the sums no send within the soft limit is accepted.
LEMMA DayChecks ==
  ASSUME TypeInv, NEW c \in Caller, NEW taken, NEW held,
         CheckRules(c) \/ CheckLocks(c) \/ ReadBalance(c) \/ CompareLocked(c)
  PROVE  ~Due(h'[c], taken, held)
<1> DEFINE r == h[c].req
<1>1. CASE CheckRules(c)
  <2> DEFINE u == RiskVerdict(r.amt, Lim, RulesRefuse(rules, r.amt, r.to, paid),
                              h[c].cool, h[c].called)
  <2>1. u \in {"reject", "callback", "next"} /\ (Go(c, "locks") \/ (u # "next" /\ Decided(c, u)))
    BY <1>1, VerdictsTyped DEF CheckRules
  <2> HIDE DEF u
  <2>2. h'[c].pc = "locks" \/ (h'[c].pc = "head" /\ h'[c].verdict # "confirm")
    BY <2>1, GoHands, DecidedHands
  <2>3. QED BY <2>2 DEF Due, Passing, Past
<1>2. CASE CheckLocks(c)
  <2>1. h[c].pc = "locks" /\ (Go(c, "balance") \/ Weigh(c, r.amt))
    BY <1>2 DEF CheckLocks
  <2>2. r.kind # "lock"
    BY <2>1 DEF TypeInv, WorkOK, KindsAt, Spends
  <2>3. CASE Go(c, "balance")
    <3>1. h'[c].pc = "balance"
      BY <2>3, GoHands
    <3>2. QED BY <3>1 DEF Due, Passing, Past
  <2>4. CASE Weigh(c, r.amt)
    BY <2>1, <2>2, <2>4, DayWeigh
  <2>5. QED BY <2>1, <2>3, <2>4
<1>3. CASE ReadBalance(c)
  <2>1. h'[c].pc = "locked"
    BY <1>3, ReadBalanceHands
  <2>2. QED BY <2>1 DEF Due, Passing, Past
<1>4. CASE CompareLocked(c)
  <2>1. /\ h[c].pc = "locked"
        /\ \/ r.kind # "lock" /\ \E available : Weigh(c, available)
           \/ r.kind = "lock" /\ (Leave(c) \/ Go(c, "park"))
    BY <1>4 DEF CompareLocked
  <2>2. CASE r.kind # "lock" /\ \E available : Weigh(c, available)
    BY <2>1, <2>2, DayWeigh
  <2>3. CASE r.kind = "lock" /\ (Leave(c) \/ Go(c, "park"))
    <3>1. h'[c].pc = "idle" \/ h'[c].req.kind # "send"
      BY <2>3, LeaveHands, GoHands
    <3>2. QED BY <3>1 DEF Due, Passing, Past, Soft
  <2>4. QED BY <2>1, <2>2, <2>3
<1>5. QED BY <1>1, <1>2, <1>3, <1>4

\* A caller that is not at its end is free to be at it later.
LEMMA FreeOne ==
  ASSUME TypeInv, NEW c \in Caller, h[c].pc # "done"
  PROVE  Free >= 1
<1>1. Ending \in SUBSET Caller /\ c \notin Ending /\ Caller \in SUBSET Caller
  BY DEF Ending
<1>2. Cardinality(Ending) <= Cardinality(Caller) - 1
  BY <1>1, FewerCallers
<1>3. QED BY <1>2, DayTyped DEF Free

\* A send that is booked is nobody else's, and not parked.
LEMMA DayBook ==
  ASSUME TypeInv, KeyInv, DayInv, TypeInv', NEW c \in Caller, Book(c)
  PROVE  DayInv'
<1> DEFINE r == h[c].req
<1>1. /\ \A d \in Caller \ {c} : h'[d] = h[d]
      /\ h'[c].pc = "done" /\ h[c].pc = "book" /\ UNCHANGED <<pend, claimed, crashes>>
  BY GoHands DEF Book
<1>2. ~Due(h'[c], claimed', spent'["escrow_hold"])
  BY <1>1 DEF Due, Passing, Past
<1>3. r \in Request /\ r.amt \in Nat
  BY DEF TypeInv, Work, Request
<1>4. spent'["send"] + spent'["escrow_hold"] =
        spent["send"] + spent["escrow_hold"] + (IF r.kind = "send" THEN r.amt ELSE 0)
  <2>1. spent \in [Kind -> Nat] /\ spent' = [spent EXCEPT ![BookedAs(r)] = @ + r.amt]
    BY DEF Book, TypeInv, DataOK
  <2>2. {"send", "escrow_hold", "swap", "airtime"} \subseteq Kind
        /\ spent["send"] \in Nat /\ spent["escrow_hold"] \in Nat
    BY <2>1 DEF Kind
  <2>3. CASE r.kind = "send" /\ r.to.claim
    <3>1. BookedAs(r) = "escrow_hold"
      BY <2>3 DEF BookedAs
    <3>2. QED BY <1>3, <2>1, <2>2, <2>3, <3>1
  <2>4. CASE r.kind = "send" /\ ~r.to.claim
    <3>1. BookedAs(r) = "send"
      BY <2>4 DEF BookedAs
    <3>2. QED BY <1>3, <2>1, <2>2, <2>4, <3>1
  <2>5. CASE r.kind # "send"
    <3>1. BookedAs(r) \in {"swap", "airtime"}
      BY <2>5 DEF BookedAs
    <3>2. QED BY <2>1, <2>2, <2>5, <3>1
  <2>6. QED BY <2>3, <2>4, <2>5
<1>9. spent["escrow_hold"] <= spent'["escrow_hold"] /\ spent'["escrow_hold"] \in Nat
      /\ spent["escrow_hold"] \in Nat
  <2>1. /\ spent \in [Kind -> Nat] /\ spent' = [spent EXCEPT ![BookedAs(r)] = @ + r.amt]
        /\ "escrow_hold" \in Kind
    BY DEF Book, TypeInv, DataOK, Kind
  <2>2. spent'["escrow_hold"] \in {spent["escrow_hold"], spent["escrow_hold"] + r.amt}
        /\ spent["escrow_hold"] \in Nat
    BY <2>1
  <2>3. QED BY <1>3, <2>2
<1>5. soft \in Nat /\ spent["send"] \in Nat /\ spent["escrow_hold"] \in Nat
      /\ soft <= spent["send"] + spent["escrow_hold"]
  BY DayTyped DEF DayInv
<1>6. CASE ~Soft(r)
  <2>1. soft' = soft
    BY <1>6 DEF Book, Soft
  <2>2. soft <= spent'["send"] + spent'["escrow_hold"]
    BY <1>3, <1>4, <1>5
  <2>3. Parked(pend', claimed') \subseteq Out /\ claimed \subseteq claimed'
    BY <1>1 DEF Out
  <2>4. QED BY <1>1, <1>2, <1>9, <2>1, <2>2, <2>3, DayMove
<1>7. CASE Soft(r)
  <2>1. soft' = soft + r.amt /\ r.kind = "send"
    BY <1>7 DEF Book, Soft
  <2>2. r \in Out
    BY <1>1, <1>7 DEF Out, InHand, Carrying, Due, Past
  <2>3. r.id \in claimed
    BY <1>1 DEF KeyInv, Past
  <2>4. Out' \in SUBSET (Out \ {r})
    <3>1. ASSUME NEW d \in Caller, Due(h'[d], claimed', spent'["escrow_hold"]) PROVE h'[d].req \in Out /\ h'[d].req # r
      <4>1. d # c /\ h'[d] = h[d] /\ Due(h[d], claimed, spent["escrow_hold"])
        <5>1. d # c /\ h'[d] = h[d] /\ h[d] \in Work
          BY <1>1, <1>2, <3>1 DEF TypeInv
        <5>2. Due(h[d], claimed', spent'["escrow_hold"]) /\ claimed \subseteq claimed'
          BY <1>1, <3>1, <5>1
        <5>3. QED BY <1>9, <5>1, <5>2, DueKept
      <4>2. h[d].req.id # r.id
        <5>1. CASE h[d].pc \in Past
          BY <1>1, <4>1, <5>1 DEF KeyInv, Past
        <5>2. CASE h[d].pc = "claim" /\ h[d].req.id \notin claimed
          BY <2>3, <5>2
        <5>3. CASE h[d].pc \in {"sums", "head", "insert", "park"}
          <6>1. Deciding(h[d])
            BY <4>1, <5>3 DEF Deciding, Due, Soft, Spends
          <6>2. QED BY <2>3, <6>1 DEF KeyInv
        <5>4. QED BY <4>1, <5>1, <5>2, <5>3 DEF Due, Passing
      <4>3. h[d].req \in Out
        BY <4>1 DEF Out, InHand, Carrying
      <4>4. QED BY <4>1, <4>2, <4>3
    <3>2. ASSUME NEW p \in Parked(pend', claimed') PROVE p \in Out /\ p # r
      BY <1>1, <2>3, <3>2 DEF Parked, Out
    <3>3. QED BY <3>1, <3>2 DEF Out, InHand, Carrying
  <2>5. Free' = Free - 1 /\ Free >= 1 /\ Free \in Nat
    <3>1. Ending' = Ending \cup {c} /\ c \notin Ending /\ Ending \in SUBSET Caller
      BY <1>1 DEF Ending
    <3>2. Cardinality(Ending') = Cardinality(Ending) + 1
      <4>1. IsFiniteSet(Ending)
        BY <3>1, CallersCounted
      <4>2. Cardinality(Ending \cup {c}) = Cardinality(Ending) + 1
        BY <3>1, <4>1, FS_AddElement
      <4>3. QED BY <3>1, <4>2
    <3>3. Free >= 1
      BY <1>1, FreeOne
    <3>4. QED BY <3>2, <3>3, DayTyped DEF Free
  <2>6. CapOK(Out', Free - 1, soft + r.amt, crashes)
    BY <2>2, <2>4, <2>5, OutSends, DayTyped, CapBook DEF DayInv
  <2>7. soft' <= spent'["send"] + spent'["escrow_hold"]
    BY <1>3, <1>4, <1>5, <2>1
  <2>8. QED BY <1>1, <2>1, <2>4, <2>5, <2>6, <2>7 DEF DayInv
<1>8. QED BY <1>6, <1>7

\* A send whose first sum leaves room for it, with what is held now, fits into
\* the day by itself.
LEMMA DayAccept ==
  ASSUME TypeInv, DayInv, NEW c \in Caller, h[c].pc # "done",
         UNCHANGED <<pend, claimed, soft, spent, crashes>>,
         \A d \in Caller \ {c} : h'[d] = h[d],
         h'[c].pc # "done", h'[c].req = h[c].req,
         Due(h'[c], claimed', spent'["escrow_hold"]), soft + h[c].req.amt <= Lim.daily
  PROVE  DayInv'
<1> DEFINE r == h[c].req
<1>1. r.amt \in Nat /\ Lim.daily \in Nat /\ Soft(r)
  BY LimTyped DEF TypeInv, Work, Request, Due
<1>2. Out' \in SUBSET (Out \cup {r}) /\ r \in Out'
  <2>1. ASSUME NEW d \in Caller, Due(h'[d], claimed', spent'["escrow_hold"])
        PROVE h'[d].req \in Out \cup {r}
    BY <2>1 DEF Out, InHand, Carrying
  <2>2. r \in Out'
    BY DEF Out, InHand, Carrying
  <2>3. QED BY <2>1, <2>2 DEF Out, InHand, Carrying
<1>3. Sends(Out) /\ Sends(Out')
  <2>1. Sends(Out) /\ IsFiniteSet(Out \cup {r})
    BY OutSends, FS_AddElement DEF Sends
  <2>2. IsFiniteSet(Out')
    BY <1>2, <2>1, FS_Subset
  <2>3. r.amt <= Lim.perTx
    BY <1>1 DEF Soft
  <2>4. QED BY <1>1, <1>2, <2>1, <2>2, <2>3 DEF Sends
<1>4. Ending' = Ending
  BY DEF Ending
<1>5. Free' = Free /\ Free >= 1 /\ Free \in Nat /\ Free <= Cardinality(Caller)
  BY <1>4, FreeOne, DayTyped DEF Free
<1>6. CapOK(Out', Free, soft, crashes)
  BY <1>2, <1>3, <1>5, DayTyped, CapAccept DEF DayInv
<1>7. \A q \in Out' : q.amt <= Lim.daily
  <2>1. r.amt <= Lim.daily
    BY <1>1, DayTyped
  <2>2. QED BY <1>2, <2>1 DEF DayInv
<1>8. QED BY <1>5, <1>6, <1>7 DEF DayInv

\* A send that passes has passed when it read the first sum: the second one is
\* what it was counted with.
LEMMA DayReadSum ==
  ASSUME TypeInv, DayInv, TypeInv', NEW c \in Caller, ReadSum(c)
  PROVE  DayInv'
<1> DEFINE r == h[c].req
           u == h[c].unread
           held == spent["escrow_hold"]
<1>1. /\ UNCHANGED <<pend, claimed, soft, spent, crashes>> /\ h[c].pc = "sums"
      /\ \A d \in Caller \ {c} : h'[d] = h[d]
      /\ h'[c].pc \in {"sums", "head"} /\ h'[c].req = r
  BY ReadSumHands DEF ReadSum, money
<1>2. r.amt \in Nat /\ Lim.daily \in Nat /\ h[c].sum \in Nat
  BY LimTyped DEF TypeInv, Work, Request
<1>3. Parked(pend', claimed') \subseteq Out /\ claimed \subseteq claimed'
      /\ spent'["escrow_hold"] = held /\ held <= held
      /\ soft <= spent'["send"] + spent'["escrow_hold"]
  BY <1>1, DayTyped DEF Out, DayInv
<1>4. CASE ~Due(h'[c], claimed', spent'["escrow_hold"])
  BY <1>1, <1>3, <1>4, DayMove
<1>5. CASE Due(h'[c], claimed', spent'["escrow_hold"])
  <2>1. Soft(r) /\ r.kind = "send"
    BY <1>1, <1>5 DEF Due, Soft
  <2>2. u \in {<<"send", "escrow_hold">>, <<"escrow_hold">>}
    <3>1. u \in ToSum(r.kind)
      BY <1>1, <2>1 DEF TypeInv, WorkOK, SumOK, Asking
    <3>2. QED BY <2>1, <3>1 DEF ToSum
  <2>3. CASE u = <<"send", "escrow_hold">>
    <3>1. Len(u) = 2 /\ Head(u) = "send"
      BY <2>3
    <3>2. h'[c].pc = "sums" /\ h'[c].sum = h[c].sum + spent["send"]
      BY <3>1, ReadSumHands
    <3>3. h'[c].sum + held + r.amt <= Lim.daily
      BY <1>1, <1>3, <1>5, <3>2 DEF Due, Passing, Past
    <3>4. soft + r.amt <= Lim.daily
      <4>1. soft \in Nat /\ spent["send"] \in Nat /\ held \in Nat /\ soft <= spent["send"] + held
        BY DayTyped DEF DayInv
      <4> HIDE DEF held
      <4>2. QED BY <1>2, <3>2, <3>3, <4>1
    <3>5. QED BY <1>1, <1>5, <3>2, <3>4, DayAccept
  <2>4. CASE u = <<"escrow_hold">>
    <3>1. Len(u) = 1 /\ Head(u) = "escrow_hold"
      BY <2>4
    <3>2. h'[c].pc = "head" /\ h'[c].verdict = SumVerdict(r.kind, r.amt, Lim, h[c].sum + held)
      BY <3>1, ReadSumHands
    <3>3. h'[c].verdict = "confirm"
      BY <1>5, <3>2 DEF Due, Passing, Past
    <3>4. ~(h[c].sum + held + r.amt > Lim.daily)
      BY <2>1, <3>2, <3>3 DEF SumVerdict
    <3>5. Passing(h[c], held)
      <4>1. held \in Nat
        BY DayTyped
      <4> HIDE DEF held
      <4>2. h[c].sum + held + r.amt <= Lim.daily
        BY <1>2, <3>4, <4>1
      <4>3. QED BY <1>1, <2>4, <4>2 DEF Passing
    <3>6. Due(h[c], claimed, held)
      BY <2>1, <3>5 DEF Due
    <3>7. h'[c].req \in Out
      BY <1>1, <3>6 DEF Out, InHand, Carrying
    <3>8. QED BY <1>1, <1>3, <3>7, DayMove
  <2>5. QED BY <2>2, <2>3, <2>4
<1>6. QED BY <1>4, <1>5

\* Every step of the gate keeps it.
LEMMA DayGate ==
  ASSUME TypeInv, KeyInv, DayInv, TypeInv', NEW c \in Caller, Gate(c)
  PROVE  DayInv'
<1>0. Parked(pend, claimed) \subseteq Out /\ claimed \subseteq claimed
      /\ spent["escrow_hold"] <= spent["escrow_hold"]
      /\ soft <= spent["send"] + spent["escrow_hold"]
  BY DayTyped DEF Out, DayInv
<1>1. CASE CheckRules(c) \/ CheckLocks(c) \/ ReadBalance(c) \/ CompareLocked(c)
  <2>1. UNCHANGED <<claimed, soft, spent, crashes, pend>> /\ h[c].pc # "done"
    BY <1>1 DEF CheckRules, CheckLocks, ReadBalance, CompareLocked, money
  <2>2. \A d \in Caller \ {c} : h'[d] = h[d]
    BY GateHands
  <2>3. ~Due(h'[c], claimed', spent'["escrow_hold"])
    BY <1>1, DayChecks
  <2>4. QED BY <1>0, <2>1, <2>2, <2>3, DayMove
<1>2. CASE ReadSum(c)
  BY <1>2, DayReadSum
<1>3. CASE ReadHead(c) \/ Record(c)
  <2>1. UNCHANGED <<claimed, soft, spent, crashes, pend>> /\ h[c].pc \in {"head", "insert"}
    BY <1>3 DEF ReadHead, Record, money
  <2>2. \/ ReadHead(c) \/ Go(c, "fetch") \/ Leave(c)
        \/ h[c].verdict = "confirm" /\ Go(c, "park")
    BY <1>3 DEF Record
  <2>3. /\ \A d \in Caller \ {c} : h'[d] = h[d]
        /\ \/ h'[c].pc \in {"fetch", "idle"}
           \/ /\ h'[c].req = h[c].req /\ h'[c].verdict = h[c].verdict
              /\ h'[c].pc = "insert" \/ (h'[c].pc = "park" /\ h[c].verdict = "confirm")
    BY <2>2, ReadHeadHands, GoHands, LeaveHands
  <2>4. Due(h'[c], claimed', spent'["escrow_hold"]) =>
          Due(h[c], claimed, spent["escrow_hold"]) /\ h'[c].req = h[c].req
    BY <2>1, <2>3 DEF Due, Passing, Past
  <2>5. Due(h'[c], claimed', spent'["escrow_hold"]) => h'[c].req \in Out
    BY <2>4 DEF Out, InHand, Carrying
  <2>6. QED BY <1>0, <2>1, <2>3, <2>5, DayMove
<1>4. CASE Park(c)
  <2>1. UNCHANGED <<claimed, soft, spent, crashes>> /\ h[c].pc = "park" /\ pend' = h[c].req
    BY <1>4 DEF Park, money
  <2>2. \A d \in Caller \ {c} : h'[d] = h[d]
    BY GateHands
  <2>3. ~Due(h'[c], claimed', spent'["escrow_hold"])
    BY <1>4, LeaveHands DEF Park, Due, Passing, Past
  <2>4. Parked(pend', claimed') \subseteq Out
    BY <2>1 DEF Parked, Out, InHand, Carrying, Due
  <2>5. QED BY <1>0, <2>1, <2>2, <2>3, <2>4, DayMove
<1>5. QED BY <1>1, <1>2, <1>3, <1>4 DEF Gate

\* Every command keeps it.
LEMMA DayCommand ==
  ASSUME TypeInv, KeyInv, DayInv, TypeInv', NEW c \in Caller, Command(c)
  PROVE  DayInv'
<1>0. Parked(pend, claimed) \subseteq Out /\ claimed \subseteq claimed
      /\ spent["escrow_hold"] <= spent["escrow_hold"]
      /\ soft <= spent["send"] + spent["escrow_hold"]
  BY DayTyped DEF Out, DayInv
<1>1. UNCHANGED <<claimed, soft, spent, crashes>>
  BY DEF Command, Ask, AskPrice, AskRate, SetPolicy, ClearPolicy, AskLock, ReportSim, Callback,
         Cancel, Confirm, money
<1>2. CASE Ask(c)
  <2>1. /\ \A d \in Caller \ {c} : h'[d] = h[d]
        /\ h[c].pc = "idle" /\ h'[c].pc \in {"head", "rules", "locks"} /\ pend' = pend
    BY <1>2, AskHands DEF Ask
  <2>2. h'[c].verdict # "confirm"
    BY <1>2, AskVerdict
  <2>3. ~Due(h'[c], claimed', spent'["escrow_hold"])
    BY <2>1, <2>2 DEF Due, Passing, Past
  <2>4. QED BY <1>0, <1>1, <2>1, <2>3, DayMove
<1>3. CASE AskPrice(c) \/ AskRate(c) \/ AskLock(c)
  <2>1. /\ \A d \in Caller \ {c} : h'[d] = h[d]
        /\ h[c].pc = "idle" /\ h'[c].req.kind # "send" /\ pend' = pend
    BY <1>3, AskPriceHands, AskRateHands, AskLockHands DEF AskPrice, AskRate, AskLock
  <2>2. ~Due(h'[c], claimed', spent'["escrow_hold"])
    BY <2>1 DEF Due, Soft
  <2>3. QED BY <1>0, <1>1, <2>1, <2>2, DayMove
<1>4. CASE Confirm(c)
  <2>1. /\ \A d \in Caller \ {c} : h'[d] = h[d]
        /\ h[c].pc = "idle" /\ h'[c].pc \in {"clear", "place", "claim"}
        /\ h'[c].req = pend /\ pend' = pend
    BY <1>4, ConfirmHands DEF Confirm
  <2>2. Due(h'[c], claimed', spent'["escrow_hold"]) => h'[c].req \in Out
    BY <1>1, <2>1 DEF Due, Passing, Past, Out, Parked
  <2>3. QED BY <1>0, <1>1, <2>1, <2>2, DayMove
<1>5. CASE SetPolicy(c) \/ ClearPolicy(c) \/ ReportSim(c) \/ Callback(c) \/ Cancel(c)
  <2>1. h' = h /\ h[c].pc = "idle"
    BY <1>5 DEF SetPolicy, ClearPolicy, ReportSim, Callback, Cancel, Begin
  <2>2. Parked(pend', claimed') \subseteq Out
    <3>1. SetPolicy(c) => pend'.kind = "policy"
      BY DEF SetPolicy, NoReq
    <3>2. ~SetPolicy(c) => pend' = pend \/ (pend' = NoReq /\ NoReq.kind = "none")
      BY <1>5 DEF ClearPolicy, ReportSim, Callback, Cancel, NoReq
    <3>3. CASE pend'.kind # "send"
      <4>1. ~Soft(pend')
        BY <3>3 DEF Soft
      <4>2. QED BY <4>1 DEF Parked
    <3>4. CASE pend' = pend
      BY <1>0, <1>1, <3>4
    <3>5. QED BY <3>1, <3>2, <3>3, <3>4
  <2>3. ~Due(h'[c], claimed', spent'["escrow_hold"])
    BY <2>1 DEF Due, Passing, Past
  <2>4. QED BY <1>0, <1>1, <2>1, <2>2, <2>3, DayMove
<1>6. QED BY <1>2, <1>3, <1>4, <1>5 DEF Command

\* Every step of an execution keeps it.
LEMMA DayExecute ==
  ASSUME TypeInv, KeyInv, DayInv, TypeInv', NEW c \in Caller, Step(c), ~Gate(c)
  PROVE  DayInv'
<1>0. Parked(pend, claimed) \subseteq Out /\ claimed \subseteq claimed
      /\ spent["escrow_hold"] <= spent["escrow_hold"]
      /\ soft <= spent["send"] + spent["escrow_hold"]
  BY DayTyped DEF Out, DayInv
<1>1. CASE Fetch(c)
  <2>1. UNCHANGED <<claimed, soft, crashes, pend>> /\ h[c].pc = "fetch"
        /\ spent'["send"] = spent["send"] /\ spent'["escrow_hold"] = spent["escrow_hold"]
    BY <1>1 DEF Fetch, TypeInv, DataOK, Kind
  <2>2. (\A d \in Caller \ {c} : h'[d] = h[d]) /\ ~Due(h'[c], claimed', spent'["escrow_hold"])
    BY <1>1, LeaveHands DEF Fetch, Due, Passing, Past
  <2>3. QED BY <1>0, <2>1, <2>2, DayMove
<1>2. CASE ClaimKey(c)
  <2>1. /\ UNCHANGED <<soft, spent, crashes, pend>> /\ h[c].pc = "claim"
        /\ claimed' = claimed \cup {h[c].req.id}
    BY <1>2 DEF ClaimKey
  <2>2. Leave(c) \/ (h[c].req.id \notin claimed /\ \E pc \in {"cap", "pay"} : Go(c, pc))
    BY <1>2 DEF ClaimKey
  <2>3. /\ \A d \in Caller \ {c} : h'[d] = h[d]
        /\ h'[c].pc = "idle" \/ (/\ h'[c].req = h[c].req /\ h[c].req.id \notin claimed
                                 /\ h'[c].pc \in Past)
    BY <2>2, GoHands, LeaveHands DEF Past
  <2>4. Due(h'[c], claimed', spent'["escrow_hold"]) =>
          Due(h[c], claimed, spent["escrow_hold"]) /\ h'[c].req = h[c].req
    BY <2>1, <2>3 DEF Due, Passing, Past
  <2>5. Due(h'[c], claimed', spent'["escrow_hold"]) => h'[c].req \in Out
    BY <2>4 DEF Out, InHand, Carrying
  <2>6. Parked(pend', claimed') \subseteq Out /\ claimed \subseteq claimed'
    BY <2>1 DEF Parked, Out
  <2>7. QED BY <1>0, <2>1, <2>3, <2>5, <2>6, DayMove
<1>3. CASE CheckCap(c) \/ Pay(c)
  <2>1. UNCHANGED <<claimed, soft, spent, crashes, pend>> /\ h[c].pc \in {"cap", "pay"}
    BY <1>3 DEF CheckCap, Pay, money
  <2>2. Leave(c) \/ \E pc \in {"pay", "book"} : Go(c, pc)
    BY <1>3 DEF CheckCap, Pay
  <2>3. /\ \A d \in Caller \ {c} : h'[d] = h[d]
        /\ h'[c].pc = "idle" \/ (h'[c].req = h[c].req /\ h'[c].pc \in {"pay", "book"})
    BY <2>2, GoHands, LeaveHands
  <2>4. Due(h'[c], claimed', spent'["escrow_hold"]) =>
          Due(h[c], claimed, spent["escrow_hold"]) /\ h'[c].req = h[c].req
    BY <2>1, <2>3 DEF Due, Passing, Past
  <2>5. Due(h'[c], claimed', spent'["escrow_hold"]) => h'[c].req \in Out
    BY <2>4 DEF Out, InHand, Carrying
  <2>6. QED BY <1>0, <2>1, <2>3, <2>5, DayMove
<1>4. CASE PlaceLock(c) \/ ClearRules(c)
  <2>1. UNCHANGED <<claimed, soft, spent, crashes, pend>> /\ h[c].pc # "done"
    BY <1>4 DEF PlaceLock, ClearRules, money
  <2>2. \E pc \in {"done", "freeze"} : Go(c, pc)
    BY <1>4 DEF PlaceLock, ClearRules
  <2>3. (\A d \in Caller \ {c} : h'[d] = h[d]) /\ h'[c].pc \in {"done", "freeze"}
    BY <2>2, GoHands
  <2>4. ~Due(h'[c], claimed', spent'["escrow_hold"])
    BY <2>3 DEF Due, Passing, Past
  <2>5. QED BY <1>0, <2>1, <2>3, <2>4, DayMove
<1>5. CASE FreezeRule(c)
  <2>1. UNCHANGED <<claimed, soft, spent, crashes, pend>> /\ h[c].pc # "done"
    BY <1>5 DEF FreezeRule, money
  <2>2. (\A d \in Caller \ {c} : h'[d] = h[d]) /\ h'[c].pc \in {"done", "freeze", "idle"}
    BY <1>5, FreezeRuleHands
  <2>3. ~Due(h'[c], claimed', spent'["escrow_hold"])
    BY <2>2 DEF Due, Passing, Past
  <2>4. QED BY <1>0, <2>1, <2>2, <2>3, DayMove
<1>6. QED BY <1>1, <1>2, <1>3, <1>4, <1>5, DayBook, DayDone DEF Step

\* Every step keeps it.
LEMMA DayStep == TypeInv /\ KeyInv /\ DayInv /\ [Next]_vars /\ TypeInv' => DayInv'
<1> SUFFICES ASSUME TypeInv, KeyInv, DayInv, [Next]_vars, TypeInv' PROVE DayInv'
  OBVIOUS
<1>1. ASSUME NEW c \in Caller, Command(c) PROVE DayInv'
  BY <1>1, DayCommand
<1>2. ASSUME NEW c \in Caller, Step(c) PROVE DayInv'
  BY <1>2, DayGate, DayExecute
<1>3. ASSUME NEW c \in Caller, Crash(c) PROVE DayInv'
  BY <1>3, DayCrash
<1>4. ASSUME \/ Deposit \/ Mature \/ RiskPasses \/ UNCHANGED vars
             \/ \E f \in Foreign : ForeignHead(f) \/ ForeignRecord(f)
      PROVE DayInv'
  <2>1. UNCHANGED <<h, claimed, pend, soft, spent, crashes>>
    BY <1>4 DEF Deposit, Mature, RiskPasses, ForeignHead, ForeignRecord, vars, money
  <2>2. Out' = Out /\ Free' = Free
    BY <2>1 DEF Out, InHand, Carrying, Free, Ending
  <2>3. QED BY <2>1, <2>2 DEF DayInv
<1>5. CASE NewDay
  BY <1>5, DayMidnight
<1>6. QED BY <1>1, <1>2, <1>3, <1>4, <1>5 DEF Next

\* A day's sends within the soft limit pass the daily limit by at most one of
\* them for every other request that can run beside, and for every crash.
THEOREM DailyCapAlmostHolds == Spec => []DailyCapOvershoot
<1>1. Init => KeyInv /\ DayInv
  <2> SUFFICES ASSUME Init PROVE KeyInv /\ DayInv
    OBVIOUS
  <2>1. KeyInv
    BY DEF Init, KeyInv, Idle, Past, Deciding
  <2>2. Out = {} /\ soft = 0 /\ crashes = 0 /\ spent["send"] = 0 /\ spent["escrow_hold"] = 0
    BY DEF Init, Out, InHand, Carrying, Parked, Due, Soft, Idle, NoReq, Kind
  <2>3. TypeInv
    BY TypeInit
  <2>4. CapOK(Out, Free, 0, 0)
    BY <2>2, <2>3, OutSends, DayTyped, CapMidnight
  <2>5. QED BY <2>1, <2>2, <2>4 DEF DayInv
<1>2. TypeInv /\ DayInv => DailyCapOvershoot
  <2> SUFFICES ASSUME TypeInv, DayInv PROVE DailyCapOvershoot
    OBVIOUS
  <2> DEFINE n == Cardinality(Caller)
             p == Lim.perTx
  <2>1. Lim.daily + p * (n + crashes - 1) - soft >= 0
    BY DEF DayInv, CapOK, Room
  <2>2. n \in Nat /\ p \in Nat /\ crashes \in Nat /\ soft \in Nat /\ Lim.daily \in Nat
    BY LimTyped, DayTyped
  <2>3. p * (n + crashes - 1) = (n - 1 + crashes) * p
    BY <2>2
  <2> DEFINE A == p * (n + crashes - 1)
  <2>4. A \in Int /\ Lim.daily + A - soft >= 0
    BY <2>1, <2>2
  <2>5. soft <= Lim.daily + A
    <3> HIDE DEF A
    <3>1. QED BY <2>2, <2>4
  <2>6. QED BY <2>3, <2>5 DEF DailyCapOvershoot, Others
<1>3. QED BY <1>1, <1>2, KeyStep, DayStep, TypeStep, TypeInit, SpendingTyped, PTL DEF Spec
=============================================================================
