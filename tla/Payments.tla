------------------------------- MODULE Payments ------------------------------
(***************************************************************************)
(* One account's sends and swaps in pipeline.ts: a request is parked in    *)
(* the account's session, a CONFIRM takes it out, claims its idempotency   *)
(* key, moves the money, writes the ledger, clears the session and stores  *)
(* the reply.  Several handleMessage calls run at once (voice, chat,       *)
(* webhook, worker): each await is a point where the others may run, so    *)
(* each database or chain call is a step of its own.                       *)
(*                                                                         *)
(* Left out, and so free in this model: amounts, the policy verdict and    *)
(* the payee lookup (a refused request changes nothing here), the PIN      *)
(* counters behind the verdict of a confirm (any verdict may come), the    *)
(* wording of replies, SMS receipts, and the pending kinds that move no    *)
(* money.                                                                  *)
(***************************************************************************)
EXTENDS Naturals

CONSTANTS
  Handler,          \* handleMessage calls that can be running at once
  Key,              \* idempotency keys; randomUUID makes each parked request's fresh
  None              \* no parked request / no key in hand

ASSUME NoneAssumption == None \notin Key

\* How the money moves: to a bare address, to a known phone, to an unknown
\* phone through escrow, or through the swap adapter.
Route == {"address", "phone", "escrow", "swap"}

VARIABLES
  demo, async,      \* DEMO_SIMPLE and ASYNC_SETTLE, read from the environment
  pending,          \* sessions.pending_json of the account: a parked key or None
  order,            \* the parked request under each key: its route, or "unused"
  idem,             \* the idempotency table
  landed,           \* transfers of the key that reached the chain
  orphan,           \* transfers submitted that no handler waits for any more
  rows,             \* booked rows of the key: claim, payer's ledger row, payee's
  pc, work,         \* where each handler is, and the key it works on
  reply             \* the last answer each caller got

vars == <<demo, async, pending, order, idem, landed, orphan, rows, pc, work, reply>>

chain == <<landed, orphan>>
env   == <<demo, async>>

NoRows == [claim |-> 0, out |-> 0, in |-> 0]

\* The steps of executeSend/executeSwap between winning the key and answering.
Booking == {"claimRow", "out", "in", "clear", "save"}
Running == {"submit", "await"} \cup Booking

Init ==
  /\ demo \in BOOLEAN /\ async \in BOOLEAN
  /\ pending = None
  /\ order  = [k \in Key |-> "unused"]
  /\ idem   = [k \in Key |-> "absent"]
  /\ landed = [k \in Key |-> 0]
  /\ orphan = [k \in Key |-> 0]
  /\ rows   = [k \in Key |-> NoRows]
  /\ pc     = [h \in Handler |-> "idle"]
  /\ work   = [h \in Handler |-> None]
  /\ reply  = [h \in Handler |-> <<"none", None>>]

Goto(h, label) == pc' = [pc EXCEPT ![h] = label]
Tell(h, what)  == reply' = [reply EXCEPT ![h] = <<what, work[h]>>]

\* A new call starts with key k in hand; its caller has no answer yet.
Take(h, k, label) ==
  /\ Goto(h, label)
  /\ work' = [work EXCEPT ![h] = k]
  /\ reply' = [reply EXCEPT ![h] = <<"none", None>>]

\* The handler returns: it drops its key and its caller hears `what`.
Return(h, what) ==
  /\ Goto(h, "idle")
  /\ work' = [work EXCEPT ![h] = None]
  /\ Tell(h, what)

\* A background run() answered its caller before it started: how it ends is only logged.
Finish(h, what) ==
  IF async
  THEN Goto(h, "idle") /\ work' = [work EXCEPT ![h] = None] /\ UNCHANGED reply
  ELSE Return(h, what)

-----------------------------------------------------------------------------
(* The session: parking, cancelling, memo *)

\* SEND / SWAP that the policy lets through: park under a fresh key (over
\* whatever was parked before), or execute at once in demo mode.
Request(h) ==
  /\ pc[h] = "idle"
  /\ \E k \in Key, r \in Route :
       /\ order[k] = "unused"
       /\ order' = [order EXCEPT ![k] = r]
       /\ IF demo
          THEN Take(h, k, "claim") /\ UNCHANGED pending
          ELSE /\ pending' = k
               /\ reply' = [reply EXCEPT ![h] = <<"needsPin", k>>]
               /\ UNCHANGED <<pc, work>>
  /\ UNCHANGED <<idem, rows, chain, env>>

\* CANCEL clears the session whatever is parked; a claimed key runs on.
Cancel(h) ==
  /\ pc[h] = "idle"
  /\ pending' = None
  /\ reply' = [reply EXCEPT ![h] = <<"cancelled", None>>]
  /\ UNCHANGED <<order, idem, rows, pc, work, chain, env>>

\* attachSendMemo reads the parked send ...
MemoRead(h) ==
  /\ pc[h] = "idle"
  /\ pending # None
  /\ order[pending] # "swap"
  /\ Take(h, pending, "memo")
  /\ UNCHANGED <<pending, order, idem, rows, chain, env>>

\* ... and parks its copy again, over anything that happened in between: a
\* request cancelled or paid meanwhile is back in the session.
MemoWrite(h) ==
  /\ pc[h] = "memo"
  /\ pending' = work[h]
  /\ Return(h, "memo")
  /\ UNCHANGED <<order, idem, rows, chain, env>>

-----------------------------------------------------------------------------
(* CONFIRM up to the claim *)

ReadPending(h) ==
  /\ pc[h] = "idle"
  /\ IF pending = None
     THEN reply' = [reply EXCEPT ![h] = <<"nothing", None>>] /\ UNCHANGED <<pc, work>>
     ELSE Take(h, pending, "pin")
  /\ UNCHANGED <<pending, order, idem, rows, chain, env>>

\* Not onboarded, PIN locked, no PIN, or a wrong one with tries left.
PinRefused(h) ==
  /\ pc[h] = "pin"
  /\ Return(h, "refused")
  /\ UNCHANGED <<pending, order, idem, rows, chain, env>>

\* The wrong PIN that locks the account: the session is cleared next.
PinLocksOut(h) ==
  /\ pc[h] = "pin"
  /\ Goto(h, "lockout")
  /\ UNCHANGED <<pending, order, idem, rows, work, reply, chain, env>>

LockOut(h) ==
  /\ pc[h] = "lockout"
  /\ pending' = None
  /\ Return(h, "refused")
  /\ UNCHANGED <<order, idem, rows, chain, env>>

PinAccepted(h) ==
  /\ pc[h] = "pin"
  /\ Goto(h, "claim")
  /\ UNCHANGED <<pending, order, idem, rows, work, reply, chain, env>>

\* Fault: any existing row counts as a stored result (no isIdemPending test).
ClaimReplaysPending(h) ==
  /\ pc[h] = "claim"
  /\ IF idem[work[h]] = "absent"
     THEN /\ idem' = [idem EXCEPT ![work[h]] = "pending"]
          /\ Goto(h, "submit") /\ UNCHANGED <<work, reply>>
     ELSE Return(h, "sent") /\ UNCHANGED idem
  /\ UNCHANGED <<pending, order, rows, chain, env>>

\* Fault: a key still pending is taken for a crashed run and run again.
ClaimTakesOver(h) ==
  /\ pc[h] = "claim"
  /\ IF idem[work[h]] # "done"
     THEN /\ idem' = [idem EXCEPT ![work[h]] = "pending"]
          /\ Goto(h, "submit") /\ UNCHANGED <<work, reply>>
     ELSE Return(h, "sent") /\ UNCHANGED idem
  /\ UNCHANGED <<pending, order, rows, chain, env>>

\* claimIdempotency: the insert wins the key, or the row that is there decides.
\* (The insert and the read after a lost insert are two statements; the row only
\* moves from pending to done in between, so reading at the insert loses nothing.)
Claim(h) ==
  /\ pc[h] = "claim"
  /\ \/ /\ idem[work[h]] = "absent"
        /\ idem' = [idem EXCEPT ![work[h]] = "pending"]
        /\ Goto(h, "submit")
        /\ IF async THEN Tell(h, "started") ELSE UNCHANGED reply
        /\ UNCHANGED work
     \/ /\ idem[work[h]] = "pending"
        /\ Return(h, "inflight")
        /\ UNCHANGED idem
     \/ /\ idem[work[h]] = "done"
        /\ Return(h, "sent")
        /\ UNCHANGED idem
  /\ UNCHANGED <<pending, order, rows, chain, env>>

-----------------------------------------------------------------------------
(* run(): the transfer and its bookkeeping *)

\* Fault: a failed run leaves a status the claim does not know.
SubmitFailsMarked(h) ==
  /\ pc[h] = "submit"
  /\ idem' = [idem EXCEPT ![work[h]] = "failed"]
  /\ Finish(h, "failed")
  /\ UNCHANGED <<pending, order, rows, chain, env>>

\* Thrown before anything reaches the chain: claim cap, no funds, no address.
SubmitFails(h) ==
  /\ pc[h] = "submit"
  /\ Finish(h, "failed")
  /\ UNCHANGED <<pending, order, idem, rows, chain, env>>

\* Fault: the ledger row is written before the transfer is known to land.
SubmitBooksFirst(h) ==
  /\ pc[h] = "submit"
  /\ rows' = [rows EXCEPT ![work[h]].out = @ + 1]
  /\ Goto(h, "await")
  /\ UNCHANGED <<pending, order, idem, work, reply, chain, env>>

Submit(h) ==
  /\ pc[h] = "submit"
  /\ Goto(h, "await")
  /\ UNCHANGED <<pending, order, idem, rows, work, reply, chain, env>>

\* The receipt (or a COMPLETE state) arrives in time.
Landed(h) ==
  /\ pc[h] = "await"
  /\ landed' = [landed EXCEPT ![work[h]] = @ + 1]
  /\ Goto(h, IF order[work[h]] = "escrow" THEN "claimRow" ELSE "out")
  /\ UNCHANGED <<pending, order, idem, orphan, rows, work, reply, env>>

Reverted(h) ==
  /\ pc[h] = "await"
  /\ Finish(h, "failed")
  /\ UNCHANGED <<pending, order, idem, rows, chain, env>>

\* Fault: a timeout gives the key back so that the caller can retry.
TimedOutReleases(h) ==
  /\ pc[h] = "await"
  /\ orphan' = [orphan EXCEPT ![work[h]] = @ + 1]
  /\ idem' = [idem EXCEPT ![work[h]] = "absent"]
  /\ Finish(h, "failed")
  /\ UNCHANGED <<pending, order, landed, rows, env>>

\* Receipt timeout or polls exhausted: it throws while the transfer lives on.
TimedOut(h) ==
  /\ pc[h] = "await"
  /\ orphan' = [orphan EXCEPT ![work[h]] = @ + 1]
  /\ Finish(h, "failed")
  /\ UNCHANGED <<pending, order, idem, landed, rows, env>>

\* A transfer nobody waits for lands after all, or never does.
Late(k) ==
  /\ orphan[k] > 0
  /\ orphan' = [orphan EXCEPT ![k] = @ - 1]
  /\ landed' \in {landed, [landed EXCEPT ![k] = @ + 1]}
  /\ UNCHANGED <<pending, order, idem, rows, pc, work, reply, env>>

\* createPendingClaim of the escrow route.
BookClaim(h) ==
  /\ pc[h] = "claimRow"
  /\ rows' = [rows EXCEPT ![work[h]].claim = @ + 1]
  /\ Goto(h, "out")
  /\ UNCHANGED <<pending, order, idem, work, reply, chain, env>>

\* Fault: the payee's row is forgotten.
BookOutOnly(h) ==
  /\ pc[h] = "out"
  /\ rows' = [rows EXCEPT ![work[h]].out = @ + 1]
  /\ Goto(h, "clear")
  /\ UNCHANGED <<pending, order, idem, work, reply, chain, env>>

\* The payer's ledger row: send, escrow_hold or swap.
BookOut(h) ==
  /\ pc[h] = "out"
  /\ rows' = [rows EXCEPT ![work[h]].out = @ + 1]
  /\ Goto(h, IF order[work[h]] = "phone" THEN "in" ELSE "clear")
  /\ UNCHANGED <<pending, order, idem, work, reply, chain, env>>

\* The payee's ledger row, when the payee is a phone.
BookIn(h) ==
  /\ pc[h] = "in"
  /\ rows' = [rows EXCEPT ![work[h]].in = @ + 1]
  /\ Goto(h, "clear")
  /\ UNCHANGED <<pending, order, idem, work, reply, chain, env>>

\* setPending(null): whatever is parked by now is gone.
ClearPending(h) ==
  /\ pc[h] = "clear"
  /\ pending' = None
  /\ Goto(h, "save")
  /\ UNCHANGED <<order, idem, rows, work, reply, chain, env>>

SaveResult(h) ==
  /\ pc[h] = "save"
  /\ idem' = [idem EXCEPT ![work[h]] = "done"]
  /\ Finish(h, "sent")
  /\ UNCHANGED <<pending, order, rows, chain, env>>

\* A database write after the transfer throws: run()'s caller says it failed.
BookingFails(h) ==
  /\ pc[h] \in Booking
  /\ Finish(h, "failed")
  /\ UNCHANGED <<pending, order, idem, rows, chain, env>>

\* The process dies and comes back: callers get no answer, the database and
\* the chain keep what they have, and nothing resumes a claimed key.
Restart ==
  /\ \E h \in Handler : pc[h] # "idle"
  /\ orphan' = [k \in Key |->
       IF \E h \in Handler : pc[h] = "await" /\ work[h] = k THEN orphan[k] + 1 ELSE orphan[k]]
  /\ pc'    = [h \in Handler |-> "idle"]
  /\ work'  = [h \in Handler |-> None]
  /\ reply' = [h \in Handler |-> <<"none", None>>]
  /\ UNCHANGED <<pending, order, idem, landed, rows, env>>

-----------------------------------------------------------------------------

Session(h) == Request(h) \/ Cancel(h) \/ MemoRead(h) \/ MemoWrite(h)

Confirm(h) ==
  \/ ReadPending(h) \/ PinRefused(h) \/ PinLocksOut(h) \/ LockOut(h)
  \/ PinAccepted(h) \/ Claim(h)

Run(h) ==
  \/ SubmitFails(h) \/ Submit(h) \/ Landed(h) \/ Reverted(h) \/ TimedOut(h)
  \/ BookClaim(h) \/ BookOut(h) \/ BookIn(h) \/ ClearPending(h)
  \/ SaveResult(h) \/ BookingFails(h)

Next ==
  \/ \E h \in Handler : Session(h) \/ Confirm(h) \/ Run(h)
  \/ \E k \in Key : Late(k)
  \/ Restart

Spec == Init /\ [][Next]_vars

-----------------------------------------------------------------------------
(* The inductive invariant *)

\* An unclaimed key has no trace outside the session.
Untouched(k) == landed[k] = 0 /\ orphan[k] = 0 /\ rows[k] = NoRows

ForRoute(k, r) == IF order[k] = r THEN 1 ELSE 0

\* What the books of key k hold when its run stands at a label.
BooksAt(k, label) ==
  /\ label \in {"submit", "await"} => Untouched(k)
  /\ label \in Booking => landed[k] = 1 /\ orphan[k] = 0
  /\ label = "claimRow" => rows[k] = NoRows /\ order[k] = "escrow"
  /\ label = "out" =>
       rows[k].claim = ForRoute(k, "escrow") /\ rows[k].out = 0 /\ rows[k].in = 0
  /\ label = "in" =>
       rows[k].claim = 0 /\ rows[k].out = 1 /\ rows[k].in = 0 /\ order[k] = "phone"
  /\ label \in {"clear", "save"} =>
       /\ rows[k].claim = ForRoute(k, "escrow") /\ rows[k].out = 1
       /\ rows[k].in = ForRoute(k, "phone")

HandlersHold ==
  \A h \in Handler : pc[h] # "idle" => work[h] \in Key

RunnersOwn ==
  \A h \in Handler : pc[h] \in Running =>
    /\ idem[work[h]] = "pending"
    /\ BooksAt(work[h], pc[h])
    /\ \A g \in Handler : pc[g] \in Running /\ work[g] = work[h] => g = h

KeysConsistent ==
  \A k \in Key :
    /\ idem[k] = "absent" => Untouched(k)
    /\ idem[k] = "done" => orphan[k] = 0

-----------------------------------------------------------------------------
(* Properties *)

ReplyKinds ==
  {"none", "needsPin", "cancelled", "memo", "nothing", "refused", "started",
   "inflight", "sent", "failed"}

TypeOK ==
  /\ demo \in BOOLEAN /\ async \in BOOLEAN
  /\ pending \in Key \cup {None}
  /\ order \in [Key -> Route \cup {"unused"}]
  /\ idem \in [Key -> {"absent", "pending", "done"}]
  /\ landed \in [Key -> Nat] /\ orphan \in [Key -> Nat]
  /\ rows \in [Key -> [claim : Nat, out : Nat, in : Nat]]
  /\ pc \in [Handler -> {"idle", "memo", "pin", "lockout", "claim"} \cup Running]
  /\ work \in [Handler -> Key \cup {None}]
  /\ reply \in [Handler -> ReplyKinds \X (Key \cup {None})]

\* No key moves money twice, whatever is confirmed twice, times out, fails or
\* restarts: transfers that landed or still may land number at most one.
AtMostOnce == \A k \in Key : landed[k] + orphan[k] <= 1

\* The ledger never runs ahead of the chain and never books a payment twice: any
\* row of a key is backed by its landed transfer, the payee's row by the payer's.
LedgerBacked == \A k \in Key :
  /\ rows[k].claim <= landed[k]
  /\ rows[k].out <= landed[k]
  /\ rows[k].in <= rows[k].out

\* A stored result stands for a finished payment: landed once, with every row
\* its route asks for (both sides of a send to a phone, hold and claim of escrow).
ResultComplete == \A k \in Key : idem[k] = "done" =>
  /\ landed[k] = 1 /\ rows[k].out = 1
  /\ order[k] = "phone" => rows[k].in = 1
  /\ order[k] = "escrow" => rows[k].claim = 1

\* "Sent" (first answer or replay) is only ever said of a payment that completed.
SentIsTrue == \A h \in Handler :
  reply[h][1] = "sent" => reply[h][2] \in Key /\ idem[reply[h][2]] = "done"

IInv ==
  /\ TypeOK /\ HandlersHold /\ RunnersOwn /\ KeysConsistent
  /\ AtMostOnce /\ LedgerBacked /\ ResultComplete /\ SentIsTrue

\* executeSend and executeSwap implement the single-payment promise.
Promise == INSTANCE SinglePayment WITH
  phase <- [k \in Key |-> IF idem[k] = "absent" THEN "open"
                          ELSE IF idem[k] = "pending" THEN "claimed" ELSE "answered"],
  paid  <- landed

PaysOncePerKey == Promise!SSpec

\* "Already in progress" is only said of a key whose transfer is under way: a
\* handler is running it or a submitted transfer may still land.
UnderWay(k) == orphan[k] > 0 \/ \E h \in Handler : work[h] = k /\ pc[h] \in Running

InflightIsTrue ==
  [][\A h \in Handler : (pc[h] = "claim" /\ idem[work[h]] = "pending" /\ reply'[h][1] = "inflight")
       => UnderWay(work[h])]_vars
=============================================================================
