------------------------------ MODULE Spending -------------------------------
(***************************************************************************)
(* How one account spends: the requests that are run through the gate of   *)
(* Policy, parked in the session and paid when they are confirmed, the     *)
(* frozen rules, the savings locks, and the audit chain every decision is  *)
(* written to.  Each of the callers runs one request at a time; the        *)
(* database is the one of a deployment (Postgres), so requests interleave  *)
(* between any two statements.  Where one step stands for two reads, its   *)
(* comment says so.                                                        *)
(*                                                                         *)
(* Left out: PINs and the user row (Accounts), the transfer and its        *)
(* idempotency row in detail (Payments, Escrow), demo mode (DEMO_SIMPLE    *)
(* executes a request instead of parking it).                              *)
(***************************************************************************)
EXTENDS Policy, FiniteSets, SequencesExt

CONSTANTS
    Caller,       \* requests of the account that can run at the same time
    AtTier,       \* identity tier of the account (Accounts changes it)
    Menus,        \* what a behaviour uses: commands and events, amounts, payees, funds, requests
    Payee,        \* payees a send resolves to
    Draft,        \* rule lists a spoken policy compiles to
    ClaimCap,     \* PENDING_CLAIM_DAILY_CAP
    MaxPrice,     \* what a paid lookup is booked with (X402_MAX_PRICE)
    Foreign,      \* requests of other accounts that write to the same audit chain
    \* bounds of the model: deposits, locks at a time, audit entries, crashes
    MaxFunds, MaxLocks, MaxAudit, MaxCrash

\* No rule list is empty: a policy that compiles to none is not parked.
ASSUME SpendingAssumption ==
    /\ IsFiniteSet(Caller) /\ Caller # {}
    /\ IsFiniteSet(Foreign)
    /\ AtTier \in Int /\ ClaimCap \in Nat /\ MaxPrice \in Nat /\ MaxCrash \in Nat
    /\ \A m \in Menus : /\ m.amounts \subseteq Nat /\ m.payees \subseteq Payee
                        /\ m.funds \in Nat /\ m.requests \in Nat /\ m.gas \in Nat
    /\ \A d \in Draft : d # <<>> /\ d \in Seq(ToSet(d))

VARIABLES
    menu,      \* what this behaviour uses (one of Menus)
    h,         \* the request each caller is in the middle of
    pend,      \* sessions.pending_json of the account
    started,   \* how many requests have been made
    claimed,   \* keys claimed in the idempotency table
    spent,     \* today's ledger sums by kind
    paid,      \* counterparties with a send or an escrow hold in the ledger
    claims,    \* pending claims opened today
    balance,   \* USDC in the wallet
    locks,     \* amounts of the active savings locks
    rules,     \* active rows of user_policy_rules
    ids,       \* rule_id of every row of user_policy_rules, revoked ones included
    cooldown,  \* risk_cooldown_until is in the future
    callback,  \* callback_verified_until is in the future
    audit,     \* policy_audit: who each entry follows and what it decided
    abroad,    \* the entry each of the other accounts' requests is about to follow
    crashes,   \* requests cut off so far
    \* history, read by the properties only
    soft,      \* part of spent that was within the soft limit per transfer
    gated,     \* part of spent that lookups under the daily cap were booked with
    frozen,    \* the policy that was last confirmed, and not cleared since
    cut,       \* rules of it that a crash kept from being written
    refused,   \* policies an insertion of which failed on a rule_id that exists
    chilled,   \* requests above the limit of the cool-down made while it lasted
    burnt,     \* gas the account has paid since it has locks
    stale,     \* requests that another payment or lock has overtaken since their check
    loose      \* what these have paid or locked since the account has locks

money   == <<claimed, spent, paid, claims, balance, soft, gated>>
savings == <<locks, burnt, stale, loose>>
leash   == <<rules, ids, frozen, cut, refused>>
risk    == <<cooldown, callback, chilled>>
trail   == <<audit, abroad>>
vars == <<menu, h, pend, started, money, savings, leash, risk, trail, crashes>>

Lim  == LimitsForTier(AtTier)
Kind == {"send", "escrow_hold", "swap", "airtime", "nanopay"}
Sum(s) == SumFunction(s)

Spends  == {"send", "swap", "topup"}
Lookups == {"price", "rate"}
NoReq   == [kind |-> "none", id |-> 0, amt |-> 0, to |-> None, draft |-> <<>>]
Request == [kind : Spends \cup Lookups \cup {"none", "lock", "policy"}, id : Nat, amt : Nat,
            to : Payee \cup {None}, draft : Draft \cup {<<>>}]

Idle == [pc |-> "idle", req |-> NoReq, cool |-> FALSE, called |-> FALSE,
         verdict |-> "none", bal |-> 0, sum |-> 0, unread |-> <<>>,
         head |-> 0, left |-> <<>>]
Steps == {"idle", "rules", "locks", "balance", "locked", "sums", "head", "insert",
          "park", "fetch", "claim", "cap", "pay", "book", "clear", "freeze", "place", "done"}

NoHead == -1  \* a writer of another account that has read no entry

Init ==
    /\ menu \in Menus
    /\ h = [c \in Caller |-> Idle]
    /\ pend = NoReq
    /\ started = 0 /\ claimed = {} /\ claims = 0
    /\ spent = [k \in Kind |-> 0] /\ paid = {}
    /\ balance = menu.funds /\ locks = <<>>
    /\ rules = {} /\ ids = {} /\ cooldown = FALSE /\ callback = FALSE
    /\ audit = <<>> /\ abroad = [f \in Foreign |-> NoHead] /\ crashes = 0
    /\ soft = 0 /\ gated = 0 /\ frozen = NoReq /\ cut = {} /\ refused = {}
    /\ chilled = {} /\ burnt = 0 /\ stale = {} /\ loose = 0

-----------------------------------------------------------------------------
(* Starting a request. *)

Begin(c, command) ==
    /\ command \in menu.does
    /\ h[c].pc = "idle"

\* The balance a caller has read is of no use once it goes on, nor is the sum
\* once it has decided.
Go(c, pc) == h' = [h EXCEPT ![c].pc = pc, ![c].bal = 0]
Leave(c)  == h' = [h EXCEPT ![c] = Idle]
\* Mutant: a request that may go on is parked without an entry.
DecidedUnwritten(c, v) ==
    h' = [h EXCEPT ![c].verdict = v, ![c].bal = 0, ![c].sum = 0,
                   ![c].pc = IF v = "confirm" THEN "park" ELSE "head"]

Decided(c, v) ==
    h' = [h EXCEPT ![c].verdict = v, ![c].bal = 0, ![c].sum = 0, ![c].pc = "head"]

\* Bound: a request that will be written to the audit leaves room for it.
MayAudit == Len(audit) + Cardinality({c \in Caller : h[c].pc # "idle"})
                       + Cardinality({f \in Foreign : abroad[f] # NoHead}) < MaxAudit

\* "send", "swap", "topup": the payee is resolved, the user row is read and
\* its part of the gate is passed or not.  The number stands for the fresh UUID
\* the parked request gets.
Ask(c) == \E kind \in Spends, amt \in menu.amounts, to \in menu.payees \cup {None} :
    /\ Begin(c, kind)
    /\ (kind = "send") <=> (to # None)
    /\ started < menu.requests /\ MayAudit
    /\ started' = started + 1
    /\ LET v == FirstVerdict(kind, amt, Lim, cooldown)
           req == [NoReq EXCEPT !.kind = kind, !.id = started', !.amt = amt, !.to = to]
       IN  h' = [h EXCEPT ![c] =
               [Idle EXCEPT !.req = req, !.cool = cooldown, !.called = callback,
                            !.verdict = IF v = "next" THEN "none" ELSE v,
                            !.unread = Counted(kind),
                            !.pc = IF v # "next" THEN "head"
                                   ELSE IF kind = "send" THEN "rules" ELSE "locks"]]
    /\ chilled' = IF cooldown /\ amt > CooldownMax THEN chilled \cup {started'} ELSE chilled
    /\ UNCHANGED <<menu, pend, money, savings, leash, cooldown, callback, trail, crashes>>

\* "price" goes straight to the sum of the paid lookups.
AskPrice(c) ==
    /\ Begin(c, "price")
    /\ started < menu.requests /\ MayAudit
    /\ started' = started + 1
    /\ h' = [h EXCEPT ![c] = [Idle EXCEPT !.pc = "sums", !.unread = Counted("price"),
                !.req = [NoReq EXCEPT !.kind = "price", !.id = started', !.amt = PriceChecked]]]
    /\ UNCHANGED <<menu, pend, money, savings, leash, risk, trail, crashes>>

\* "rate", and the dialled rate line: the same paid lookup, with no gate before
\* it and no entry in the audit.  (The fraud lookup of a JOIN books its price in
\* the same way.)
AskRate(c) ==
    /\ Begin(c, "rate")
    /\ started < menu.requests
    /\ started' = started + 1
    /\ h' = [h EXCEPT ![c] = [Idle EXCEPT !.pc = "fetch",
                !.req = [NoReq EXCEPT !.kind = "rate", !.id = started']]]
    /\ UNCHANGED <<menu, pend, money, savings, leash, risk, trail, crashes>>

\* "policy ...": what was said compiles to a list of rules, which is parked.
\* Each rule gets its rule_id here, a fresh UUID: the number of the request,
\* with the rule's place in the list.
SetPolicy(c) == \E draft \in Draft :
    /\ Begin(c, "set_policy")
    /\ started < menu.requests
    /\ started' = started + 1
    /\ pend' = [NoReq EXCEPT !.kind = "policy", !.id = started', !.draft = draft]
    /\ UNCHANGED <<menu, h, money, savings, leash, risk, trail, crashes>>

ClearPolicy(c) ==
    /\ Begin(c, "clear_policy")
    /\ rules' = {} /\ frozen' = NoReq
    /\ UNCHANGED <<menu, h, pend, started, money, savings, ids, cut, refused, risk, trail, crashes>>

\* "lock 5 until ...": refused when less is available, parked otherwise.
AskLock(c) == \E amt \in menu.amounts :
    /\ Begin(c, "lock")
    /\ started < menu.requests
    /\ started' = started + 1
    /\ h' = [h EXCEPT ![c] = [Idle EXCEPT !.pc = "balance",
                !.req = [NoReq EXCEPT !.kind = "lock", !.id = started', !.amt = amt]]]
    /\ UNCHANGED <<menu, pend, money, savings, leash, risk, trail, crashes>>

ReportSim(c) ==
    /\ Begin(c, "report_sim")
    /\ cooldown' = TRUE
    /\ UNCHANGED <<menu, h, pend, started, money, savings, leash, callback, chilled, trail, crashes>>

Callback(c) ==
    /\ Begin(c, "callback")
    /\ callback' = TRUE
    /\ UNCHANGED <<menu, h, pend, started, money, savings, leash, cooldown, chilled, trail, crashes>>

Cancel(c) ==
    /\ Begin(c, "cancel")
    /\ pend' = NoReq
    /\ UNCHANGED <<menu, h, started, money, savings, leash, risk, trail, crashes>>

\* CONFIRM with the right PIN: works on the session row as it is read here.
Confirm(c) ==
    /\ Begin(c, "confirm")
    /\ pend # NoReq
    /\ pend.kind = "policy" => MayAudit
    /\ pend.kind = "lock" => Len(locks) < MaxLocks
    /\ h' = [h EXCEPT ![c] = [Idle EXCEPT !.req = pend, !.left = pend.draft,
                !.pc = CASE pend.kind = "policy" -> "clear"
                         [] pend.kind = "lock"   -> "place"
                         [] OTHER                -> "claim"]]
    /\ UNCHANGED <<menu, pend, started, money, savings, leash, risk, trail, crashes>>

-----------------------------------------------------------------------------
(* The gate, one database read after the other. *)

\* The rules and, for a rule on new payees, whether the payee has been paid.
\* (Two reads: a payment in between can only make the payee an old one.)
CheckRules(c) ==
    /\ h[c].pc = "rules"
    /\ LET r == h[c].req
           v == RiskVerdict(r.amt, Lim, RulesRefuse(rules, r.amt, r.to, paid),
                            h[c].cool, h[c].called)
       IN  IF v = "next" THEN Go(c, "locks") ELSE Decided(c, v)
    /\ UNCHANGED <<menu, pend, started, money, savings, leash, risk, trail, crashes>>

\* What the gate makes of the locks, with `available` to spend.
Weigh(c, available) ==
    LET r == h[c].req
        v == LockVerdict(r.kind, r.amt, Lim, available)
    IN  IF v = "next" THEN Go(c, "sums") ELSE Decided(c, v)

\* availableUsdc(phone, 0): is anything locked at all?  If nothing is, the
\* balance is not looked at.
CheckLocks(c) ==
    /\ h[c].pc = "locks"
    /\ IF Sum(locks) > 0 THEN Go(c, "balance") ELSE Weigh(c, h[c].req.amt)
    /\ UNCHANGED <<menu, pend, started, money, savings, leash, risk, trail, crashes>>

\* getUsdcBalance, for a spend and for a lock,
ReadBalance(c) ==
    /\ h[c].pc = "balance"
    /\ h' = [h EXCEPT ![c].bal = balance, ![c].pc = "locked"]
    /\ UNCHANGED <<menu, pend, started, money, savings, leash, risk, trail, crashes>>

\* and availableUsdc(phone, bal) after it.
CompareLocked(c) ==
    /\ h[c].pc = "locked"
    /\ LET available == Available(h[c].bal, Sum(locks))
       IN  IF h[c].req.kind # "lock" THEN Weigh(c, available)
           ELSE IF h[c].req.amt > available THEN Leave(c)
           ELSE Go(c, "park")
    /\ UNCHANGED <<menu, pend, started, money, savings, leash, risk, trail, crashes>>

\* sumLedgerToday of one kind after the other; the verdict comes with the last.
ReadSum(c) ==
    /\ h[c].pc = "sums"
    /\ LET r == h[c].req
           already == h[c].sum + spent[Head(h[c].unread)]
       IN  IF Len(h[c].unread) = 1
           THEN Decided(c, SumVerdict(r.kind, r.amt, Lim, already))
           ELSE h' = [h EXCEPT ![c].sum = already, ![c].unread = Tail(@)]
    /\ UNCHANGED <<menu, pend, started, money, savings, leash, risk, trail, crashes>>

(* recordPolicyDecision: read the hash of the last entry of the whole table,
   then add one that names it. *)

\* Mutant: the first entry is read, not the last one.
ReadHeadOldest(c) ==
    /\ h[c].pc = "head"
    /\ h' = [h EXCEPT ![c].head = IF audit = <<>> THEN 0 ELSE 1, ![c].pc = "insert"]
    /\ UNCHANGED <<menu, pend, started, money, savings, leash, risk, trail, crashes>>

ReadHead(c) ==
    /\ h[c].pc = "head"
    /\ h' = [h EXCEPT ![c].head = Len(audit), ![c].pc = "insert"]
    /\ UNCHANGED <<menu, pend, started, money, savings, leash, risk, trail, crashes>>

Record(c) ==
    /\ h[c].pc = "insert"
    /\ audit' = Append(audit, [prev |-> h[c].head, id |-> h[c].req.id,
                               verdict |-> h[c].verdict])
    /\ \/ h[c].verdict = "confirm" /\ Go(c, "park")
       \/ h[c].verdict = "pass" /\ h[c].req.kind = "price" /\ Go(c, "fetch")
       \/ h[c].verdict = "pass" /\ h[c].req.kind = "policy" /\ Leave(c)
       \/ h[c].verdict \in {"reject", "callback"} /\ Leave(c)
    /\ UNCHANGED <<menu, pend, started, money, savings, leash, risk, abroad, crashes>>

Park(c) ==
    /\ h[c].pc = "park"
    /\ pend' = h[c].req
    /\ Leave(c)
    /\ UNCHANGED <<menu, started, money, savings, leash, risk, trail, crashes>>

\* fetchCryptoPrice: paid for, or answered for free when the payment fails.
Fetch(c) ==
    /\ h[c].pc = "fetch"
    /\ \/ /\ spent' = [spent EXCEPT !["nanopay"] = @ + MaxPrice]
          /\ gated' = IF h[c].req.kind = "price" THEN gated + MaxPrice ELSE gated
       \/ UNCHANGED <<spent, gated>>
    /\ Leave(c)
    /\ UNCHANGED <<menu, pend, started, claimed, paid, claims, balance, soft,
                   savings, leash, risk, trail, crashes>>

-----------------------------------------------------------------------------
(* Executing a confirmed request. *)

\* A key that is claimed already was paid, or is being paid, by another
\* CONFIRM of the same request.
ClaimKey(c) ==
    /\ h[c].pc = "claim"
    /\ claimed' = claimed \cup {h[c].req.id}
    /\ IF h[c].req.id \in claimed THEN Leave(c)
       ELSE IF h[c].req.kind = "send" /\ h[c].req.to.claim THEN Go(c, "cap")
       ELSE Go(c, "pay")
    /\ UNCHANGED <<menu, pend, started, spent, paid, claims, balance, soft, gated,
                   savings, leash, risk, trail, crashes>>

\* Mutant: the cap is off by one.
CheckCapLate(c) ==
    /\ h[c].pc = "cap"
    /\ IF claims > ClaimCap THEN Leave(c) ELSE Go(c, "pay")
    /\ UNCHANGED <<menu, pend, started, money, savings, leash, risk, trail, crashes>>

\* assertCanOpenPendingClaim; the request stays parked when it throws.
CheckCap(c) ==
    /\ h[c].pc = "cap"
    /\ IF claims >= ClaimCap THEN Leave(c) ELSE Go(c, "pay")
    /\ UNCHANGED <<menu, pend, started, money, savings, leash, risk, trail, crashes>>

\* What has been checked against the locks and not been carried out, apart from
\* spends while nothing is locked: whoever takes from the wallet or adds a lock
\* now overtakes it.
Checked(locked) ==
    LET hands == {d \in Caller : h[d].pc \notin {"rules", "locks", "balance"}}
    IN  {r \in {pend} \cup {h[d].req : d \in hands} :
            r.kind = "lock" \/ (locked /\ r.kind \in Spends)}

Overtake(locked) == stale' = stale \cup {r.id : r \in Checked(locked)}

\* Mutant: the balance is not asked for.
TakesUncovered(c, amt, gas) ==
    /\ balance' = balance - (amt + gas)
    /\ UNCHANGED <<burnt, loose, stale>>

\* The account's transaction: the amount, and the gas, which a local wallet
\* (WALLET_MODE=local) pays in USDC too.
Takes(c, amt, gas) ==
    LET locked == Sum(locks) > 0
    IN  /\ amt + gas <= balance
        /\ balance' = balance - (amt + gas)
        /\ burnt' = IF locked THEN burnt + gas ELSE burnt
        /\ loose' = IF locked /\ h[c].req.id \in stale THEN loose + amt ELSE loose
        /\ IF amt + gas = 0 THEN UNCHANGED stale ELSE Overtake(locked)

\* The transfer, the swap, or the charge and delivery of a top-up.  Any of them
\* may throw, before the money left (with or without gas: a transaction that
\* reverts costs it) or after it (an answer that is lost, a refund that fails),
\* and then nothing is booked and the request stays parked.
Pay(c) ==
    /\ h[c].pc = "pay"
    /\ \E gas \in 0 .. menu.gas :
          \/ Takes(c, h[c].req.amt, gas) /\ (Go(c, "book") \/ Leave(c))
          \/ Takes(c, 0, gas) /\ Leave(c)
    /\ UNCHANGED <<menu, pend, started, claimed, spent, paid, claims, soft, gated,
                   locks, leash, risk, trail, crashes>>

BookedAs(req) ==
    CASE req.kind = "send" /\ req.to.claim  -> "escrow_hold"
      [] req.kind = "send" /\ ~req.to.claim -> "send"
      [] req.kind = "swap"                  -> "swap"
      [] OTHER                              -> "airtime"

\* The claim row of a hold, and the ledger row.
Book(c) ==
    /\ h[c].pc = "book"
    /\ LET r == h[c].req
       IN  /\ spent' = [spent EXCEPT ![BookedAs(r)] = @ + r.amt]
           /\ paid' = IF r.kind = "send" THEN paid \cup {Counterparty(r.to)} ELSE paid
           /\ claims' = IF BookedAs(r) = "escrow_hold" THEN claims + 1 ELSE claims
           /\ soft' = IF r.kind = "send" /\ r.amt <= Lim.perTx THEN soft + r.amt ELSE soft
    /\ Go(c, "done")
    /\ UNCHANGED <<menu, pend, started, claimed, balance, gated, savings, leash, risk,
                   trail, crashes>>

\* Drops whatever is parked by now; a frozen policy is recorded after it.
Done(c) ==
    /\ h[c].pc = "done"
    /\ pend' = NoReq
    /\ IF h[c].req.kind = "policy" THEN Decided(c, "pass") ELSE Leave(c)
    /\ UNCHANGED <<menu, started, money, savings, leash, risk, trail, crashes>>

PlaceLock(c) ==
    /\ h[c].pc = "place"
    /\ locks' = Append(locks, h[c].req.amt)
    /\ loose' = IF h[c].req.id \in stale THEN loose + h[c].req.amt ELSE loose
    /\ Overtake(TRUE)
    /\ Go(c, "done")
    /\ UNCHANGED <<menu, pend, started, money, burnt, leash, risk, trail, crashes>>

\* A confirmed policy: the active rules are revoked, then the new ones are
\* inserted one at a time.
ClearRules(c) ==
    /\ h[c].pc = "clear"
    /\ rules' = {}
    /\ frozen' = h[c].req /\ cut' = {}
    /\ Go(c, "freeze")
    /\ UNCHANGED <<menu, pend, started, money, savings, ids, refused, risk, trail, crashes>>

RuleId(c) == <<h[c].req.id, Len(h[c].left)>>

\* Mutant: every rule replaces the one before it.
FreezeRuleReplaces(c) ==
    /\ h[c].pc = "freeze"
    /\ rules' = {Head(h[c].left)} /\ ids' = ids \cup {RuleId(c)}
    /\ h' = [h EXCEPT ![c].left = Tail(@),
                      ![c].pc = IF Len(h[c].left) = 1 THEN "done" ELSE "freeze"]
    /\ UNCHANGED <<menu, pend, started, money, savings, frozen, cut, refused, risk,
                   trail, crashes>>

\* insertUserRule: a plain INSERT, and rule_id is UNIQUE.  It throws when the row
\* is there already, which it is, revoked, once the same policy has been
\* confirmed before; the request stays parked then.
FreezeRule(c) ==
    /\ h[c].pc = "freeze"
    /\ \/ /\ RuleId(c) \notin ids
          /\ rules' = rules \cup {Head(h[c].left)} /\ ids' = ids \cup {RuleId(c)}
          /\ h' = [h EXCEPT ![c].left = Tail(@),
                            ![c].pc = IF Len(h[c].left) = 1 THEN "done" ELSE "freeze"]
          /\ UNCHANGED refused
       \/ /\ RuleId(c) \in ids
          /\ refused' = refused \cup {h[c].req.id}
          /\ Leave(c)
          /\ UNCHANGED <<rules, ids>>
    /\ UNCHANGED <<menu, pend, started, money, savings, frozen, cut, risk, trail, crashes>>

-----------------------------------------------------------------------------
(* What happens around the requests. *)

Deposit ==
    /\ "deposit" \in menu.does
    /\ balance < MaxFunds
    /\ balance' = balance + 1
    /\ UNCHANGED <<menu, h, pend, started, claimed, spent, paid, claims, soft, gated,
                   savings, leash, risk, trail, crashes>>

\* A lock matures (releaseMaturedLocks).
Mature ==
    /\ "mature" \in menu.does
    /\ \E i \in DOMAIN locks : locks' = RemoveAt(locks, i)
    /\ burnt' = IF locks' = <<>> THEN 0 ELSE burnt
    /\ loose' = IF locks' = <<>> THEN 0 ELSE loose
    /\ UNCHANGED <<menu, h, pend, started, money, stale, leash, risk, trail, crashes>>

\* The deadlines of the cool-down and of the callback pass.
RiskPasses ==
    /\ "risk_passes" \in menu.does
    /\ \/ cooldown /\ cooldown' = FALSE /\ UNCHANGED callback
       \/ callback /\ callback' = FALSE /\ UNCHANGED cooldown
    /\ UNCHANGED <<menu, h, pend, started, money, savings, leash, chilled, trail, crashes>>

\* Midnight: the sums of the day start again.
NewDay ==
    /\ "new_day" \in menu.does
    /\ \E k \in Kind : spent[k] > 0
    /\ spent' = [k \in Kind |-> 0]
    /\ claims' = 0 /\ soft' = 0 /\ gated' = 0
    /\ UNCHANGED <<menu, h, pend, started, claimed, paid, balance, savings, leash,
                   risk, trail, crashes>>

\* The process dies in the middle of a request.
Crash(c) ==
    /\ "crash" \in menu.does
    /\ crashes < MaxCrash
    /\ h[c].pc # "idle"
    /\ crashes' = crashes + 1
    /\ cut' = IF h[c].pc = "freeze" /\ h[c].req.id = frozen.id
              THEN cut \cup ToSet(h[c].left) ELSE cut
    /\ Leave(c)
    /\ UNCHANGED <<menu, pend, started, money, savings, rules, ids, frozen, refused,
                   risk, trail>>

\* The other accounts write their decisions to the same table, and follow the
\* last entry there is, whoever wrote it.
ForeignHead(f) ==
    /\ "others" \in menu.does
    /\ abroad[f] = NoHead /\ MayAudit
    /\ abroad' = [abroad EXCEPT ![f] = Len(audit)]
    /\ UNCHANGED <<menu, h, pend, started, money, savings, leash, risk, audit, crashes>>

ForeignRecord(f) ==
    /\ abroad[f] # NoHead
    /\ audit' = Append(audit, [prev |-> abroad[f], id |-> 0, verdict |-> "pass"])
    /\ abroad' = [abroad EXCEPT ![f] = NoHead]
    /\ UNCHANGED <<menu, h, pend, started, money, savings, leash, risk, crashes>>

Command(c) ==
    \/ Ask(c) \/ AskPrice(c) \/ AskRate(c) \/ SetPolicy(c) \/ ClearPolicy(c) \/ AskLock(c)
    \/ ReportSim(c) \/ Callback(c) \/ Cancel(c) \/ Confirm(c)
Gate(c) ==
    \/ CheckRules(c) \/ CheckLocks(c) \/ ReadBalance(c) \/ CompareLocked(c) \/ ReadSum(c)
    \/ ReadHead(c) \/ Record(c) \/ Park(c)
Step(c) ==
    \/ Gate(c) \/ Fetch(c) \/ ClaimKey(c) \/ CheckCap(c) \/ Pay(c) \/ Book(c)
    \/ Done(c) \/ PlaceLock(c) \/ ClearRules(c) \/ FreezeRule(c)

Next ==
    \/ \E c \in Caller : Command(c) \/ Step(c) \/ Crash(c)
    \/ \E f \in Foreign : ForeignHead(f) \/ ForeignRecord(f)
    \/ Deposit \/ Mature \/ RiskPasses \/ NewDay

Spec == Init /\ [][Next]_vars

-----------------------------------------------------------------------------
(* Properties. *)

TypeOK ==
    /\ menu \in Menus
    /\ h \in [Caller -> [pc : Steps, req : Request, cool : BOOLEAN, called : BOOLEAN,
                         verdict : {"none", "reject", "callback", "confirm", "pass"},
                         bal : Nat, sum : Nat, unread : Seq(Kind),
                         head : Nat, left : Seq(UNION {ToSet(d) : d \in Draft})]]
    /\ pend \in Request /\ frozen \in Request
    /\ started \in 0 .. menu.requests /\ claimed \subseteq 1 .. started
    /\ spent \in [Kind -> Nat] /\ claims \in Nat /\ soft \in Nat /\ gated \in Nat
    /\ balance \in Nat /\ locks \in Seq(Nat) /\ burnt \in Nat /\ loose \in Nat
    /\ cooldown \in BOOLEAN /\ callback \in BOOLEAN
    /\ chilled \subseteq 1 .. started
    /\ audit \in Seq([prev : Nat, id : Nat, verdict : {"reject", "callback", "confirm", "pass"}])
    /\ abroad \in [Foreign -> Nat \cup {NoHead}]
    /\ crashes \in 0 .. MaxCrash

Others == Cardinality(Caller) - 1

\* The daily limit is read when a request is parked and booked when it has been
\* paid (policy.ts:216, pipeline.ts:1347), so it can be passed; but only by what
\* the account's other requests have under way, and by a request a crash left
\* parked: with one request at a time it holds exactly.
DailyCapOvershoot == soft <= Lim.daily + (Others + crashes) * Lim.perTx

\* The lookups that ask for the limit on paid lookups (policy.ts:47) pass it by
\* no more than what is under way beside them: the gate takes a lookup to cost
\* PriceChecked, each is booked with MaxPrice once it has been paid, and at most
\* one per caller is paid after the last one that was let through.  A rate check
\* (pipeline.ts:239) asks for no limit and is not bounded; it only makes the
\* others stop sooner, because the sum they ask for has it too.
NanopayOvershoot ==
    gated > 0 => gated <= NanopayDaily - PriceChecked + Cardinality(Caller) * MaxPrice

\* Pending claims are counted before the transfer and added after it
\* (claims.ts:70, 92): sends in parallel pass the cap by at most their number.
ClaimCapOvershoot == claims <= ClaimCap + Others

\* The policy confirmed last is in force, every rule of it, but for the rules that
\* are still being inserted or that a crash kept from it, as long as its insertion
\* was not refused.  It is refused when the policy is confirmed a second time
\* (twice at once, or again after a crash before it was taken out of the session):
\* the rules are revoked first (pipeline.ts:521), and then the rows are there
\* (db.ts:123).  Whatever else is confirmed, cleared or cut off beside it does not
\* thin it out.
BeingWritten ==
    UNION {ToSet(h[c].left) :
               c \in {d \in Caller : h[d].pc = "freeze" /\ h[d].req.id = frozen.id}}
FrozenRulesHold ==
    frozen.id \notin refused => ToSet(frozen.draft) \subseteq rules \cup cut \cup BeingWritten

\* What is locked is in the wallet, but for the gas the account has paid and for
\* what spends and locks took that another one had overtaken between their check
\* and their execution: the gate looks when a request is parked
\* (policy.ts:195, pipeline.ts:828) and nothing looks again at its confirmation.
\* A request that nothing came between leaves the locks covered to the last unit.
LocksCovered == Sum(locks) <= balance + burnt + loose

\* No money moves for a request whose acceptance is not in the audit trail.
PaidIsAudited ==
    \A id \in claimed : \E i \in DOMAIN audit : audit[i].id = id /\ audit[i].verdict = "confirm"

\* The chain of the audit trail may fork, because the last hash is read before
\* the entry that names it is inserted (db.ts:1023), and it is one chain for all
\* accounts; no entry is followed by more entries than there are requests at a
\* time, and each follows an older one.
ForksAreBounded ==
    /\ \A i \in DOMAIN audit : audit[i].prev < i
    /\ \A p \in 0 .. Len(audit) :
           Cardinality({i \in DOMAIN audit : audit[i].prev = p})
               <= Cardinality(Caller) + Cardinality(Foreign)

\* What is asked for during a cool-down stays under its limit to the end: no
\* request above it is paid, however long it stays parked and whatever runs
\* beside it.  A request parked before the cool-down is paid in full, because
\* CONFIRM does not ask again (pipeline.ts:687-710).
CooldownBinds == chilled \cap claimed = {}
=============================================================================
