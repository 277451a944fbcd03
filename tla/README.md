# hotline.guru in TLA+

A verification project for the orchestrator of hotline.guru: a phone number owns
a USDC wallet on Arc, and a caller (voice, SMS, chat, web hook) sends, swaps,
holds and saves dollars with spoken commands and a PIN. The modules here model
the code in `src/orchestrator/src`; paths below are relative to
`src/orchestrator/src/lib` unless they say otherwise.

## 1. The system

One Node process (`server.ts`) takes commands from every channel and hands them
to `handleMessage` (`pipeline.ts`). Nothing serialises the calls of one account:
each `await` of a database query, a chain call or an HTTP call is a point where
another call of the same account may run. A timer inside the same process runs
the background jobs (`workers.ts`); `cli/standing.ts` runs the same jobs in a
process of its own. State lives in SQLite or Postgres (`db.ts`), on the chain,
and in Circle's custody service.

| component | state | operations | what is hard | what makes it correct |
|---|---|---|---|---|
| payment pipeline (`pipeline.ts`) | `sessions.pending_json`, `idempotency`, `ledger` | send, swap, confirm, cancel, memo | concurrent confirms, transfers that throw and land later, crashes between transfer and bookkeeping | one transfer per request; ledger, stored result and replies agree with the chain |
| escrow (`claims.ts`) | `pending_claims`, the pooled escrow wallet | hold, fulfil on onboarding, refund on expiry | runs that read their list once and race over a row; timeouts; one balance for all rows | a claim is paid once, in full but for gas, and eventually |
| transfers and wallets (`wallets.ts`, `circle.ts`, `arc.ts`) | user's address and key | create wallet, transfer, balance | receipt timeouts, polling limits, two first contacts at once | a wallet per account |
| workers and retention (`workers.ts`, `retention.ts`) | `standing_orders`, `savings_locks` | run due orders, mark them, expire claims | crash between payment and mark, the owner's session shared with the owner | an order is paid once per period; one failing job does not stop the rest |
| policy (`policy.ts`, `policyRules.ts`, `identity.ts`) | frozen rules, limits, ledger totals, cool-down and callback deadlines | verdict on a request; freeze, clear | verdict at park time, payment later; boundaries of the limits; rules written one by one | what is paid stays within the limits, or passes them by a known amount |
| PIN (`pipeline.ts`, `db.ts`) | hash, failure count, lock, recovery code | set, change, recover, verify | read-modify-write of the counter; a code checked and dropped in different statements | every failure counts but those that race, a code is spent once |
| policy audit chain (`db.ts`) | `policy_audit` | append | two writers read the same head | every payment's acceptance is in it; forks are bounded |
| names and links (`hotlinens.ts`, `channel.ts`) | `hotline_names`, `account_links`, the `users` row | claim, link | check then write, two tables | registry and user rows agree; a name or a chat has one owner |
| identity (`identity.ts`) | tier, SIM attestation | record an ID, attest, report a swap | an ID writes back the tier it read | an attested SIM is tier 2 |
| airtime (`airtime.ts`, `reloadly.ts`) | ledger, operator account, provider token | charge, detect, order, refund | each step fails alone; a token runs out or is revoked | airtime delivered is paid for |
| paid marketplace (`x402.ts`, `marketplace*.ts`, `shop.ts`) | the operator's session, nanopayment sums | price, deliver | all agents share one session; the sum is read before the lookup is paid | a delivery confirms its own request |
| voice session (`agi/server.ts`) | one dialogue | listen, memo, PIN, cancel | hang-up in the middle, two PIN attempts | a call confirms its own request |
| web hooks, rate limit (`server.ts`, `rateLimit.ts`) | hit times per key, in memory | post, admit, refuse | a batch refused halfway is posted again; restarts forget the window | a window's limit holds; nothing is paid more often than delivered |
| contacts, intents, speech, formatting | – | – | no shared state | not modelled |

`PROJECT.json` lists every component with its status, and every hazard of the
code at its line, with the properties that cover it.

## 2. The modules

| module | what it is |
|---|---|
| `SinglePayment` | abstract: a key is claimed once, pays at most once after that, and is answered only when it has paid |
| `Payments` | `executeSend`, `executeSwap`, the session and CONFIRM, with every interleaving of concurrent calls |
| `PaymentsProofs` | theorems about `Payments`; `Payments` implements `SinglePayment` |
| `MCPayments` | instance for TLC |
| `Escrow` | `holdPendingClaim`, `fulfillPendingClaimsFor`, `expirePendingClaims` over one pool |
| `EscrowProofs` | theorems about `Escrow` |
| `MCEscrow` | instance for TLC |
| `Standing` | standing orders: `workers.ts`, `retention.ts` and the owner's session they are paid through |
| `StandingProofs` | theorems about `Standing` |
| `MCStanding` | instance for TLC |
| `Policy` | the spending gate as pure operators, one per stage of `evaluatePolicy`, over what the stage has read |
| `Spending` | the requests of one account through that gate: when each stage reads, parking, confirming, paying; frozen rules, savings locks, audit trail |
| `SpendingProofs`, `DailyCapProofs` | theorems about `Spending`; the second is the counting argument for the daily limit |
| `MCSpending` | instance for TLC |
| `Accounts` | the `users` row of each phone, names, chat links, PINs, recovery, identity: every statement of every command that writes them |
| `AccountsProofs` | theorems about `Accounts` |
| `MCAccounts` | instance for TLC |
| `Ingress` | posts, calls and agents' deliveries meeting in the sessions under the rate limit, and airtime |
| `IngressProofs` | theorems about `Ingress` |
| `SumProofs` | lemmas about sums over finite sets, used by the proofs above |
| `MCIngress` | instance for TLC |

`Payments` and `Escrow` follow one payment and one claim in full detail;
`Standing`, `Spending`, `Accounts` and `Ingress` each follow what several
commands do to one part of the shared state and take a payment in a few steps,
with every outcome `Payments` allows (it lands, throws before or after the money
left, or is never answered). `Spending`, `Accounts` and `Ingress` start each
behaviour with a *menu*: the commands, events, amounts and starting state that
behaviour may use. Commands that are about the same thing are on one menu and
meet in every order; commands that share no state are not multiplied with each
other. The theorems hold for any set of menus, so for the menu with everything
on it.

### Payments

| variable | in the code |
|---|---|
| `pending` | `sessions.pending_json` of the account: the key of the parked send or swap |
| `order` | that request: only its route matters (bare address, known phone, escrow, swap) |
| `idem` | the row of `idempotency`: absent, `{"__idem":"pending"}`, or a stored result |
| `landed`, `orphan` | transfers of the key on the chain, and submitted ones no handler waits for any more |
| `rows` | rows booked for the key: pending claim, payer's ledger row, payee's ledger row |
| `pc`, `work`, `reply` | each running `handleMessage` call, the key it holds, and its last answer |
| `demo`, `async` | `DEMO_SIMPLE` and `ASYNC_SETTLE` |

`Request` is `send`/`swap` let through by the policy; `ReadPending`, `Pin*`,
`LockOut` and `Claim` are CONFIRM up to `claimIdempotency`; `Submit` …
`SaveResult` are `run()`; `BookingFails` and `SubmitFails`, `Reverted`,
`TimedOut` are its catch; `MemoRead`/`MemoWrite` are `attachSendMemo`; `Late` is
the chain, `Restart` the death of the process. Every database statement is a
step of its own. The policy verdict, the PIN counters and the amounts are free
here: every outcome they could produce is allowed. A command that parks another
kind of request over a send has the effect `Cancel` has.

### Escrow

`hold[c]` is how far an attempt to hold has come; `status`, `want`, `payee` and
`due` are its row; `pool` is the balance of the escrow wallet, `got` what
reached each side, `late` the payouts that timed out and may still land,
`booked` the ledger. A run (`Onboarder` for `set_pin`, `Worker` for the expiry)
has `pc`, the rows left (`todo`), the row in hand (`at`) and the amount it
decided on (`amt`): the balance is read in one step and spent in a later one,
and the row is not read again, exactly as in the code. `SetPin`, `StorePin` and
`Fulfill` are `set_pin` up to the list of the payee's held claims. The write-off
of a claim whose sender has no user row is left out: user rows are deleted only
for `tg:` accounts, which `handleMessage` turns away, so no sender loses its
row.

### Standing

The worker pays an order the way its owner would, by two `handleMessage` calls:
`send …` parks a request in the owner's session, `CONFIRM <STANDING_PIN>` pays
what is parked there by then. The module keeps one account:

| variable | in the code |
|---|---|
| `status`, `due` | `standing_orders.status` and `next_run_at` |
| `pending` | the session: a parked send's key, a standing request (`NewOrder`), or nothing |
| `made` | what each idempotency key was made for: `<<order, date>>`, or the owner's own send |
| `claimed`, `spent`, `settling` | keys in `idempotency`, keys whose money left, and keys whose `run()` goes on behind an `ASYNC_SETTLE` answer |
| `pc`, `work` | each actor's step and the parked request it read |
| `todo`, `at` | the orders a run listed and the one in hand, with the dates they were listed with |
| `lost` | history: the dates a run worked on without marking them |
| `now` | time, in cadences |

`ListDue` is `claimDueStanding` (it changes nothing, whatever its name says),
`NextOrder` … `Mark` the loop of `runDueStanding`, `OrderThrows` its catch,
`SliceThrows` the exception outside of it, and `Confirm` what `handleMessage`
does with a CONFIRM, for the worker and the owner alike. A payment is the key it
claims: `Payments` shows that a key pays once, and its steps are not repeated.
`attachSendMemo` and request kinds that neither pay nor create an order are left
out; for the session they do what `AskSend` and `AskCancel` do.

### Policy and Spending

| variable | in the code |
|---|---|
| `h` | each running request: its next statement, the request, the cool-down and callback as its user row had them, its verdict, the balance and the sum it has read, the sums it still has to read, the audit entry it will name, the rules it still has to insert |
| `pend` | `sessions.pending_json` of the account |
| `started`, `claimed` | keys given out, and keys in `idempotency` |
| `spent`, `paid`, `claims` | the day's ledger sums by kind, counterparties of ledger rows, claims opened today |
| `balance`, `locks` | USDC of the wallet, `savings_locks` |
| `rules` | active rows of `user_policy_rules` |
| `cooldown`, `callback` | the deadlines of the user row lie in the future |
| `audit` | `policy_audit`: the entry each entry follows, its key and verdict |
| `abroad` | requests of other accounts between reading the last hash and inserting their entry |
| `ids` | `rule_id` of every row of `user_policy_rules`, revoked ones included |
| `crashes` | bound |
| `soft`, `gated`, `frozen`, `cut`, `refused`, `chilled`, `burnt`, `stale`, `loose` | history for the properties |

`Ask` is a send, swap or top-up up to the first stage of the gate,
`CheckRules`, `CheckLocks`, `ReadBalance`, `CompareLocked` and `ReadSum` the
reads it takes, one statement after the other (the rules and who was paid before
are the only two taken together), `ReadHead` and `Record`
`recordPolicyDecision`, `Park` the session write, `Confirm` … `Done` a CONFIRM
of a payment, a lock or a policy. `Pay` takes the amount and the gas, which a
local wallet pays in USDC too (`wallets.ts:217-239`). `FreezeRule` is
`insertUserRule`: a plain INSERT, which throws when the `rule_id` is in the
table. `AskRate` is RATE and the dialled rate line: the lookup of `price`,
booked in the same way, with no gate before it (`pipeline.ts:237-245`). The
audit chain is one for all accounts: `ForeignHead` and `ForeignRecord` are the
two statements of another account's request. `Policy` has some of the code's own
edges: an amount above the soft limit skips the daily sum (`policy.ts:209`); the
limit on paid lookups gates only `price`, and the cap on a send counts neither
swaps nor airtime; a deny label without a digit matches every phone, because a
phone contains the empty string (`policyRules.ts:243-246`); a contact saved as a
bare address is asked for by label but booked under its address, so it stays a
new payee for ever. The last two are theorems about the operators. `Spending`
models swaps out of USDC; for one out of another token the code asks the hard
ceiling only.

### Accounts

| variable | in the code |
|---|---|
| `users` | the `users` table: name, PIN, wallet, failures, lock, recovery code, tier, SIM, label, cool-down |
| `names`, `links` | `hotline_names`, `account_links` |
| `pend` | the kind of request parked in the session of a phone |
| `h` | each command: its next statement, what it was asked, and the user row it has read |
| `begun`, `minted`, `codes`, `crashes` | commands, wallets and codes so far; bound |
| `calm`, `told`, `chosen`, `wrong`, `slips`, `lapsed`, `uses`, `bounced` | history for the properties |

`Meet`, `Mint` and `Upsert` are `ensureCaller` and `ensureWallet`; `Route` is
where the command goes with the row it got, the rest is the statements of the
single commands. `Verdict` has the checks of a CONFIRM as the code has them: a
standing order or a savings lock is confirmed without looking at the lock
(`pipeline.ts:540`), anything else is not. The step that sets the cool-down of a
recovered PIN comes last, so a crash before it leaves none. `dropName` is not
modelled because no command reaches it. Who overlapped is kept in `calm`: two
commands of one phone, or two name claims by any phones.

### Ingress

| variable | in the code |
|---|---|
| `w` | each post or call being handled: the mail, the command it is at, the request in hand |
| `now`, `bucket` | the clock; `rateLimit.ts`'s map from key to hit times |
| `sess` | `sessions.pending_json` by account |
| `parked`, `claimed` | keys given out, and keys in `idempotency` |
| `paid`, `aired`, `till` | payments per intention, airtime delivered, USDC of the operator's account |
| `token` | the cached token of the airtime provider: none, good, or revoked |
| `tries`, `answered` | posts of a mail, and mails answered 200 |
| `crashes`; `seen`, `unheard`, `strayed`, `met` | bound; history for the properties |

A *mail* is what one webhook post, paid delivery or phone call says, as a list
of commands. `Admit` is the rate limit: a WhatsApp batch counts message by
message and stops with 429 at the first one refused (`server.ts:324`), what was
said before it having been done, and the provider posts the batch again. `Ask` …
`Cancel` are what a mail says, with the differences of the channels: a call
greets (which clears the session), attaches a memo, gets two PIN attempts and
cancels; an agent's delivery confirms only when it was asked to
(`x402.ts:394-395`). `ClaimKey` … `Clear` carry it out, `Charge`, `GetToken`,
`Detect`, `Provide` and `Refund` being `fulfillAirtime` and `reloadly.ts`. Edges
of the code found on the way and kept in the model: a revoked token stays cached
until it runs out, and every top-up until then is charged and refunded; a refund
fails when the operator's account has been emptied; an answer `PROCESSING`
counts as success; a restart forgets the rate window; a delivery whose transfer
was refused or failed is answered `ok: true` (`x402.ts:403`), which changes no
state.

## 3. The runs

| run | shows |
|---|---|
| `payments` | the safety of `Payments` below, and that it implements `SinglePayment` |
| `payments_inflight` | **violation**: "already in progress" is said of a key nothing works on |
| `escrow` | the safety of `Escrow` below, with gas and a gas reserve (4,207,767 states, about 110 s) |
| `escrow_live` | an expired claim is tried again and again until settled, in demo mode (onboarding may repeat) |
| `escrow_paid_once` | **violation**: a claim can be paid to the payee and to the sender |
| `standing` | the safety of `Standing` below, on both databases |
| `standing_live` | on SQLite every due order gets its turn, whatever fails before it |
| `standing_postgres` | **violation**: on Postgres no due order is ever reached |
| `standing_pin` | **violation**: the worker's CONFIRM pays a send of the owner's |
| `spending` | how far each limit of an account can be passed, and what holds exactly (2,314,998 states, about 150 s) |
| `accounts` | the user row, names, links and PINs under two commands at a time (374,858 states) |
| `ingress` | repeated posts, deliveries and calls in the sessions, rate limit and airtime (663,746 states) |

Properties of `Payments`:

* `AtMostOnce` – transfers of a key that landed or still may land number at most
  one, under concurrent confirms, timeouts, failures and restarts.
* `LedgerBacked` – every row of a key is backed by its landed transfer, the
  payee's row by the payer's.
* `ResultComplete` – a stored result stands for a finished payment with every
  row its route asks for.
* `SentIsTrue` – "sent" (first answer or replay) is said only of such a payment.
* `PaysOncePerKey` – refinement of `SinglePayment`.

That a request stays out of the session once it was cancelled is not among them,
because it does not: `attachSendMemo` writes back the send it read
(`pipeline.ts:1646-1649`), whatever happened in between. What holds, and is
checked with `MemoRead` and `MemoWrite` as steps of their own, is that a request
brought back in this way pays once at most, and that one paid already is
answered with its stored result.

Properties of `Escrow`:

* `SettledBacked` – claimed means the payee was paid, refunded that the sender
  was.
* `LedgerWithinPayouts` – the ledger shows no more than reached either side.
* `PoolCoversHeld` – the pool and the gas it burnt hold what all claims with a
  row are still owed. So, unless some claim is paid twice, none is paid with
  another one's money.
* `ShortfallIsGas` – unless some claim is paid twice, a settled claim has been
  paid out in full but for gas and the gas reserve: to both sides together,
  because a payout in part to one side may be finished, and marked, by a run of
  the other. A claim is four units, the reserve and each transfer's gas one: a
  claim settled for less than two of its four, with nothing burnt, would be a
  shortfall.
* `SettledIsOver` – a settled claim that no run which saw it held still works on
  is never paid or marked again.
* `HeldIsRetried` – liveness: a row that fails does not starve the rows behind
  it.

Properties of `Standing`:

* `RepeatNeedsLostMark` – with one run at a time (the `running` flag; one
  process), two payments for one due date of an order mean that a run lost its
  mark of that date: by an exception, a missing PIN or the death of its process.
  Nothing the owner parks, confirms or cancels meanwhile brings a second
  payment.
* `CancelIsFinal` – a cancelled order that no run has listed and whose keys
  nobody holds is never listed, parked or paid again.
* `DueIsServed` – liveness: an active order that is due is taken in hand by some
  run or stops being due.

Properties of `Spending`:

* `DailyCapOvershoot` – sends within the soft limit pass the daily limit by at
  most one soft limit for every *other* request at work and every crash; with
  one request at a time and no crash the limit is exact.
* `NanopayOvershoot` – the lookups that ask for the daily limit on paid lookups
  pass it by at most one booked price for each request at a time, less the price
  they are checked with. The gate takes a lookup to cost 0.01 (`policy.ts:48`),
  it is booked with `X402_MAX_PRICE` (`marketplace.ts:24`). RATE asks for no
  limit and passes it without bound; it is in the model, its rows are in the sum
  the others are checked against, and the property is about the others.
* `ClaimCapOvershoot` – new pending claims pass their daily cap by at most the
  number of other requests.
* `FrozenRulesHold` – every rule of the policy confirmed last is in force, being
  written, or was cut off by a crash, as long as its insertion was not refused.
  It is refused when one parked policy is confirmed a second time: see below.
* `LocksCovered` – what is locked is in the wallet, but for the gas paid
  (`burnt`) and for what spends and locks took that another one had overtaken
  between their check and their execution (`loose`). The gate compares with the
  locks when a request is parked and nothing compares again at CONFIRM; the
  property says that nothing *else* uncovers a lock: not a lock and a spend that
  interleave in the gate, not a deposit or a maturing lock between two reads,
  not a crash.
* `PaidIsAudited` – no key is claimed for a request whose acceptance is not in
  the audit trail.
* `ForksAreBounded` – the trail may fork, but an entry has at most as many
  followers as there are requests at a time, of all accounts, and each follows
  an older one.
* `CooldownBinds` – a request above the cool-down limit made during a cool-down
  is never paid. (One parked *before* the swap was reported is paid in full:
  CONFIRM does not ask the gate again, `pipeline.ts:687-710`.)

Properties of `Accounts`:

* `NamesAgree` – the registry and the user rows say the same in every state.
* `NothingIsUndone` – while a phone's commands do not overlap, its PIN is the
  one chosen last and every deposit address it was told is its wallet's.
* `FailuresCounted` – the count of a phone is the number of its wrong PINs in a
  row, and it is locked when they reach `MaxFails` and not before, until the
  lock has run out; whatever other commands run beside. Only a count that
  another count or a right PIN overtook between its two statements
  (`db.ts:475-488`), or that was cut off, puts it wrong: such a count may lose a
  failure, and may lift a lock.
* `CodeSpentOnce` – a recovery code resets the PIN at most once per command that
  can have read it, and once more per crash between reset and drop.
* `RefusedOnlyOverlapped` – a unique index refuses a checked claim or link only
  when another command came in between.
* `AttestedIsTier2` – without overlap, an attested SIM is of tier 2.

Properties of `Ingress`:

* `WindowLimit` – no more than the limit is admitted under a key in any window,
  per life of the process.
* `PaidAsDelivered` – an intention is paid for at most as often as its mail was
  posted, whoever confirms it.
* `AirtimeIsPaidFor` – airtime delivered is paid for net of refunds, but for
  orders whose answer was lost (those are refunded all the same).
* `ConfirmsItsOwn` – a call or an agent's delivery confirms the request it made,
  unless another post or call was at work in the same session beside it.

The type invariants carry part of the weight where a type is not obvious: no
balance is ever negative, a bucket never holds more than the limit, a tier never
exceeds 2, and the wallet of a known row was created for it.

### What the violations say

`InflightIsTrue`: `run()` failing (`pipeline.ts:1418`) or the process dying
leaves the idempotency row pending and the request parked. `AtMostOnce` depends
on that (a timed-out transfer may still land), but the answer given from then
on, "That transfer is already in progress", is false, and the request can never
be completed; it has to be made anew.

`PaidOnce`: `README.md:95` of the repository promises the payee *or* the sender.
An onboarding and an expiry run that both listed the row pay it to both; the
second payout comes out of other claims' deposits. A payout that times out and
lands late does the same.

`DueIsServed` on Postgres: `next_run_at` is a `TIMESTAMPTZ` there, the driver
returns it as a `Date`, and `order.next_run_at.slice` (`workers.ts:30`) throws
outside the `try` of the loop. The first due order ends the tick, and with it
the claim expiry, every time.

`PinIsForTheOrder`: between the worker's `send` and its `CONFIRM` the owner may
park a send of their own. The worker confirms that one, and marks its order as
run.

Three more disagreements have no run of their own, and are told by what the
properties above leave out. Confirming one parked policy twice (two CONFIRMs at
once, or again after a crash before the session was cleared) revokes its rules
and then throws on the first INSERT, because `rule_id` was fixed when the policy
was compiled and is UNIQUE (`db.ts:123`): the account has no active rule
although it was told "Frozen. … only you can CLEAR POLICY"
(`pipeline.ts:533-535`). In the model that is `FreezeRule` with `RuleId(c) \in
ids`; without the premise `frozen.id \notin refused` TLC finds it in
`FrozenRulesHold`. A lock answered with "That slice won't send until then."
(`pipeline.ts:597`) is spent by a request that was checked before the lock was
placed, and in a local wallet by gas. And RATE is paid for however much of the
daily limit on lookups is used up.

### Bounds

`MCPayments`: two callers and two keys. Two callers suffice for every pairwise
race on a key (claim, clear, memo); the second key is there for what is parked
over, cleared or written back by a call that works on the first. Nothing else is
bounded: the counters are bounded by the behaviour itself. `MCEscrow`: two
claims so that one can pay for the other, one onboarding run and one worker. A
claim of the safety run is four units, with gas and reserve of one each, so that
a payout in part, an underfunded row, a loss by gas alone and a shortfall that
neither gas nor reserve explains are different states. `MaxLate` bounds the
payouts that are out with no run waiting; 1 is enough for a double payment. The
liveness and the violation run use the sponsored wallet (no gas, no reserve) and
claims of two units; the liveness run is in demo mode, where a PIN may be set
again. `MCStanding`: two orders (one can fail before the other, both can share
the session), two keys (the worker's and the owner's, or two for one date), one
call of the owner and one run, two periods (`Horizon = 1`): an order is created,
falls due, is paid and marked, or is left unmarked and due again. With one
order, the safety and the liveness run also pass over three periods (`Horizon =
2`), where an order comes round a second time. `Limit` is not below the number
of orders: with more due orders than the limit, those that always throw keep
later ones from ever being listed (a hazard no run demands the absence of). The
liveness runs have one key: an order gets its turn whether or not a key is left
to pay it with.

`MCSpending`: two requests at a time, per-transfer 2, daily 2, hard ceiling 3, a
cap of one claim, so that one request fills a limit and two pass it, and the
amount 3 lies between soft and hard limit; lookups are checked at 1 and booked
at 2, gas is 0 or 1. Ten menus: sends over midnight; sends with a crash;
escrowed sends; risk (cool-down, callback, above the soft limit); freezing,
clearing and confirming again with a crash; frozen rules against known, new and
address-only payees; locks with sends, gas and maturing; locks with swaps,
top-ups, gas and deposits; lookups with and without a gate; the trail beside
another account. `MaxAudit = 5` entries, `MaxLocks = 2`, `MaxFunds = 3`: enough
for two generations of two requests. `MCAccounts`: two commands at a time and
four or five in all, two phones, chats, labels and PINs, `MaxFails = 2`; seven
menus: first contact and setup; payments, standing orders and wrong PINs; a
policy with a crash; recovery with ageing and a crash; name claims; links;
identity. `MCIngress`: two workers, a limit of 2 in a window of 2 and a clock up
to 3, so that windows overlap; each mail posted at most twice; one crash; seven
menus, each with one way of coming in and what it meets in the session. The
crash of `Spending` and `Accounts` cuts off one request (an exception, or the
death of one of several processes); several crashes in a row are the death of
all. That of `Ingress` is the whole process with its memory. These three runs
have `CHECK_DEADLOCK FALSE`: a behaviour comes to its end when the commands its
bounds allow have been said.

### Fairness

Only the liveness runs assume fairness. `escrow_live`: weak fairness of starting
an expiry run (`setInterval` ticks for ever and the `running` flag is cleared in
a `finally`) and of each of its steps (an awaited call returns or throws), and
that worker processes stop dying eventually. It does not assume that any
transfer succeeds. It does assume that the standing orders run earlier in the
same tick return, which `standing_postgres` shows to be false there as soon as
an order is due. `standing_live` and `standing_postgres`: the same, for the loop
over the due orders. That deaths stop is written `<>[][WorkersAlive]_vars`,
every step but a death, and not as the absence of `Crash` steps, which other
steps could look like. Callers are never assumed to do anything.

## 4. The proofs

All proofs hold for every value of the constants, that is for any number of
callers, keys, claims, payees and runs, and every amount, fee and reserve.

`PaymentsProofs`. `TypeCorrect` is the type invariant. The safety invariants are
not inductive: `AtMostOnce`, say, is kept by `Submit`/`Landed` only because the
running handler is the only one with that key, its claim row is pending and
nothing has landed or been abandoned yet. `Safe` adds that: `RunnersOwn` says
what the books of a key hold at each label of the handler that runs it and that
no other handler runs it, `KeyOK` collects what the claim row, the chain and the
ledger of one key may be together, `Ordered` that only made requests are parked
or in hand. An action changes one key through one handler (lemma `OneKey`) or
none (`NoKey`), so `SafeStep` has one short case per action. From `SafeAlways`
follow `PaymentsSafety` (the four safety invariants) and
`PaymentsRefinesPromise` (every step maps to a step of `SinglePayment` or to a
stutter).

`EscrowProofs`. `EscrowTypeCorrect` includes that the pool never goes negative.
`IInv` adds to the types and `SettledBacked` that runs work on claims that have
a row and pay something (`RunsHold`), that a row exists only after the deposit
(`RowsAreOpen`) and that whoever marks or books has paid (`RunsHavePaid`).
Results: `SettledClaimsAreBacked` and `SettledClaimsAreOver`. Three more have an
invariant each. `LedgerInv`: per claim and side, what is booked and what runs
have paid and not booked yet is at most what was paid; the sum is over the runs,
and a step changes the share of one (⇒ `LedgerNeverExceedsPayouts`). `PoolInv`:
the pool and the gas burnt hold what is owed on the claims that have landed,
those with a deposit and no row yet among them, and nothing is paid on a claim
without a row; the sum is over the claims, of numbers that turn negative when a
claim is paid twice (⇒ `PoolAlwaysCoversHeld`). `ShortInv`: a run that is about
to pay, or has paid, sees its claim paid out in full but for gas and reserve;
that the balance it read covers the claim is `PoolCoversHeld` at that moment,
and as long as nothing is paid twice other claims' debts are not negative (⇒
`ShortfallIsOnlyGas`).

`StandingProofs`. `RepeatNeedsLostMark` alone is not inductive: that a second
send for a date is impossible rests on what the run has listed. `IInv` adds, for
one run at a time, that what is listed is still due as it was listed
(`ListIsCurrent`), that each date a key was made for is in hand past its send,
marked, or lost (`WorkedDates`), and that two keys are made only for a lost date
(`OneKeyPerDate`). Most actions neither make a key nor move a date (lemma
`QuietKeeps`); the others are `Send`, `Mark`, the listing steps and those that
lose a mark. Results: `OrdersPayOncePerDate`, and, without assuming one run,
`CancelledOrdersAreOver`.

`PaymentsProofs` also states the parts of `Safe` one by one:
`LedgerAlwaysBacked`, `StoredResultsAreComplete`, `SentIsAlwaysTrue`.

`SpendingProofs`. `TypeInv` (`SpendingTyped`) adds to the types what the request
at each label is made of, in hand and parked: a spend has a key that was given
out, a policy a draft, and the rules still to be written are not empty. Each of
the other invariants is a small one on top of it. `AuditInv`: whoever is past
its entry, in hand or parked, has it in the trail (⇒ `PaidOnlyAudited`).
`ChillInv`: a chilled request is rejected or on its way to be, hence neither
parked nor confirmed (⇒ `CooldownAlwaysBinds`). `FrozenRulesHold` is inductive
next to the types: an insertion goes through or is refused, and a refusal takes
the policy out of what the property promises (⇒ `FrozenRulesAlwaysHold`).
`ForkInv`: the followers of an entry and the requests, of this or another
account, that are about to follow it number at most all requests at a time,
because who reads the head reads the newest entry, which nothing follows yet (⇒
`TrailForksAreBounded`). `NanopayInv`: what gated lookups were booked with, and
a booked price for each caller that the limit let through and that has not paid
yet (`Paying`), stay within the bound, because the last one let through saw all
that had been booked (⇒ `LookupsOvershoot`). `ClaimInv`: the claims, plus the
callers that have passed the check and not booked, against the callers that
still can (⇒ `ClaimsOvershoot`). `LockInv`: a request that nothing has overtaken
since its check still fits beside the locks (`Fits`), parked or in hand, and a
balance that was read for it is not above what is there. A step that takes from
the wallet or adds a lock overtakes all others that were checked
(`LockOvertakes`), its own request fits unless it was overtaken itself, and then
what it takes is counted in `loose` (⇒ `LockedIsAlwaysCovered`).

`DailyCapProofs` is the hard one, because an accepted send may wait in the
session for ever, and many may have been accepted against the same sum. `KeyInv`
says that a request still being decided is nowhere else, and that of the callers
that confirm one request only one gets past its key. `Out` are the sends that
are accepted and not booked, `Free` the callers that could still book one.
`CapOK` says that among any `n` sends that could be booked together (`n` is at
most `Free` and at most `Cardinality(Out)`) there is one that fits into the room
that is left if the others are booked as soft limits (`Room`): the one accepted
last was summed before any of them was booked. So the sum passes the limit by at
most `(Others + crashes)` soft limits. A crash frees a caller whose send stays
parked: that is the term `crashes`. Midnight keeps it because whatever was
accepted fits into a day by itself.

`AccountsProofs`. `TypeInv` is the conjunction `RestOK` (counters, registry,
links, history), `UsersOK` (rows, each wallet created), `WorkOK` (what a command
at each label has read); `CountInv` bounds codes and commands at work by the
commands begun. Lemma `StepMoves` says that a step is about one phone and one
caller, `RouteEntry` and `Arrives` where a command can come to. `NamesAgree` is
inductive with the types: only `Register` touches a label (`LabelsSame`).
`MeetInv` says that a calm phone has at most one command at work; `CalmRow` and
`CalmWork` say what its row and that command's copy of it agree on at every
label (`CalmInv`); from there `NothingEverUndone` and `AttestedStaysTier2`.
`FailInv` does without calm phones: only the inserting, counting, forgiving and
PIN-storing steps touch a count (`FailsLeft`), and each leaves it right or puts
a slip down (⇒ `FailuresAlwaysCounted`). `QuietInv` says that what a claim or
link of a calm phone has checked still holds, hence `RefusalsComeOfOverlap`.

In the same module, `CodesAreSpentOnce` needs an account of who can still use a
code: the row that holds it (`Live`), the commands that have read it and will
reset the PIN (`Spends`, of which `Storing` are before the reset and `Dropping`
after it). `OneOwner`: a code belongs to one phone. `LiveUses`: while the code
is in the row, its uses are covered by the commands that have used it and not
yet dropped it, and the crashes. `AllUses`: uses and `Storing` together are at
most the callers and the crashes; once the code is gone from the row, nobody new
can read it.

`IngressProofs`. `WorkInv` types the workers: each is idle or at a step of a
mail. `MeetInv`: two workers in one session have met. `OwnInv`: in a session
that nobody has met in, what is parked is nothing or the call's (delivery's) own
from the time it has asked on (what it finds before, or past its end, is
`Aside`), and what the memo will park again is its own too. A worker of another
session cannot change it, a second one of the same session makes it met (⇒
`OwnIsConfirmed`). The greeting of a call is what this rests on: it clears what
an earlier one left.

The other results of `IngressProofs` are counting arguments. `KeyInv` says that
whatever is parked, taken up or claimed has a number that was given out, and
that who carries out a top-up has a request that some mail asks for as a top-up.
`ServeInv` and `AirInv`: the workers that still have airtime of an intention to
order or to refund are at most the payments of it, and the airtime delivered
(less what was never heard of) and those workers together at most all payments
for airtime; so a refund never takes back what was delivered, and `paid` never
goes negative (⇒ `DeliveredIsPaidFor`). `DueInv`: the payments of an intention,
the unclaimed keys under which it can still be claimed (`Live`), the workers
about to pay it (`AtPay`) and those that have yet to ask for it (`ToAsk`) are
together at most the posts of the mails that ask for it; asking turns one of
`ToAsk` into one of `Live`, claiming that into one of `AtPay`, paying that into
a payment, and only a post adds one (⇒ `PaymentsFollowDeliveries`). It needs
that an intention stands once in a mail (`MailsAssumption`), which is what tells
intentions apart: saying the same thing twice is two of them. `RateInv`: of a
window that is not over, everything this life of the process let in is still in
the bucket, so the bucket's bound is the window's; a window that is over gains
nothing, and a crash gives up a bucket that held at most the limit (⇒
`RateIsKept`). That the filter of `rateLimit.ts` drops nothing of such a window
is lemma `WithinKeeps`. `RestInv` is what is left for the types (⇒
`IngressIsTyped`).

`SumProofs`. What a sum over a finite set does when one number changes, one
element comes or goes, when some are left out, or when they are renamed. The
library's induction theorems cannot be used here (below), so these lemmas, and
those about the filter of a bucket, argue by a smallest counterexample: of the
subsets (prefixes) for which the claim fails take one with none below it
(`SmallestSubset`, `Least`).

Assumed are only the constants' assumptions named in the modules
(`NoneAssumption`, `AmountAssumption`, `DemoAssumption`, `RunsAssumption`,
`OrderAssumption`, `StoreAssumption`, `ActorAssumption`, `LimitsAssumption`,
`SpendingAssumption`, `AccountsAssumption`, `MenusAssumption`,
`IngressAssumption`, `MailsAssumption`, `ClaimsAssumption`); TLC evaluates each
of them. Where a result sums or counts, they say that the claims, runs, workers,
intentions and the mails of a menu are finitely many.

Every invariant and every action property that a run checks is a theorem. Only
model-checked is liveness (`HeldIsRetried`, `DueIsServed`): it rests on
fairness, whose ENABLED the provers at hand do not handle. Induction over data
is out of their reach too (the library's induction theorems take an operator as
a parameter); the few facts about sums and filtered sequences that are needed
are proved by a smallest counterexample instead.

## 5. Not modelled

* `Payments`: amounts, fees and wording. `Escrow`: `ESCROW_WALLET_ADDRESS` set
  to a wallet other than the escrow account's (payouts would not find the
  deposits); stale balances of the custody API.
* `Spending`: swaps out of another token than USDC; demo mode, which executes a
  request instead of parking it. A price lookup that is killed after 90 seconds
  may have been paid for without a ledger row (`marketplaceCatalog.ts:198`):
  `Fetch` books what it pays, so `NanopayOvershoot` is about what the ledger
  shows, as the code's limit is. The fraud lookup of JOIN (`pipeline.ts:717`,
  `marketplace.ts:72-82`), which is not gated either and books as RATE does, is
  not told apart from it. Of another account's requests only their audit
  entries.
* `Accounts`: the old `tg:` accounts, contacts and profiles, the release of
  claims on the first PIN (`Escrow` has it). Key encryption and wallet sets.
* `Ingress`: signatures and payment proofs of agents (`verify`/`settle` of an
  outside facilitator), speech, outgoing messages. The SMS rate key is the raw
  sender, the agents' the recipient (`server.ts:275`): here a mail has some key.
  The bucket map is never emptied of idle keys; memory is not modelled. Of
  airtime: the mock provider, currencies, and the snapping to a fixed
  denomination (up to 15 % away, charged as asked).
* Intent parsing, speech, formatting, the command-line tools, the telephony
  scripts and the landing page have no state that two actors share; reading
  commands (balance, history, help, market advice) change none.
* Composition. The modules meet in the session row and the idempotency table,
  and each models those itself; there is no module in which all six run
  together. `Standing` is the composition of the worker with the owner's
  session, `Ingress` that of the channels, `Spending` that of the gate with
  rules, locks and trail.

Left to do, in this order: a refinement of the payment steps of `Spending` and
`Ingress` by `Payments`; the airtime charge against an abstract "delivered or
refunded" with liveness; a run of `Escrow` with two workers in reach of a
regular run; contacts, whose upsert a confirmed send depends on only through
what it resolved to.
