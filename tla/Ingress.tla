------------------------------- MODULE Ingress -------------------------------
(***************************************************************************)
(* How requests come in and meet in the sessions: chat webhooks that are   *)
(* posted again until they are answered, agents' paid deliveries, calls,   *)
(* and the rate limit in front of them.  An agent's delivery is a send and *)
(* a confirmation in the session of the operator's account, which is also  *)
(* where the money for airtime goes and where it is refunded from.         *)
(*                                                                         *)
(* Left out: signatures and profiles, the gate (Spending), PINs (Accounts) *)
(* and the transfer in detail (Payments): a request may be refused, a PIN  *)
(* be wrong, a transfer throw before or after the money left.              *)
(***************************************************************************)
EXTENDS Integers, FiniteSets, SequencesExt

CONSTANTS
    Worker,          \* posts and calls handled at the same time
    Limit, Window,   \* RATE_LIMIT_PER_MIN and its minute
    Menus,           \* the mails of a behaviour, and what the operator's account holds
    Key, Account, Id,
    Ops,             \* the operator's account
    None,
    \* bounds of the model: the clock, posts of a mail, crashes
    MaxNow, MaxTries, MaxCrash

ASSUME IngressAssumption ==
    /\ IsFiniteSet(Worker) /\ IsFiniteSet(Id)
    /\ Limit \in Nat /\ Window \in Nat
    /\ MaxNow \in Nat /\ MaxTries \in Nat \ {0} /\ MaxCrash \in Nat
    /\ Ops \in Account /\ None \notin Id

\* A mail is a record [via, key, account, cmds]: where it comes from, the name
\* its rate is counted under, the session it works in, and what it says.  A
\* command is a record [op, id]; an intention "id" is asked for once in a mail.
\* An agent's delivery asks for its payment first.
IsMail(m) ==
    /\ m # None /\ m.via \in {"chat", "agent", "call"} /\ m.key \in Key /\ m.account \in Account
    /\ m.cmds \in Seq([op : {"send", "topup", "confirm", "cancel"}, id : Id \cup {None}])
    /\ \A i \in DOMAIN m.cmds : m.cmds[i].op \in {"send", "topup"} => m.cmds[i].id # None
    /\ \A i, j \in DOMAIN m.cmds : m.cmds[i].id # None /\ m.cmds[i].id = m.cmds[j].id => i = j
    /\ m.via = "agent" /\ m.cmds # <<>> => m.cmds[1].op \in {"send", "topup"}

ASSUME MailsAssumption ==
    \A m \in Menus : /\ m.till \in Nat /\ IsFiniteSet(m.mails)
                    /\ \A mail \in m.mails : IsMail(mail)

VARIABLES
    menu,      \* what this behaviour uses (one of Menus)
    w,         \* what each worker is in the middle of
    now,       \* the clock
    bucket,    \* in memory: when the last posts under a key were admitted
    sess,      \* sessions: the parked request
    parked,    \* requests parked so far; each has its number as its key
    claimed,   \* keys claimed in the idempotency table
    paid,      \* how often each intention was paid for
    aired,     \* airtime delivered
    till,      \* USDC of the operator's account
    token,     \* in memory: the airtime provider's token, dead when he has revoked it
    tries,     \* how often each mail was posted
    answered,  \* mails answered with 200: they are not posted again
    crashes,
    \* history, read by the properties only
    seen,      \* every admission under a key
    unheard,   \* airtime delivered though the provider's answer was lost
    strayed,   \* accounts in which a call or an agent confirmed another's request
    met        \* accounts that two posts or calls were at work in at once

money == <<paid, aired, till, unheard, token>>
vars  == <<menu, w, now, bucket, sess, parked, claimed, money, tries, answered,
           crashes, seen, strayed, met>>

NoReq == [op |-> "none", id |-> None, key |-> 0]
Idle  == [pc |-> "idle", mail |-> None, at |-> 0, req |-> NoReq, pins |-> 0]
Mails == menu.mails

Init ==
    /\ menu \in Menus
    /\ w = [c \in Worker |-> Idle]
    /\ now = 0
    /\ bucket = [k \in Key |-> <<>>] /\ seen = [k \in Key |-> <<>>]
    /\ sess = [a \in Account |-> NoReq]
    /\ parked = 0 /\ claimed = {}
    /\ paid = [i \in Id |-> 0] /\ aired = 0 /\ unheard = 0 /\ till = menu.till
    /\ token = "none"
    /\ tries = [m \in Mails |-> 0] /\ answered = {}
    /\ crashes = 0 /\ strayed = {} /\ met = {}

Go(c, pc)   == w' = [w EXCEPT ![c].pc = pc]
Leave(c)    == w' = [w EXCEPT ![c] = Idle]
At(c, pc)   == w[c].pc = pc
Mail(c)     == w[c].mail
Session(c)  == Mail(c).account
\* On to the next command of the mail, or past the last one.
Onward(c)   == w' = [w EXCEPT ![c].at = @ + 1, ![c].pc = "next", ![c].req = NoReq]
Finish(c)   == w' = [w EXCEPT ![c].pc = "answer", ![c].req = NoReq]
Command(c)  == Mail(c).cmds[w[c].at]

-----------------------------------------------------------------------------
(* A mail comes in. *)

Begin(c, m, pc) ==
    /\ At(c, "idle")
    /\ tries' = [tries EXCEPT ![m] = @ + 1]
    /\ w' = [w EXCEPT ![c] = [Idle EXCEPT !.pc = pc, !.mail = m, !.at = 1]]
    /\ met' = IF \E d \in Worker \ {c} : w[d].mail # None /\ w[d].mail.account = m.account
              THEN met \cup {m.account} ELSE met
    /\ UNCHANGED <<menu, now, bucket, sess, parked, claimed, money, answered, crashes,
                   seen, strayed>>

\* A provider posts until it is answered, also while an earlier post is still
\* being worked on.
Post(c, m) == m.via # "call" /\ m \notin answered /\ tries[m] < MaxTries /\ Begin(c, m, "next")

\* A call is made once.
Call(c, m) == m.via = "call" /\ tries[m] = 0 /\ Begin(c, m, "greet")

\* It begins with a greeting, which drops what is parked.
Greet(c) ==
    /\ At(c, "greet")
    /\ sess' = [sess EXCEPT ![Session(c)] = NoReq]
    /\ Go(c, "next")
    /\ UNCHANGED <<menu, now, bucket, parked, claimed, money, tries, answered, crashes,
                   seen, strayed, met>>

\* The admissions under a key that are not older than this, in their order.
Within(k, age) ==
    LET kept[n \in 0 .. Len(bucket[k])] ==
            IF n = 0 THEN <<>>
            ELSE IF now - bucket[k][n] < age THEN Append(kept[n - 1], bucket[k][n])
            ELSE kept[n - 1]
    IN  kept[Len(bucket[k])]

\* Mutant: the window is one short.
RecentLax(k) == Within(k, Window - 1)

\* The admissions that still count.
Recent(k) == Within(k, Window)

\* A chat's messages are counted one by one, any other post once, a call never.
Counts(c) == Mail(c).via = "chat" \/ (Mail(c).via = "agent" /\ w[c].at = 1)

\* One more message is admitted, or the post is refused there and then with
\* 429, and what it said before has been done.
Admit(c) ==
    /\ At(c, "next")
    /\ w[c].at <= Len(Mail(c).cmds)
    /\ LET k == Mail(c).key
       IN  IF ~Counts(c) THEN Go(c, Command(c).op) /\ UNCHANGED <<bucket, seen>>
           ELSE IF Len(Recent(k)) >= Limit
           THEN Leave(c) /\ bucket' = [bucket EXCEPT ![k] = Recent(k)] /\ UNCHANGED seen
           ELSE /\ Go(c, Command(c).op)
                /\ bucket' = [bucket EXCEPT ![k] = Append(Recent(k), now)]
                /\ seen' = [seen EXCEPT ![k] = Append(@, now)]
    /\ UNCHANGED <<menu, now, sess, parked, claimed, money, tries, answered, crashes,
                   strayed, met>>

\* The last message is done: 200.
Answer(c) ==
    /\ At(c, "answer") \/ (At(c, "next") /\ w[c].at > Len(Mail(c).cmds))
    /\ answered' = answered \cup {Mail(c)}
    /\ Leave(c)
    /\ UNCHANGED <<menu, now, bucket, sess, parked, claimed, money, tries, crashes,
                   seen, strayed, met>>

-----------------------------------------------------------------------------
(* What it says. *)

\* Mutant: whoever asks is taken through the confirmation, refused or not.
AskRegardless(c) ==
    /\ w[c].pc \in {"send", "topup"}
    /\ \/ /\ parked' = parked + 1
          /\ sess' = [sess EXCEPT ![Session(c)] =
                 [op |-> Command(c).op, id |-> Command(c).id, key |-> parked']]
       \/ UNCHANGED <<parked, sess>>
    /\ Onward(c)
    /\ UNCHANGED <<menu, now, bucket, claimed, money, tries, answered, crashes,
                   seen, strayed, met>>

\* A refused request ends an agent's delivery and a call: nothing asks for a
\* PIN.  A call that sends is asked for a spoken memo first.
Ask(c) ==
    /\ w[c].pc \in {"send", "topup"}
    /\ \/ /\ parked' = parked + 1
          /\ sess' = [sess EXCEPT ![Session(c)] =
                 [op |-> Command(c).op, id |-> Command(c).id, key |-> parked']]
          /\ IF Mail(c).via = "call" /\ At(c, "send") THEN Go(c, "memo") ELSE Onward(c)
       \/ /\ UNCHANGED <<parked, sess>>
          /\ IF Mail(c).via = "chat" THEN Onward(c) ELSE Finish(c)
    /\ UNCHANGED <<menu, now, bucket, claimed, money, tries, answered, crashes,
                   seen, strayed, met>>

\* attachSendMemo reads the parked send and parks it again with the memo.
Memo(c) ==
    /\ At(c, "memo")
    /\ \/ Onward(c)
       \/ /\ sess[Session(c)].op = "send"
          /\ w' = [w EXCEPT ![c].req = sess[Session(c)], ![c].pc = "note"]
    /\ UNCHANGED <<menu, now, bucket, sess, parked, claimed, money, tries, answered,
                   crashes, seen, strayed, met>>

Note(c) ==
    /\ At(c, "note")
    /\ sess' = [sess EXCEPT ![Session(c)] = w[c].req]
    /\ Onward(c)
    /\ UNCHANGED <<menu, now, bucket, parked, claimed, money, tries, answered, crashes,
                   seen, strayed, met>>

\* The request that the mail asked for.
Own(c) == {Mail(c).cmds[i].id : i \in DOMAIN Mail(c).cmds} \ {None}

\* The PIN is right: what is parked by now is carried out.
Confirm(c) ==
    /\ At(c, "confirm")
    /\ LET r == sess[Session(c)]
       IN  IF r = NoReq THEN Onward(c) /\ UNCHANGED strayed
           ELSE /\ w' = [w EXCEPT ![c].req = r, ![c].pc = "claim"]
                /\ strayed' = IF Mail(c).via # "chat" /\ r.id \notin Own(c)
                              THEN strayed \cup {Session(c)} ELSE strayed
    /\ UNCHANGED <<menu, now, bucket, sess, parked, claimed, money, tries, answered,
                   crashes, seen, met>>

\* The PIN is wrong.  A call asks once more and then cancels; anyone else is
\* told so.  The account may be locked already, or be locked by it, which drops
\* the request.
WrongPin(c) ==
    /\ At(c, "confirm") /\ sess[Session(c)] # NoReq
    /\ \/ /\ Mail(c).via = "call"
          /\ w' = [w EXCEPT ![c].pins = @ + 1,
                            ![c].pc = IF w[c].pins = 0 THEN "confirm" ELSE "cancel"]
          /\ UNCHANGED sess
       \/ UNCHANGED sess /\ Onward(c)
       \/ sess' = [sess EXCEPT ![Session(c)] = NoReq] /\ Onward(c)
    /\ UNCHANGED <<menu, now, bucket, parked, claimed, money, tries, answered, crashes,
                   seen, strayed, met>>

\* No digits: the call cancels.
NoDigits(c) ==
    /\ At(c, "confirm") /\ Mail(c).via = "call"
    /\ Go(c, "cancel")
    /\ UNCHANGED <<menu, now, bucket, sess, parked, claimed, money, tries, answered,
                   crashes, seen, strayed, met>>

Cancel(c) ==
    /\ At(c, "cancel")
    /\ sess' = [sess EXCEPT ![Session(c)] = NoReq]
    /\ Onward(c)
    /\ UNCHANGED <<menu, now, bucket, parked, claimed, money, tries, answered, crashes,
                   seen, strayed, met>>

-----------------------------------------------------------------------------
(* Carrying it out. *)

\* Mutant: a key that is taken already is not looked at.
ClaimKeyAgain(c) ==
    /\ At(c, "claim")
    /\ claimed' = claimed \cup {w[c].req.key}
    /\ Go(c, IF w[c].req.op = "topup" THEN "charge" ELSE "transfer")
    /\ UNCHANGED <<menu, now, bucket, sess, parked, money, tries, answered, crashes,
                   seen, strayed, met>>

ClaimKey(c) ==
    /\ At(c, "claim")
    /\ claimed' = claimed \cup {w[c].req.key}
    /\ IF w[c].req.key \in claimed THEN Onward(c)
       ELSE Go(c, IF w[c].req.op = "topup" THEN "charge" ELSE "transfer")
    /\ UNCHANGED <<menu, now, bucket, sess, parked, money, tries, answered, crashes,
                   seen, strayed, met>>

\* The transfer of a send lands, lands though it is reported as failed, or fails.
Transfer(c) ==
    /\ At(c, "transfer")
    /\ \/ /\ Session(c) = Ops => till > 0
          /\ paid' = [paid EXCEPT ![w[c].req.id] = @ + 1]
          /\ till' = IF Session(c) = Ops THEN till - 1 ELSE till
          /\ Go(c, "clear") \/ Onward(c)
       \/ UNCHANGED <<paid, till>> /\ Onward(c)
    /\ UNCHANGED <<menu, now, bucket, sess, parked, claimed, aired, unheard, token,
                   tries, answered, crashes, seen, strayed, met>>

\* fulfillAirtime: the money first, into the operator's account.
Charge(c) ==
    /\ At(c, "charge")
    /\ \/ /\ Session(c) = Ops => till > 0
          /\ till' = IF Session(c) = Ops THEN till ELSE till + 1
          /\ paid' = [paid EXCEPT ![w[c].req.id] = @ + 1]
          /\ Go(c, "detect") \/ Onward(c)
       \/ UNCHANGED <<paid, till>> /\ Onward(c)
    /\ UNCHANGED <<menu, now, bucket, sess, parked, claimed, aired, unheard, token,
                   tries, answered, crashes, seen, strayed, met>>

\* Every request to the provider takes the cached token, or gets one first.
GetToken(c) ==
    /\ w[c].pc \in {"detect", "provide"} /\ token = "none"
    /\ \/ token' = "good" /\ UNCHANGED w
       \/ UNCHANGED token /\ Go(c, "refund")
    /\ UNCHANGED <<menu, now, bucket, sess, parked, claimed, paid, aired, till, unheard,
                   tries, answered, crashes, seen, strayed, met>>

\* The provider is asked for the operator of the number; there is none, or none
\* that sells this amount.
Detect(c) ==
    /\ At(c, "detect") /\ token # "none"
    /\ (token = "good" /\ Go(c, "provide")) \/ Go(c, "refund")
    /\ UNCHANGED <<menu, now, bucket, sess, parked, claimed, money, tries, answered,
                   crashes, seen, strayed, met>>

\* Mutant: a top-up that is still being processed is refunded.
ProvideRefunds(c) ==
    /\ At(c, "provide") /\ token # "none"
    /\ \/ token = "good" /\ aired' = aired + 1 /\ UNCHANGED unheard /\ Go(c, "refund")
       \/ UNCHANGED <<aired, unheard>> /\ Go(c, "refund")
    /\ UNCHANGED <<menu, now, bucket, sess, parked, claimed, paid, till, token, tries,
                   answered, crashes, seen, strayed, met>>

\* The order is carried out or refused; an answer that is lost, or that has no
\* number, is taken for a refusal.
Provide(c) ==
    /\ At(c, "provide") /\ token # "none"
    /\ \/ token = "good" /\ aired' = aired + 1 /\ UNCHANGED unheard /\ Go(c, "clear")
       \/ token = "good" /\ aired' = aired + 1 /\ unheard' = unheard + 1 /\ Go(c, "refund")
       \/ UNCHANGED <<aired, unheard>> /\ Go(c, "refund")
    /\ UNCHANGED <<menu, now, bucket, sess, parked, claimed, paid, till, token, tries,
                   answered, crashes, seen, strayed, met>>

\* Mutant: a refund is booked whether or not there is money for it.
RefundUnfunded(c) ==
    /\ At(c, "refund") /\ Session(c) # Ops
    /\ till' = till - 1
    /\ paid' = [paid EXCEPT ![w[c].req.id] = @ - 1]
    /\ Onward(c)
    /\ UNCHANGED <<menu, now, bucket, sess, parked, claimed, aired, unheard, token,
                   tries, answered, crashes, seen, strayed, met>>

\* refundAirtimeUsdc: a refund that fails is only logged.
Refund(c) ==
    /\ At(c, "refund")
    /\ \/ /\ till > 0 /\ Session(c) # Ops
          /\ till' = till - 1
          /\ paid' = [paid EXCEPT ![w[c].req.id] = @ - 1]
       \/ UNCHANGED <<till, paid>>
    /\ Onward(c)
    /\ UNCHANGED <<menu, now, bucket, sess, parked, claimed, aired, unheard, token,
                   tries, answered, crashes, seen, strayed, met>>

Clear(c) ==
    /\ At(c, "clear")
    /\ sess' = [sess EXCEPT ![Session(c)] = NoReq]
    /\ Onward(c)
    /\ UNCHANGED <<menu, now, bucket, parked, claimed, money, tries, answered, crashes,
                   seen, strayed, met>>

-----------------------------------------------------------------------------
(* What happens around it. *)

Tick ==
    /\ now < MaxNow /\ "tick" \in menu.does
    /\ now' = now + 1
    /\ UNCHANGED <<menu, w, bucket, sess, parked, claimed, money, tries, answered,
                   crashes, seen, strayed, met>>

\* The cached token runs out, or the provider revokes it before that.
TokenEnds ==
    /\ "token_ends" \in menu.does
    /\ token # "none"
    /\ token' \in {"none", "dead"} \ {token}
    /\ UNCHANGED <<menu, w, now, bucket, sess, parked, claimed, paid, aired, till, unheard,
                   tries, answered, crashes, seen, strayed, met>>

\* The process dies: what was at work is cut off, and the buckets and the token
\* were in memory.
Crash ==
    /\ crashes < MaxCrash /\ "crash" \in menu.does
    /\ crashes' = crashes + 1
    /\ w' = [c \in Worker |-> Idle]
    /\ bucket' = [k \in Key |-> <<>>] /\ token' = "none"
    /\ UNCHANGED <<menu, now, sess, parked, claimed, paid, aired, till, unheard, tries,
                   answered, seen, strayed, met>>

Request(c) ==
    \/ Ask(c) \/ Memo(c) \/ Note(c) \/ Confirm(c) \/ WrongPin(c) \/ NoDigits(c) \/ Cancel(c)
Execute(c) ==
    \/ ClaimKey(c) \/ Transfer(c) \/ Charge(c) \/ GetToken(c) \/ Detect(c) \/ Provide(c)
    \/ Refund(c) \/ Clear(c)

Next ==
    \/ \E c \in Worker : \/ \E m \in Mails : Post(c, m) \/ Call(c, m)
                         \/ Greet(c) \/ Admit(c) \/ Answer(c) \/ Request(c) \/ Execute(c)
    \/ Tick \/ TokenEnds \/ Crash

Spec == Init /\ [][Next]_vars

-----------------------------------------------------------------------------
(* Properties. *)

Requests == [op : {"none", "send", "topup"}, id : Id \cup {None}, key : 0 .. parked]

TypeOK ==
    /\ now \in 0 .. MaxNow /\ crashes \in 0 .. MaxCrash
    /\ \A k \in Key : bucket[k] \in Seq(0 .. now) /\ Len(bucket[k]) <= Limit
    /\ sess \in [Account -> Requests]
    /\ claimed \subseteq 1 .. parked
    /\ paid \in [Id -> Nat] /\ aired \in Nat /\ till \in Nat /\ unheard \in 0 .. aired
    /\ token \in {"none", "good", "dead"}
    /\ answered \subseteq Mails /\ tries \in [Mails -> 0 .. MaxTries]
    /\ \A c \in Worker : (At(c, "idle") <=> w[c] = Idle) /\ w[c].req \in Requests
    /\ strayed \cup met \subseteq Account

\* Under a key no more than Limit messages are let through in any window, for
\* each life of the process: a restart forgets what was let through before
\* (rateLimit.ts:22-29).
WindowLimit ==
    \A k \in Key, t \in 0 .. MaxNow :
        Cardinality({i \in DOMAIN seen[k] : seen[k][i] \in t .. t + Window - 1})
            <= Limit * (1 + crashes)

\* How often the mails that ask for an intention were posted.
Deliveries(i) ==
    SumFunctionOnSet(tries, {m \in Mails : \E j \in DOMAIN m.cmds : m.cmds[j].id = i})

\* An intention is paid for at most as often as its mail was posted, whoever
\* confirms it and however many confirmations meet: a batch that is refused
\* midway and posted again, or posted twice, runs again (server.ts:330-343).
PaidAsDelivered == \A i \in Id : paid[i] <= Deliveries(i)

Airtime == {i \in Id : \E m \in Mails : [op |-> "topup", id |-> i] \in Range(m.cmds)}

\* Airtime that was delivered is paid for, refunds taken off, unless the answer
\* of the provider was lost: then it is refunded all the same (airtime.ts:139-172).
AirtimeIsPaidFor == aired - unheard <= SumFunctionOnSet(paid, Airtime)

\* A call or an agent's delivery confirms the request it made, whatever was left
\* in the session before, unless another one worked in the same session beside
\* it: all agents share the operator's (x402.ts:392-395).
ConfirmsItsOwn == strayed \subseteq met
=============================================================================
