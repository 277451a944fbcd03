------------------------------ MODULE Accounts -------------------------------
(***************************************************************************)
(* Who an account is: the users row of each phone (name, PIN, wallet,      *)
(* failures and lock, recovery code, tier), the name registry, the links   *)
(* of chats to phones, and the commands that read and write them.  A       *)
(* command reads the user row once, when it has made sure that there is    *)
(* one, and then works on what it has read; every statement is a step of   *)
(* its own, and commands of one phone may run at the same time.            *)
(*                                                                         *)
(* Left out: demo mode, the old tg: accounts (a chat is asked for its      *)
(* phone before a wallet is made), what a confirmed request does           *)
(* (Spending, Standing) and the release of claims on a first PIN (Escrow). *)
(***************************************************************************)
EXTENDS Integers, FiniteSets

CONSTANTS
    Caller,     \* commands that can run at the same time
    Phone, Chat, Label, Pin,
    MaxFails,   \* PIN_MAX_FAILS
    Menus,      \* what a behaviour uses: commands, events, and the state it starts from
    None,
    MaxCrash    \* bound of the model

ASSUME AccountsAssumption ==
    /\ MaxFails \in Nat \ {0} /\ MaxCrash \in Nat
    /\ IsFiniteSet(Caller) /\ Caller # {} /\ IsFiniteSet(Phone)
    /\ None \notin Phone \cup Label \cup Pin \cup Chat

VARIABLES
    menu,     \* what this behaviour uses (one of Menus)
    h,        \* the command each caller is in the middle of
    users,    \* the users table: a row, or NoUser
    names,    \* hotline_names: the phone a label belongs to
    links,    \* account_links: the phone a chat belongs to
    pend,     \* the kind of request parked in the session of a phone
    begun,    \* commands begun so far
    minted,   \* wallets created so far
    codes,    \* recovery codes handed out so far
    crashes,
    \* history, read by the properties only
    calm,     \* phones whose commands have not overlapped and were not cut off
    told,     \* deposit addresses a phone was told
    chosen,   \* the PIN a phone chose last
    wrong,    \* wrong PINs dealt with in a confirmation since the counter was reset
    lapsed,   \* whether the lock has run out since the counter was written
    slips,    \* of these PINs, how many were overtaken on their way to the counter, or cut off
    uses,     \* how many PIN resets each recovery code has paid for
    bounced   \* phones for which a unique index refused a checked insert

tables == <<users, names, links, pend>>
counts == <<wrong, lapsed, slips>>
ghosts == <<told, chosen, counts, uses, bounced>>
vars   == <<menu, h, tables, begun, minted, codes, crashes, calm, ghosts>>

NoUser == [known |-> FALSE]
NewUser(wallet, named) ==
    [known |-> TRUE, named |-> named, pin |-> None, wallet |-> wallet, fails |-> 0,
     locked |-> FALSE, code |-> 0, aged |-> FALSE, tier |-> 0, sim |-> "none",
     label |-> None, cool |-> FALSE]
User == [known : {TRUE}, named : BOOLEAN, pin : Pin \cup {None}, wallet : Nat,
         fails : Nat, locked : BOOLEAN, code : Nat, aged : BOOLEAN, tier : 0 .. 2,
         sim : {"none", "pending", "attested", "failed"}, label : Label \cup {None},
         cool : BOOLEAN]

\* A behaviour starts from accounts that have been set up and nothing more, each
\* with a wallet of its own.
ASSUME MenusAssumption == \A m \in Menus :
    /\ m.commands \in Nat
    /\ m.links \in [Chat -> Phone \cup {None}]
    /\ m.users \in [Phone -> User \cup {NoUser}]
    /\ \A p \in Phone : m.users[p].known =>
           \E i \in 1 .. Cardinality({q \in Phone : m.users[q].known}), pin \in Pin :
               m.users[p] = [NewUser(i, TRUE) EXCEPT !.pin = pin]

Pending == {"none", "naming", "pay", "policy", "standing"}
Onboarded(user) == user.named /\ user.pin # None

\* A command at work: its next step, what it was asked, and what it has read.
Idle == [pc |-> "idle", does |-> "none", phone |-> None, pin |-> None, old |-> None,
         code |-> 0, label |-> None, chat |-> None, kind |-> "none", user |-> NoUser, n |-> 0]

Init ==
    /\ menu \in Menus
    /\ h = [c \in Caller |-> Idle]
    /\ users = menu.users /\ links = menu.links
    /\ names = [l \in Label |-> None]
    /\ pend = [p \in Phone |-> "none"]
    /\ begun = 0 /\ codes = 0 /\ crashes = 0
    /\ minted = Cardinality({p \in Phone : users[p].known})
    /\ calm = [p \in Phone |-> TRUE]
    /\ told = [p \in Phone |-> {}]
    /\ chosen = [p \in Phone |-> IF users[p].known THEN users[p].pin ELSE None]
    /\ wrong = [p \in Phone |-> 0] /\ slips = [p \in Phone |-> 0]
    /\ lapsed = [p \in Phone |-> FALSE]
    /\ uses = [i \in 1 .. menu.commands |-> 0]
    /\ bounced = {}

Busy(p) == {c \in Caller : h[c].phone = p}

-----------------------------------------------------------------------------
(* Commands begin. *)

\* Commands meet when they are of one phone, or both claim a name.
Met(c, task) == {d \in Caller \ {c} : \/ h[d].phone = task.phone
                                      \/ h[d].does = "claim_name" /\ task.does = "claim_name"}

\* The session row has been read: while a name is awaited, whatever is said is
\* taken for a name.
Start(c, task) ==
    /\ task.does \in menu.does /\ begun < menu.commands
    /\ h[c].pc = "idle"
    /\ task.does \in {"call", "name", "link"} \/ pend[task.phone] # "naming"
    /\ h' = [h EXCEPT ![c] = [task EXCEPT !.pc = "meet"]]
    /\ begun' = begun + 1
    /\ calm' = [p \in Phone |-> calm[p] /\ (Met(c, task) = {}
                    \/ p \notin {task.phone} \cup {h[d].phone : d \in Met(c, task)})]
    /\ UNCHANGED <<menu, tables, minted, codes, crashes, ghosts>>

Task(does, p) == [Idle EXCEPT !.does = does, !.phone = p]

\* A call, or "hello"; a first name; "join ..., I am ..."; an ID; an attestation.
Say(c) == \E does \in {"call", "name", "join", "recover_pin", "verify_id", "attest_live",
                       "attest_mock"}, p \in Phone : Start(c, Task(does, p))
SetPin(c) == \E p \in Phone, pin \in Pin : Start(c, [Task("set_pin", p) EXCEPT !.pin = pin])
ChangePin(c) == \E p \in Phone, old, pin \in Pin :
    Start(c, [Task("change_pin", p) EXCEPT !.old = old, !.pin = pin])
RecoverConfirm(c) == \E p \in Phone, pin \in Pin, code \in 1 .. codes :
    Start(c, [Task("recover_confirm", p) EXCEPT !.code = code, !.pin = pin])
ClaimName(c) == \E p \in Phone, l \in Label :
    Start(c, [Task("claim_name", p) EXCEPT !.label = l])
LinkTelegram(c) == \E p \in Phone, t \in Chat : Start(c, [Task("link", p) EXCEPT !.chat = t])
\* A request that a confirmation will be asked for.
Ask(c) == \E p \in Phone, kind \in {"pay", "policy", "standing"} :
    /\ kind \in menu.kinds
    /\ Start(c, [Task("ask", p) EXCEPT !.kind = kind])
\* CONFIRM, or the digits alone, and what is parked as it is said.
Confirm(c) == \E p \in Phone, pin \in Pin :
    /\ pend[p] # "none"
    /\ Start(c, [Task("confirm", p) EXCEPT !.pin = pin, !.kind = pend[p]])

-----------------------------------------------------------------------------
(* Making sure there is an account: ensureCaller and ensureWallet. *)

Go(c, pc) == h' = [h EXCEPT ![c].pc = pc]
Leave(c)  == h' = [h EXCEPT ![c] = Idle]
At(c, pc) == h[c].pc = pc

\* What a confirmation does, by what it has read: an account that is locked is
\* turned away, but not when a standing order or a savings lock is confirmed.
Verdict(task, u) ==
    IF task.kind # "standing" /\ ~Onboarded(u) THEN "greet"
    ELSE IF task.kind # "standing" /\ u.locked THEN "idle"
    ELSE IF u.pin # None /\ u.pin = task.pin THEN "forgive"
    ELSE "count"

\* The first step of a command that needs a finished setup.
FirstStep == [ask |-> "park", claim_name |-> "look", verify_id |-> "reread",
              attest_live |-> "lookup", attest_mock |-> "attested"]

\* Where a command goes once it has its user row.
Route(task, u) ==
    CASE task.does = "call" -> "greet"
      [] task.does \in {"name", "join"} -> "name"
      [] task.does = "set_pin" ->
            IF ~u.named THEN "greet" ELSE IF u.pin # None THEN "idle" ELSE "store"
      [] task.does = "change_pin" -> IF u.pin # None /\ u.pin = task.old THEN "store" ELSE "idle"
      [] task.does = "recover_pin" -> IF u.pin = None THEN "idle" ELSE "challenge"
      [] task.does = "recover_confirm" ->
            IF u.code # 0 /\ u.aged THEN "drop"
            ELSE IF u.code # 0 /\ u.code = task.code THEN "store" ELSE "idle"
      [] task.does = "confirm" -> Verdict(task, u)
      [] task.does = "link" -> "unlink"
      [] OTHER -> IF Onboarded(u) THEN FirstStep[task.does] ELSE "greet"

\* The row is in hand.
Proceed(c, u) ==
    IF Route(h[c], u) = "idle" THEN Leave(c)
    ELSE h' = [h EXCEPT ![c].user = u, ![c].pc = Route(h[c], u)]

\* Mutant: a join does not look for the account first.
MeetMints(c) ==
    /\ At(c, "meet")
    /\ LET u == users[h[c].phone]
       IN  \/ (~u.known \/ h[c].does = "join") /\ Go(c, "mint")
           \/ u.known /\ h[c].does # "join" /\ Proceed(c, u)
    /\ UNCHANGED <<menu, tables, begun, minted, codes, crashes, calm, ghosts>>

\* A join under another name writes the row back as it was read, but for the name.
Meet(c) ==
    /\ At(c, "meet")
    /\ LET u == users[h[c].phone]
       IN  \/ ~u.known /\ Go(c, "mint")
           \/ u.known /\ (h[c].does # "join" \/ u.named) /\ Proceed(c, u)
           \/ /\ u.known /\ h[c].does = "join"
              /\ h' = [h EXCEPT ![c].user = [u EXCEPT !.named = TRUE], ![c].pc = "upsert"]
    /\ UNCHANGED <<menu, tables, begun, minted, codes, crashes, calm, ghosts>>

\* The wallet is created (a call to Circle, or a local key), or that fails.
Mint(c) ==
    /\ At(c, "mint")
    /\ \/ /\ minted' = minted + 1
          /\ h' = [h EXCEPT ![c].user = NewUser(minted', h[c].does = "join"), ![c].pc = "upsert"]
       \/ UNCHANGED minted /\ Leave(c)
    /\ UNCHANGED <<menu, tables, begun, codes, crashes, calm, ghosts>>

\* INSERT ... ON CONFLICT DO UPDATE.
Upserted(row, u) ==
    [row EXCEPT !.named = row.named \/ u.named, !.wallet = u.wallet,
                !.pin = IF u.pin = None THEN row.pin ELSE u.pin]

Upsert(c) ==
    /\ At(c, "upsert")
    /\ LET p == h[c].phone
           row == IF users[p].known THEN Upserted(users[p], h[c].user) ELSE h[c].user
       IN  users' = [users EXCEPT ![p] = row] /\ Proceed(c, row)
    /\ UNCHANGED <<menu, names, links, pend, begun, minted, codes, crashes, calm, ghosts>>

-----------------------------------------------------------------------------
(* Onboarding. *)

Greet(c) ==
    /\ At(c, "greet")
    /\ pend' = [pend EXCEPT ![h[c].phone] =
           IF ~h[c].user.named THEN "naming" ELSE IF h[c].user.pin = None THEN @ ELSE "none"]
    /\ Leave(c)
    /\ UNCHANGED <<menu, users, names, links, begun, minted, codes, crashes, calm, ghosts>>

SetUserName(c) ==
    /\ At(c, "name")
    /\ users' = [users EXCEPT ![h[c].phone].named = TRUE]
    /\ Go(c, "clear")
    /\ UNCHANGED <<menu, names, links, pend, begun, minted, codes, crashes, calm, ghosts>>

\* The row that the end of the PIN setup quotes the deposit address from.
ReadBack(c) ==
    /\ At(c, "readback")
    /\ h' = [h EXCEPT ![c].user = users[h[c].phone], ![c].pc = "clear"]
    /\ UNCHANGED <<menu, tables, begun, minted, codes, crashes, calm, ghosts>>

\* setPending(null), and what is told afterwards.
Clear(c) ==
    /\ At(c, "clear")
    /\ pend' = [pend EXCEPT ![h[c].phone] = "none"]
    /\ told' = IF h[c].does = "set_pin"
               THEN [told EXCEPT ![h[c].phone] = @ \cup {h[c].user.wallet}] ELSE told
    /\ Leave(c)
    /\ UNCHANGED <<menu, users, names, links, begun, minted, codes, crashes, calm,
                   chosen, counts, uses, bounced>>

-----------------------------------------------------------------------------
(* PINs: setPin, recordPinFailure, clearPinFailures, recovery. *)

Unfailed(row) == [row EXCEPT !.fails = 0, !.locked = FALSE]
CountsAnew(p) == /\ wrong' = [wrong EXCEPT ![p] = 0] /\ slips' = [slips EXCEPT ![p] = 0]
                 /\ lapsed' = [lapsed EXCEPT ![p] = FALSE]

\* setPin.
Store(c) ==
    /\ At(c, "store")
    /\ LET p == h[c].phone
       IN  /\ users' = [users EXCEPT ![p] = [Unfailed(@) EXCEPT !.pin = h[c].pin]]
           /\ chosen' = [chosen EXCEPT ![p] = h[c].pin]
           /\ CountsAnew(p)
           /\ uses' = IF h[c].does = "recover_confirm"
                      THEN [uses EXCEPT ![h[c].code] = @ + 1] ELSE uses
    /\ Go(c, CASE h[c].does = "set_pin"    -> "readback"
               [] h[c].does = "change_pin" -> "forgive"
               [] OTHER                    -> "drop")
    /\ UNCHANGED <<menu, names, links, pend, begun, minted, codes, crashes, calm, told, bounced>>

\* clearPinFailures.  What was confirmed with the PIN is carried out and leaves
\* the session, or fails and stays parked.
Forgive(c) ==
    /\ At(c, "forgive")
    /\ users' = [users EXCEPT ![h[c].phone] = Unfailed(@)]
    /\ CountsAnew(h[c].phone)
    /\ \/ h[c].does = "recover_confirm" /\ Go(c, "cool")
       \/ h[c].does = "confirm" /\ Go(c, "clear")
       \/ h[c].does # "recover_confirm" /\ Leave(c)
    /\ UNCHANGED <<menu, names, links, pend, begun, minted, codes, crashes, calm,
                   told, chosen, uses, bounced>>

\* recordPinFailure reads the row and writes the counter and the lock from it.
CountFailure(c) ==
    /\ At(c, "count")
    /\ h' = [h EXCEPT ![c].n = users[h[c].phone].fails, ![c].pc = "mark"]
    /\ UNCHANGED <<menu, tables, begun, minted, codes, crashes, calm, ghosts>>

\* Mutant: one more wrong PIN is let by.
LocksAtLate(n) == n > MaxFails

LocksAt(n) == n >= MaxFails

MarkFailure(c) ==
    /\ At(c, "mark")
    /\ LET p == h[c].phone
           n == h[c].n + 1
       IN  /\ users' = [users EXCEPT ![p].fails = n, ![p].locked = LocksAt(n)]
           /\ wrong' = [wrong EXCEPT ![p] = @ + 1]
           /\ lapsed' = [lapsed EXCEPT ![p] = FALSE]
           /\ slips' = IF users[p].fails = h[c].n THEN slips ELSE [slips EXCEPT ![p] = @ + 1]
    /\ IF h[c].kind = "pay" THEN Go(c, "recheck") ELSE Leave(c)
    /\ UNCHANGED <<menu, names, links, pend, begun, minted, codes, crashes, calm,
                   told, chosen, uses, bounced>>

\* A payment is cancelled when the failure has locked the account.
Recheck(c) ==
    /\ At(c, "recheck")
    /\ IF users[h[c].phone].locked THEN Go(c, "clear") ELSE Leave(c)
    /\ UNCHANGED <<menu, tables, begun, minted, codes, crashes, calm, ghosts>>

\* RECOVER PIN: a new code replaces the one before it.
Challenge(c) ==
    /\ At(c, "challenge")
    /\ codes' = codes + 1
    /\ users' = [users EXCEPT ![h[c].phone].code = codes', ![h[c].phone].aged = FALSE]
    /\ Leave(c)
    /\ UNCHANGED <<menu, names, links, pend, begun, minted, crashes, calm, ghosts>>

\* Mutant: only an aged code is dropped.
DropCodeAged(c) ==
    /\ At(c, "drop")
    /\ users' = IF h[c].user.aged THEN [users EXCEPT ![h[c].phone].code = 0] ELSE users
    /\ IF h[c].user.aged THEN Leave(c) ELSE Go(c, "forgive")
    /\ UNCHANGED <<menu, names, links, pend, begun, minted, codes, crashes, calm, ghosts>>

\* clearRecoveryChallenge, of an aged code or of one that has just been used.
DropCode(c) ==
    /\ At(c, "drop")
    /\ users' = [users EXCEPT ![h[c].phone].code = 0, ![h[c].phone].aged = FALSE]
    /\ IF h[c].user.aged THEN Leave(c) ELSE Go(c, "forgive")
    /\ UNCHANGED <<menu, names, links, pend, begun, minted, codes, crashes, calm, ghosts>>

CoolDown(c) ==
    /\ At(c, "cool")
    /\ users' = [users EXCEPT ![h[c].phone].cool = TRUE]
    /\ Leave(c)
    /\ UNCHANGED <<menu, names, links, pend, begun, minted, codes, crashes, calm, ghosts>>

Park(c) ==
    /\ At(c, "park")
    /\ pend' = [pend EXCEPT ![h[c].phone] = h[c].kind]
    /\ Leave(c)
    /\ UNCHANGED <<menu, users, names, links, begun, minted, codes, crashes, calm, ghosts>>

-----------------------------------------------------------------------------
(* Names, links, identity. *)

Look(c) ==
    /\ At(c, "look")
    /\ IF names[h[c].label] \in {None, h[c].phone} THEN Go(c, "register") ELSE Leave(c)
    /\ UNCHANGED <<menu, tables, begun, minted, codes, crashes, calm, ghosts>>

\* Another claim of the phone is in its transaction: whoever comes second finds a
\* row of the phone that its own DELETE did not see.
Collides(c) == \E d \in Busy(h[c].phone) \ {c} : At(d, "register")

\* Mutant: the phone's older label stays in the registry.
RegisterBeside(c) ==
    /\ At(c, "register")
    /\ LET p == h[c].phone
           l == h[c].label
       IN  \/ /\ names[l] \in {None, p}
              /\ names' = [names EXCEPT ![l] = p]
              /\ users' = [users EXCEPT ![p].label = l]
              /\ UNCHANGED bounced
           \/ /\ names[l] \notin {None, p} \/ Collides(c)
              /\ bounced' = bounced \cup {p} /\ UNCHANGED <<names, users>>
    /\ Leave(c)
    /\ UNCHANGED <<menu, links, pend, begun, minted, codes, crashes, calm,
                   told, chosen, counts, uses>>

\* One transaction: drop the phone's labels, insert the new one, note it in the
\* user row.  The keys of the table refuse a label that is taken by now, and a
\* second label of the phone.
Register(c) ==
    /\ At(c, "register")
    /\ LET p == h[c].phone
           l == h[c].label
       IN  \/ /\ names[l] \in {None, p}
              /\ names' = [m \in Label |-> IF m = l THEN p
                                           ELSE IF names[m] = p THEN None ELSE names[m]]
              /\ users' = [users EXCEPT ![p].label = l]
              /\ UNCHANGED bounced
           \/ /\ names[l] \notin {None, p} \/ Collides(c)
              /\ bounced' = bounced \cup {p} /\ UNCHANGED <<names, users>>
    /\ Leave(c)
    /\ UNCHANGED <<menu, links, pend, begun, minted, codes, crashes, calm,
                   told, chosen, counts, uses>>

\* Mutant: the phone's chat is not dropped.
UnlinkNothing(c) ==
    /\ At(c, "unlink")
    /\ Go(c, "link")
    /\ UNCHANGED <<menu, tables, begun, minted, codes, crashes, calm, ghosts>>

\* linkChannelAccount: the phone's chat is dropped, then this one is put in its
\* place; the index on the phone refuses a second chat.
Unlink(c) ==
    /\ At(c, "unlink")
    /\ links' = [t \in Chat |-> IF links[t] = h[c].phone THEN None ELSE links[t]]
    /\ Go(c, "link")
    /\ UNCHANGED <<menu, users, names, pend, begun, minted, codes, crashes, calm, ghosts>>

Link(c) ==
    /\ At(c, "link")
    /\ LET p == h[c].phone
           t == h[c].chat
       IN  IF \E s \in Chat \ {t} : links[s] = p
           THEN bounced' = bounced \cup {p} /\ UNCHANGED links /\ Leave(c)
           ELSE /\ links' = [links EXCEPT ![t] = p]
                /\ IF pend[p] = "naming" THEN Leave(c)
                   ELSE h' = [h EXCEPT ![c] = [Task("call", p) EXCEPT !.pc = "meet"]]
                /\ UNCHANGED bounced
    /\ UNCHANGED <<menu, users, names, pend, begun, minted, codes, crashes, calm,
                   told, chosen, counts, uses>>

\* verifyNationalId reads the tier again and writes what it makes of it.
Reread(c) ==
    /\ At(c, "reread")
    /\ h' = [h EXCEPT ![c].user = users[h[c].phone], ![c].pc = "grade"]
    /\ UNCHANGED <<menu, tables, begun, minted, codes, crashes, calm, ghosts>>

\* Mutant: the tier is raised by one.
GradeRaises(c) ==
    /\ At(c, "grade")
    /\ users' = [users EXCEPT ![h[c].phone].tier = h[c].user.tier + 1]
    /\ Leave(c)
    /\ UNCHANGED <<menu, names, links, pend, begun, minted, codes, crashes, calm, ghosts>>

\* Mutant: the tier of an ID replaces a higher one.
GradeSetsOne(c) ==
    /\ At(c, "grade")
    /\ users' = [users EXCEPT ![h[c].phone].tier = 1]
    /\ Leave(c)
    /\ UNCHANGED <<menu, names, links, pend, begun, minted, codes, crashes, calm, ghosts>>

Grade(c) ==
    /\ At(c, "grade")
    /\ users' = [users EXCEPT ![h[c].phone].tier = IF h[c].user.tier > 1 THEN h[c].user.tier ELSE 1]
    /\ Leave(c)
    /\ UNCHANGED <<menu, names, links, pend, begun, minted, codes, crashes, calm, ghosts>>

\* attestSim with a live provider: pending while it is asked.
Lookup(c) ==
    /\ At(c, "lookup")
    /\ users' = [users EXCEPT ![h[c].phone].sim = "pending"]
    /\ Go(c, "attested") \/ Go(c, "refused")
    /\ UNCHANGED <<menu, names, links, pend, begun, minted, codes, crashes, calm, ghosts>>

Attested(c) ==
    /\ At(c, "attested")
    /\ users' = [users EXCEPT ![h[c].phone].sim = "attested", ![h[c].phone].tier = 2]
    /\ Leave(c)
    /\ UNCHANGED <<menu, names, links, pend, begun, minted, codes, crashes, calm, ghosts>>

Refused(c) ==
    /\ At(c, "refused")
    /\ users' = [users EXCEPT ![h[c].phone].sim = "failed"]
    /\ Leave(c)
    /\ UNCHANGED <<menu, names, links, pend, begun, minted, codes, crashes, calm, ghosts>>

-----------------------------------------------------------------------------
(* What happens around the commands. *)

LockPasses(p) ==
    /\ "lock_passes" \in menu.does
    /\ users[p].known /\ users[p].locked
    /\ users' = [users EXCEPT ![p].locked = FALSE]
    /\ lapsed' = [lapsed EXCEPT ![p] = TRUE]
    /\ UNCHANGED <<menu, h, names, links, pend, begun, minted, codes, crashes, calm,
                   told, chosen, wrong, slips, uses, bounced>>

CodeAges(p) ==
    /\ "code_ages" \in menu.does
    /\ users[p].known /\ users[p].code # 0 /\ ~users[p].aged
    /\ users' = [users EXCEPT ![p].aged = TRUE]
    /\ UNCHANGED <<menu, h, names, links, pend, begun, minted, codes, crashes, calm, ghosts>>

\* The process dies in the middle of a command.
Crash(c) ==
    /\ "crash" \in menu.does /\ crashes < MaxCrash
    /\ h[c].pc # "idle"
    /\ crashes' = crashes + 1
    /\ calm' = [calm EXCEPT ![h[c].phone] = FALSE]
    /\ IF h[c].pc \in {"count", "mark"}
       THEN /\ wrong' = [wrong EXCEPT ![h[c].phone] = @ + 1]
            /\ slips' = [slips EXCEPT ![h[c].phone] = @ + 1]
       ELSE UNCHANGED <<wrong, slips>>
    /\ Leave(c)
    /\ UNCHANGED <<menu, tables, begun, minted, codes, told, chosen, lapsed, uses, bounced>>

Command(c) ==
    \/ Say(c) \/ SetPin(c) \/ ChangePin(c) \/ RecoverConfirm(c) \/ ClaimName(c)
    \/ LinkTelegram(c) \/ Ask(c) \/ Confirm(c)
Step(c) ==
    \/ Meet(c) \/ Mint(c) \/ Upsert(c) \/ Greet(c) \/ SetUserName(c) \/ ReadBack(c)
    \/ Clear(c) \/ Store(c) \/ Forgive(c) \/ CountFailure(c) \/ MarkFailure(c)
    \/ Recheck(c) \/ Challenge(c) \/ DropCode(c) \/ CoolDown(c) \/ Park(c)
    \/ Look(c) \/ Register(c) \/ Unlink(c) \/ Link(c)
    \/ Reread(c) \/ Grade(c) \/ Lookup(c) \/ Attested(c) \/ Refused(c)

Next ==
    \/ \E c \in Caller : Command(c) \/ Step(c) \/ Crash(c)
    \/ \E p \in Phone : LockPasses(p) \/ CodeAges(p)

Spec == Init /\ [][Next]_vars

-----------------------------------------------------------------------------
(* Properties. *)

TypeOK ==
    /\ users \in [Phone -> User \cup {NoUser}]
    /\ names \in [Label -> Phone \cup {None}]
    /\ links \in [Chat -> Phone \cup {None}]
    /\ pend \in [Phone -> Pending]
    /\ minted \in Nat /\ codes \in 0 .. begun /\ begun \in 0 .. menu.commands
    /\ \A c \in Caller : (h[c].pc = "idle" <=> h[c] = Idle) /\ h[c].phone \in Phone \cup {None}
    /\ \A c \in Caller : h[c].user \in User \cup {NoUser}
    /\ calm \in [Phone -> BOOLEAN]
    /\ \A p \in Phone : users[p].known => users[p].wallet \in 1 .. minted

\* The registry of names and the user rows say the same, whatever claims run
\* beside each other (db.ts:813-835).
NamesAgree ==
    \A p \in Phone, l \in Label : names[l] = p <=> users[p].known /\ users[p].label = l

\* As long as a phone's commands do not overlap, no command undoes another: the
\* PIN is the one chosen last, and money sent to the address the phone was told
\* reaches its wallet.  Overlapping first contacts create a wallet each and the
\* last one stays (wallets.ts:129-167).
NothingIsUndone ==
    \A p \in Phone : calm[p] /\ users[p].known =>
        users[p].pin = chosen[p] /\ told[p] \subseteq {users[p].wallet}

\* Every wrong PIN of a confirmation is counted, and a phone is locked once
\* MaxFails of them came in a row and not before, until the lock has run out,
\* whatever runs beside: joins, recoveries, names, grades.  Only a count that another
\* count or a right PIN overtook between its two statements (db.ts:475-488), or that
\* was cut off, puts it wrong; such a count may lift a lock, too.
FailuresCounted ==
    \A p \in Phone : users[p].known /\ slips[p] = 0 =>
        /\ users[p].fails = wrong[p]
        /\ users[p].locked \/ lapsed[p] <=> wrong[p] >= MaxFails

\* A recovery code resets the PIN once, or once per command that read it before
\* it was dropped, or once more after a crash between the two (pipeline.ts:431-437).
CodeSpentOnce ==
    \A i \in DOMAIN uses : uses[i] <= Cardinality(Caller) + crashes

\* A claim that found its name free, and a link that dropped the phone's chat,
\* are refused by the index only when another one came in between.
RefusedOnlyOverlapped == \A p \in bounced : ~calm[p]

\* A phone whose SIM is attested is of tier 2, unless an ID recorded at the same
\* time has written back the tier it read before (identity.ts:91-97).
AttestedIsTier2 ==
    \A p \in Phone : calm[p] /\ users[p].known /\ users[p].sim = "attested" => users[p].tier = 2
=============================================================================
