---------------------------- MODULE AccountsProofs ----------------------------
(***************************************************************************)
(* Accounts, for every set of callers, phones, chats, labels and PINs, and  *)
(* every menu of commands.                                                  *)
(***************************************************************************)
EXTENDS Accounts, TLAPS, FiniteSetTheorems

-----------------------------------------------------------------------------
(* Types: what a command has at each step. *)

Doing == {"none", "call", "name", "join", "set_pin", "change_pin", "recover_pin",
          "recover_confirm", "claim_name", "link", "ask", "confirm",
          "verify_id", "attest_live", "attest_mock"}
Steps == {"idle", "meet", "mint", "upsert", "greet", "name", "readback", "clear", "store",
          "forgive", "count", "mark", "recheck", "challenge", "drop", "cool", "park", "look",
          "register", "unlink", "link", "reread", "grade", "lookup", "attested", "refused"}
Work == [pc : Steps, does : Doing, phone : Phone \cup {None}, pin : Pin \cup {None},
         old : Pin \cup {None}, code : Nat, label : Label \cup {None},
         chat : Chat \cup {None}, kind : Pending, user : User \cup {NoUser}, n : Nat]

\* The steps a command takes once there is a user row.
Plan(does) ==
  CASE does \in {"name", "join"}  -> {"name", "clear"}
    [] does = "set_pin"           -> {"store", "readback", "clear"}
    [] does = "change_pin"        -> {"store", "forgive"}
    [] does = "recover_pin"       -> {"challenge"}
    [] does = "recover_confirm"   -> {"drop", "store", "forgive", "cool"}
    [] does = "confirm"           -> {"forgive", "count", "mark", "recheck", "clear"}
    [] does = "ask"               -> {"park"}
    [] does = "claim_name"        -> {"look", "register"}
    [] does = "link"              -> {"unlink", "link"}
    [] does = "verify_id"         -> {"reread", "grade"}
    [] does = "attest_live"       -> {"lookup", "attested", "refused"}
    [] does = "attest_mock"       -> {"attested"}
    [] OTHER                      -> {}

\* A command that was begun: its inputs, and the step it is at.  co codes have
\* been handed out.
TaskOK(t, co) ==
  /\ t.does # "none" /\ t.phone \in Phone
  /\ t.does \in {"set_pin", "change_pin", "recover_confirm", "confirm"} => t.pin \in Pin
  /\ t.does = "recover_confirm" => t.code \in 1 .. co
  /\ t.does = "claim_name" => t.label \in Label
  /\ t.does = "link" => t.chat \in Chat
  /\ t.pc \in {"meet", "mint", "upsert", "greet"} \cup Plan(t.does)

\* What it has read, in a table us of users and with mi wallets created.
WorkOK(t, us, mi, co) ==
  /\ t.pc = "idle" => t = Idle
  /\ t.pc # "idle" => TaskOK(t, co)
  /\ t.user.known => t.user.wallet \in 1 .. mi /\ t.user.code \in 0 .. co
  /\ t.pc \notin {"idle", "meet", "mint"} => t.user.known
  /\ t.pc \notin {"idle", "meet", "mint", "upsert"} => us[t.phone].known
  /\ t.pc = "upsert" => us[t.phone].known \/ (t.user.label = None /\ t.user.code = 0)

\* The rows of the users table.
UsersOK(us, mi, co) ==
  /\ us \in [Phone -> User \cup {NoUser}]
  /\ \A p \in Phone : us[p].known => us[p].wallet \in 1 .. mi /\ us[p].code \in 0 .. co

RestOK ==
  /\ menu \in Menus
  /\ names \in [Label -> Phone \cup {None}] /\ links \in [Chat -> Phone \cup {None}]
  /\ pend \in [Phone -> Pending]
  /\ begun \in 0 .. menu.commands /\ minted \in Nat /\ codes \in Nat
  /\ crashes \in 0 .. MaxCrash
  /\ calm \in [Phone -> BOOLEAN] /\ told \in [Phone -> SUBSET Nat]
  /\ chosen \in [Phone -> Pin \cup {None}] /\ wrong \in [Phone -> Nat]
  /\ slips \in [Phone -> Nat] /\ lapsed \in [Phone -> BOOLEAN]
  /\ uses \in [1 .. menu.commands -> Nat] /\ bounced \subseteq Phone

TypeInv ==
  /\ RestOK
  /\ UsersOK(users, minted, codes)
  /\ h \in [Caller -> Work]
  /\ \A c \in Caller : WorkOK(h[c], users, minted, codes)

\* A row is a user if and only if it is known.
LEMMA KnownIsUser ==
  ASSUME NEW u \in User \cup {NoUser}
  PROVE  /\ u.known \in BOOLEAN /\ (u.known <=> u \in User)
         /\ NoUser \notin User /\ ~NoUser.known /\ (~u.known => u = NoUser)
<1>1. ~NoUser.known
  BY DEF NoUser
<1>2. \A w \in User : w.known = TRUE
  BY DEF User
<1>3. NoUser \notin User
  BY <1>1, <1>2
<1>4. CASE u \in User
  BY <1>1, <1>2, <1>3, <1>4
<1>5. CASE u = NoUser
  <2>1. u.known = FALSE
    BY <1>5 DEF NoUser
  <2>2. QED BY <1>1, <1>3, <1>5, <2>1
<1>6. QED BY <1>4, <1>5

\* The row of a new user.
LEMMA NewUserTyped ==
  ASSUME NEW wallet \in Nat, NEW named \in BOOLEAN
  PROVE  /\ NewUser(wallet, named) \in User /\ NewUser(wallet, named).known
         /\ NewUser(wallet, named).wallet = wallet /\ NewUser(wallet, named).code = 0
         /\ NewUser(wallet, named).label = None /\ NewUser(wallet, named).pin = None
         /\ NewUser(wallet, named).fails = 0 /\ ~NewUser(wallet, named).locked
         /\ NewUser(wallet, named).sim = "none" /\ ~NewUser(wallet, named).aged
  BY DEF NewUser, User

\* A caller with nothing to do.
LEMMA IdleTyped == Idle \in Work /\ Idle.pc = "idle" /\ Idle.phone = None /\ Idle.user = NoUser
                   /\ Idle.does = "none"
  BY DEF Idle, Work, Steps, Doing, Pending

\* The steps of a plan are steps, and tell what the command does.
LEMMA PlanSays ==
  ASSUME NEW does \in Doing
  PROVE  /\ Plan(does) \subseteq Steps \ {"idle", "meet", "mint", "upsert", "greet"}
         /\ "name" \in Plan(does) => does \in {"name", "join"}
         /\ "store" \in Plan(does) => does \in {"set_pin", "change_pin", "recover_confirm"}
         /\ "readback" \in Plan(does) => does = "set_pin"
         /\ "drop" \in Plan(does) => does = "recover_confirm"
         /\ ("register" \in Plan(does) \/ "look" \in Plan(does)) => does = "claim_name"
         /\ ("unlink" \in Plan(does) \/ "link" \in Plan(does)) => does = "link"
         /\ ("count" \in Plan(does) \/ "mark" \in Plan(does) \/ "recheck" \in Plan(does))
              => does = "confirm"
  BY DEF Plan, Doing, Steps

\* Where a command goes is a step of its plan.
LEMMA RouteTyped ==
  ASSUME NEW t \in Work, t.does # "none", NEW u \in User
  PROVE  /\ Route(t, u) \in {"idle", "greet"} \cup Plan(t.does)
         /\ Route(t, u) \in Steps \ {"meet", "mint", "upsert"}
<1>1. t.does \in Doing
  BY DEF Work
<1>2. Route(t, u) \in {"idle", "greet"} \cup Plan(t.does)
  <2>1. CASE t.does \in {"call", "name", "join", "set_pin", "change_pin", "recover_pin",
                         "recover_confirm", "link"}
    BY <2>1 DEF Route, Plan
  <2>2. CASE t.does = "confirm"
    BY <2>2 DEF Route, Plan, Verdict
  <2>3. CASE t.does \in {"ask", "claim_name", "verify_id", "attest_live", "attest_mock"}
    BY <2>3 DEF Route, Plan, FirstStep
  <2>4. QED BY <1>1, <2>1, <2>2, <2>3 DEF Doing
<1>3. QED BY <1>1, <1>2, PlanSays DEF Steps

\* The rows a behaviour starts from.
LEMMA StartingRows ==
  ASSUME Init
  PROVE  /\ menu \in Menus /\ menu.commands \in Nat /\ minted \in Nat
         /\ users \in [Phone -> User \cup {NoUser}] /\ links \in [Chat -> Phone \cup {None}]
         /\ \A p \in Phone : users[p].known =>
              /\ users[p].wallet \in 1 .. minted /\ users[p].code = 0 /\ users[p].pin \in Pin
              /\ users[p].label = None /\ users[p].fails = 0 /\ ~users[p].locked
              /\ users[p].sim = "none"
<1> DEFINE top == Cardinality({q \in Phone : menu.users[q].known})
<1>1. menu \in Menus
  BY DEF Init
<1>2. /\ menu.commands \in Nat /\ menu.links \in [Chat -> Phone \cup {None}]
      /\ menu.users \in [Phone -> User \cup {NoUser}]
      /\ \A p \in Phone : menu.users[p].known =>
             \E i \in 1 .. top, pin \in Pin :
                 menu.users[p] = [NewUser(i, TRUE) EXCEPT !.pin = pin]
  BY <1>1, MenusAssumption
<1>3. top \in Nat
  <2>1. IsFiniteSet({p \in Phone : menu.users[p].known})
    BY AccountsAssumption, FS_Subset
  <2>2. QED BY <2>1, FS_CardinalityType
<1>4. users = menu.users /\ links = menu.links /\ minted = top
  BY DEF Init
<1> HIDE DEF top
<1>5. ASSUME NEW i \in 1 .. top, NEW pin \in Pin
      PROVE  LET u == [NewUser(i, TRUE) EXCEPT !.pin = pin]
             IN  /\ u.wallet \in 1 .. minted /\ u.code = 0 /\ u.pin \in Pin
                 /\ u.label = None /\ u.fails = 0 /\ ~u.locked /\ u.sim = "none"
  <2>1. i \in 1 .. minted
    BY <1>4
  <2>2. QED BY <2>1 DEF NewUser
<1>6. ASSUME NEW p \in Phone, users[p].known
      PROVE  /\ users[p].wallet \in 1 .. minted /\ users[p].code = 0 /\ users[p].pin \in Pin
             /\ users[p].label = None /\ users[p].fails = 0 /\ ~users[p].locked
             /\ users[p].sim = "none"
  <2>1. PICK i \in 1 .. top, pin \in Pin : users[p] = [NewUser(i, TRUE) EXCEPT !.pin = pin]
    BY <1>2, <1>4, <1>6
  <2>2. QED BY <1>5, <2>1
<1>7. QED BY <1>1, <1>2, <1>3, <1>4, <1>6

\* It holds before the first command.
LEMMA TypeInit == Init => TypeInv
<1> SUFFICES ASSUME Init PROVE TypeInv
  OBVIOUS
<1>1. UsersOK(users, minted, codes)
  BY StartingRows DEF UsersOK, Init
<1>2. RestOK
  <2>1. \A p \in Phone : users[p].known => users[p].pin \in Pin
    BY StartingRows
  <2>2. chosen \in [Phone -> Pin \cup {None}]
    BY <2>1 DEF Init
  <2>3. menu \in Menus /\ menu.commands \in Nat /\ minted \in Nat
        /\ links \in [Chat -> Phone \cup {None}]
    BY StartingRows
  <2>4. begun \in 0 .. menu.commands /\ crashes \in 0 .. MaxCrash /\ codes \in Nat
    BY <2>3, AccountsAssumption DEF Init
  <2>5. /\ names \in [Label -> Phone \cup {None}] /\ pend \in [Phone -> Pending]
        /\ calm \in [Phone -> BOOLEAN] /\ bounced \subseteq Phone
    BY DEF Init, Pending
  <2>6. told \in [Phone -> SUBSET Nat] /\ wrong \in [Phone -> Nat]
        /\ slips \in [Phone -> Nat] /\ lapsed \in [Phone -> BOOLEAN]
        /\ uses \in [1 .. menu.commands -> Nat]
    BY DEF Init
  <2>7. QED BY <2>2, <2>3, <2>4, <2>5, <2>6 DEF RestOK
<1>3. h \in [Caller -> Work] /\ \A c \in Caller : h[c] = Idle
  BY IdleTyped DEF Init
<1>4. \A c \in Caller : WorkOK(h[c], users, minted, codes)
  <2>1. WorkOK(Idle, users, minted, codes)
    BY DEF WorkOK, Idle, NoUser
  <2>2. QED BY <1>3, <2>1
<1>5. QED BY <1>1, <1>2, <1>3, <1>4 DEF TypeInv

-----------------------------------------------------------------------------
(* Types: what a step changes. *)

\* What is left alone keeps its type.
LEMMA RestSame ==
  ASSUME RestOK,
         UNCHANGED <<menu, names, links, pend, begun, minted, codes, crashes, calm, ghosts>>
  PROVE  RestOK'
  BY DEF RestOK, ghosts, counts

\* One caller moves, and no user is forgotten.
LEMMA StepTyped ==
  ASSUME TypeInv, NEW c \in Caller, NEW t \in Work, h' = [h EXCEPT ![c] = t],
         WorkOK(t, users', minted', codes'), RestOK', UsersOK(users', minted', codes'),
         minted <= minted', codes <= codes',
         \A p \in Phone : users[p].known => users'[p].known
  PROVE  TypeInv'
<1>1. h' \in [Caller -> Work]
  BY DEF TypeInv
<1>2. minted \in Nat /\ codes \in Nat /\ minted' \in Nat /\ codes' \in Nat
  BY DEF TypeInv, RestOK
<1>3. ASSUME NEW d \in Caller
      PROVE  WorkOK(h'[d], users', minted', codes')
  <2>1. CASE d = c
    BY <2>1 DEF TypeInv
  <2>2. CASE d # c
    <3>1. h'[d] = h[d]
      BY <2>2 DEF TypeInv
    <3>2. WorkOK(h[d], users, minted, codes) /\ h[d] \in Work
      BY DEF TypeInv
    <3>3. TaskOK(h[d], codes) => TaskOK(h[d], codes')
      BY <1>2, <3>2 DEF TaskOK, Work
    <3>4. h[d].user.known => h[d].user.wallet \in 1 .. minted' /\ h[d].user.code \in 0 .. codes'
      BY <1>2, <3>2 DEF WorkOK
    <3>5. h[d].pc # "idle" => h[d].phone \in Phone
      BY <3>2 DEF WorkOK, TaskOK
    <3>6. QED BY <3>1, <3>2, <3>3, <3>4, <3>5 DEF WorkOK
  <2>3. QED BY <2>1, <2>2
<1>4. QED BY <1>1, <1>3 DEF TypeInv

\* One row is written.
LEMMA RowTyped ==
  ASSUME TypeInv, RestOK', NEW p \in Phone, NEW r \in User,
         users' = [users EXCEPT ![p] = r],
         r.wallet \in 1 .. minted', r.code \in 0 .. codes', minted <= minted', codes <= codes'
  PROVE  /\ UsersOK(users', minted', codes')
         /\ users'[p] = r /\ users'[p].known
         /\ \A q \in Phone : users[q].known => users'[q].known
<1>1. minted \in Nat /\ codes \in Nat /\ minted' \in Nat /\ codes' \in Nat
  BY DEF TypeInv, RestOK
<1>2. users \in [Phone -> User \cup {NoUser}] /\ r.known
  BY DEF TypeInv, UsersOK, User
<1>3. users'[p] = r /\ \A q \in Phone \ {p} : users'[q] = users[q]
  BY <1>2
<1>4. users' \in [Phone -> User \cup {NoUser}]
  BY <1>2
<1>5. ASSUME NEW q \in Phone, users'[q].known
      PROVE  users'[q].wallet \in 1 .. minted' /\ users'[q].code \in 0 .. codes'
  <2>1. CASE q = p
    BY <1>3, <2>1
  <2>2. CASE q # p
    BY <1>1, <1>3, <1>5, <2>2 DEF TypeInv, UsersOK
  <2>3. QED BY <2>1, <2>2
<1>6. QED BY <1>2, <1>3, <1>4, <1>5 DEF UsersOK

\* No row is written.
LEMMA UsersSame ==
  ASSUME TypeInv, RestOK', UNCHANGED users, minted <= minted', codes <= codes'
  PROVE  UsersOK(users', minted', codes')
<1>1. minted \in Nat /\ codes \in Nat /\ minted' \in Nat /\ codes' \in Nat
  BY DEF TypeInv, RestOK
<1>2. QED BY <1>1 DEF TypeInv, UsersOK

\* A command ends.
LEMMA LeaveTyped ==
  ASSUME TypeInv, NEW c \in Caller, Leave(c), RestOK', UsersOK(users', minted', codes'),
         minted <= minted', codes <= codes',
         \A p \in Phone : users[p].known => users'[p].known
  PROVE  TypeInv'
<1>1. WorkOK(Idle, users', minted', codes')
  BY DEF WorkOK, Idle, NoUser
<1>2. QED BY <1>1, IdleTyped, StepTyped DEF Leave

\* What a caller has at a step after the row was read.
LEMMA AtWork ==
  ASSUME TypeInv, NEW c \in Caller, h[c].pc \notin {"idle", "meet", "mint"}
  PROVE  /\ h[c] \in Work /\ h[c].does \in Doing \ {"none"} /\ h[c].phone \in Phone
         /\ h[c].user \in User /\ h[c].user.wallet \in 1 .. minted
         /\ h[c].user.code \in 0 .. codes
         /\ h[c].pc \in {"upsert", "greet"} \cup Plan(h[c].does)
         /\ h[c].pc # "upsert" =>
              /\ users[h[c].phone] \in User /\ users[h[c].phone].known
              /\ users[h[c].phone].wallet \in 1 .. minted
              /\ users[h[c].phone].code \in 0 .. codes
         /\ h[c].does \in {"set_pin", "change_pin", "recover_confirm", "confirm"} => h[c].pin \in Pin
         /\ h[c].does = "recover_confirm" => h[c].code \in 1 .. codes
         /\ h[c].does = "claim_name" => h[c].label \in Label
         /\ h[c].does = "link" => h[c].chat \in Chat
<1>1. h[c] \in Work /\ WorkOK(h[c], users, minted, codes) /\ TaskOK(h[c], codes)
  BY DEF TypeInv, WorkOK
<1>2. h[c].user \in User \cup {NoUser} /\ h[c].user.known
  BY <1>1 DEF Work, WorkOK
<1>3. h[c].user \in User
  BY <1>2, KnownIsUser
<1>4. h[c].phone \in Phone /\ h[c].does \in Doing \ {"none"}
  BY <1>1 DEF TaskOK, Work
<1>5. h[c].pc # "upsert" => users[h[c].phone] \in User /\ users[h[c].phone].known
  <2>1. users[h[c].phone] \in User \cup {NoUser}
    BY <1>4 DEF TypeInv, UsersOK
  <2>2. QED BY <1>1, <2>1, KnownIsUser DEF WorkOK
<1>6. h[c].pc # "upsert" => users[h[c].phone].wallet \in 1 .. minted
                            /\ users[h[c].phone].code \in 0 .. codes
  BY <1>4, <1>5 DEF TypeInv, UsersOK
<1>7. h[c].pc \in {"upsert", "greet"} \cup Plan(h[c].does)
  BY <1>1 DEF TaskOK
<1>8. QED BY <1>1, <1>2, <1>3, <1>4, <1>5, <1>6, <1>7 DEF WorkOK, TaskOK

\* A command goes on to another step of its plan.
LEMMA GoTyped ==
  ASSUME TypeInv, NEW c \in Caller, h[c].pc \notin {"idle", "meet", "mint", "upsert"},
         NEW pc \in Plan(h[c].does), Go(c, pc),
         RestOK', UsersOK(users', minted', codes'), minted <= minted', codes <= codes',
         \A p \in Phone : users[p].known => users'[p].known
  PROVE  TypeInv'
<1> DEFINE t == [h[c] EXCEPT !.pc = pc]
<1>1. h[c] \in Work /\ WorkOK(h[c], users, minted, codes) /\ TaskOK(h[c], codes)
  BY DEF TypeInv, WorkOK
<1>2. pc \in Steps \ {"idle", "meet", "mint", "upsert", "greet"}
  BY <1>1, PlanSays DEF Work
<1>3. t \in Work
  BY <1>1, <1>2 DEF Work
<1>4. h' = [h EXCEPT ![c] = t]
  BY DEF Go, TypeInv
<1>5. minted \in Nat /\ codes \in Nat /\ minted' \in Nat /\ codes' \in Nat
  BY DEF TypeInv, RestOK
<1>6. /\ t.pc = pc /\ t.does = h[c].does /\ t.phone = h[c].phone /\ t.pin = h[c].pin
      /\ t.code = h[c].code /\ t.label = h[c].label /\ t.chat = h[c].chat
      /\ t.user = h[c].user
  BY <1>1 DEF Work
<1> HIDE DEF t
<1>7. TaskOK(t, codes')
  BY <1>1, <1>5, <1>6 DEF TaskOK
<1>8. t.user.known => t.user.wallet \in 1 .. minted' /\ t.user.code \in 0 .. codes'
  BY <1>1, <1>5, <1>6 DEF WorkOK
<1>9. t.user.known /\ t.phone \in Phone /\ users'[t.phone].known
  BY <1>1, <1>6 DEF WorkOK, TaskOK
<1>10. WorkOK(t, users', minted', codes')
  BY <1>2, <1>6, <1>7, <1>8, <1>9 DEF WorkOK
<1>11. QED BY <1>3, <1>4, <1>10, StepTyped

\* The row is in hand, and the command takes the step its plan has for it.
LEMMA ProceedTyped ==
  ASSUME TypeInv, NEW c \in Caller, h[c].pc \in {"meet", "upsert"}, NEW u \in User,
         Proceed(c, u), u.wallet \in 1 .. minted', u.code \in 0 .. codes',
         users'[h[c].phone].known,
         RestOK', UsersOK(users', minted', codes'), minted <= minted', codes <= codes',
         \A p \in Phone : users[p].known => users'[p].known
  PROVE  TypeInv'
<1>1. h[c] \in Work /\ WorkOK(h[c], users, minted, codes) /\ TaskOK(h[c], codes)
  BY DEF TypeInv, WorkOK
<1> DEFINE pc == Route(h[c], u)
           t == [h[c] EXCEPT !.user = u, !.pc = pc]
<1>2. pc \in {"idle", "greet"} \cup Plan(h[c].does) /\ pc \in Steps \ {"meet", "mint", "upsert"}
  BY <1>1, RouteTyped DEF TaskOK
<1>3. CASE pc = "idle"
  BY <1>3, LeaveTyped DEF Proceed
<1>4. CASE pc # "idle"
  <2>1. h' = [h EXCEPT ![c] = t]
    BY <1>4 DEF Proceed, TypeInv
  <2>2. t \in Work
    BY <1>1, <1>2 DEF Work
  <2>3. /\ t.pc = pc /\ t.does = h[c].does /\ t.phone = h[c].phone /\ t.pin = h[c].pin
        /\ t.code = h[c].code /\ t.label = h[c].label /\ t.chat = h[c].chat /\ t.user = u
    BY <1>1 DEF Work
  <2>4. minted \in Nat /\ codes \in Nat /\ minted' \in Nat /\ codes' \in Nat /\ u.known
    BY DEF TypeInv, RestOK, User
  <2> HIDE DEF t, pc
  <2>5. TaskOK(t, codes')
    BY <1>1, <1>2, <1>4, <2>3, <2>4 DEF TaskOK
  <2>6. WorkOK(t, users', minted', codes')
    BY <1>2, <1>4, <2>3, <2>4, <2>5 DEF WorkOK
  <2>7. QED BY <2>1, <2>2, <2>6, StepTyped
<1>5. QED BY <1>3, <1>4

\* A row is written and the command goes on or ends: the two ways a step of a
\* command changes the users table.
LEMMA WriteTyped ==
  ASSUME TypeInv, NEW c \in Caller, h[c].pc \notin {"idle", "meet", "mint", "upsert"},
         NEW r \in User, users' = [users EXCEPT ![h[c].phone] = r],
         r.wallet \in 1 .. minted', r.code \in 0 .. codes', RestOK',
         minted <= minted', codes <= codes',
         Leave(c) \/ \E pc \in Plan(h[c].does) : Go(c, pc)
  PROVE  TypeInv'
<1>1. h[c].phone \in Phone
  BY AtWork
<1>2. /\ UsersOK(users', minted', codes')
      /\ \A q \in Phone : users[q].known => users'[q].known
  BY <1>1, RowTyped
<1>3. CASE Leave(c)
  BY <1>2, <1>3, LeaveTyped
<1>4. ASSUME NEW pc \in Plan(h[c].does), Go(c, pc)
      PROVE  TypeInv'
  BY <1>2, <1>4, GoTyped
<1>5. QED BY <1>3, <1>4

\* The command goes on or ends, and no row is written.
LEMMA MoveTyped ==
  ASSUME TypeInv, NEW c \in Caller, h[c].pc \notin {"idle", "meet", "mint", "upsert"},
         UNCHANGED <<users, minted, codes>>, RestOK',
         Leave(c) \/ \E pc \in Plan(h[c].does) : Go(c, pc)
  PROVE  TypeInv'
<1>1. minted \in Nat /\ codes \in Nat
  BY DEF TypeInv, RestOK
<1>2. minted <= minted' /\ codes <= codes' /\ UsersOK(users', minted', codes')
  BY <1>1 DEF TypeInv
<1>3. \A q \in Phone : users[q].known => users'[q].known
  OBVIOUS
<1>4. CASE Leave(c)
  BY <1>2, <1>3, <1>4, LeaveTyped
<1>5. ASSUME NEW pc \in Plan(h[c].does), Go(c, pc)
      PROVE  TypeInv'
  BY <1>2, <1>3, <1>5, GoTyped
<1>6. QED BY <1>4, <1>5

\* A command reads the row again.
LEMMA ReadTyped ==
  ASSUME TypeInv, NEW c \in Caller, h[c].pc \notin {"idle", "meet", "mint", "upsert"},
         NEW pc \in Plan(h[c].does),
         h' = [h EXCEPT ![c].user = users[h[c].phone], ![c].pc = pc],
         UNCHANGED <<users, minted, codes>>, RestOK'
  PROVE  TypeInv'
<1> DEFINE u == users[h[c].phone]
           t == [h[c] EXCEPT !.user = u, !.pc = pc]
<1>1. h[c] \in Work /\ WorkOK(h[c], users, minted, codes) /\ TaskOK(h[c], codes)
  BY DEF TypeInv, WorkOK
<1>2. /\ u \in User /\ u.known /\ u.wallet \in 1 .. minted /\ u.code \in 0 .. codes
      /\ h[c].phone \in Phone
  BY AtWork
<1>3. pc \in Steps \ {"idle", "meet", "mint", "upsert", "greet"}
  BY <1>1, PlanSays DEF Work
<1>4. h' = [h EXCEPT ![c] = t]
  BY DEF TypeInv
<1> HIDE DEF u
<1>5. t \in Work
  BY <1>1, <1>2, <1>3 DEF Work
<1>6. /\ t.pc = pc /\ t.does = h[c].does /\ t.phone = h[c].phone /\ t.pin = h[c].pin
      /\ t.code = h[c].code /\ t.label = h[c].label /\ t.chat = h[c].chat /\ t.user = u
  BY <1>1 DEF Work
<1> HIDE DEF t
<1>7. WorkOK(t, users', minted', codes')
  <2>1. TaskOK(t, codes)
    BY <1>1, <1>6 DEF TaskOK
  <2>2. users[t.phone].known
    BY <1>2, <1>6 DEF u
  <2>3. QED BY <1>2, <1>3, <1>6, <2>1, <2>2 DEF WorkOK
<1>8. minted <= minted' /\ codes <= codes' /\ UsersOK(users', minted', codes')
  BY DEF TypeInv, RestOK
<1>9. QED BY <1>4, <1>5, <1>7, <1>8, StepTyped

\* A command begins.
LEMMA StartTyped ==
  ASSUME TypeInv, NEW c \in Caller, NEW task \in Work, Start(c, task),
         TaskOK([task EXCEPT !.pc = "meet"], codes), task.user = NoUser
  PROVE  TypeInv'
<1> DEFINE t == [task EXCEPT !.pc = "meet"]
<1>1. t \in Work /\ t.pc = "meet" /\ t.user = NoUser /\ h' = [h EXCEPT ![c] = t]
  BY DEF Work, Start, Steps
<1>2. WorkOK(t, users', minted', codes')
  <2>1. UNCHANGED <<users, minted, codes>> /\ ~NoUser.known
    BY DEF Start, tables, NoUser
  <2> HIDE DEF t
  <2>2. TaskOK(t, codes)
    BY DEF t
  <2>3. QED BY <1>1, <2>1, <2>2 DEF WorkOK
<1>3. RestOK'
  <2>1. menu.commands \in Nat
    BY MenusAssumption DEF TypeInv, RestOK
  <2>2. begun' \in 0 .. menu'.commands
    BY <2>1 DEF TypeInv, RestOK, Start
  <2>3. calm' \in [Phone -> BOOLEAN]
    BY DEF TypeInv, RestOK, Start
  <2>4. UNCHANGED <<menu, names, links, pend, minted, codes, crashes, ghosts>>
    BY DEF Start, tables
  <2>5. QED BY <2>2, <2>3, <2>4 DEF TypeInv, RestOK, ghosts, counts
<1>4. UNCHANGED <<users, minted, codes>>
  BY DEF Start, tables
<1>5. minted <= minted' /\ codes <= codes' /\ UsersOK(users', minted', codes')
  BY <1>4 DEF TypeInv, RestOK
<1>6. \A p \in Phone : users[p].known => users'[p].known
  BY <1>4
<1> HIDE DEF t
<1>7. QED BY <1>1, <1>2, <1>3, <1>5, <1>6, StepTyped

\* What a caller is asked.
LEMMA TaskTyped ==
  ASSUME NEW does \in Doing \ {"none"}, NEW p \in Phone
  PROVE  /\ Task(does, p) \in Work /\ Task(does, p).user = NoUser
         /\ Task(does, p) = [Idle EXCEPT !.does = does, !.phone = p]
  BY DEF Task, Work, Idle, Steps, Doing, Pending

\* Whatever is asked, it is asked with what the command needs.
LEMMA CommandStarts ==
  ASSUME TypeInv, NEW c \in Caller, Command(c)
  PROVE  \E task \in Work : /\ Start(c, task) /\ task.user = NoUser
                            /\ TaskOK([task EXCEPT !.pc = "meet"], codes)
<1>1. CASE Say(c)
  <2>1. PICK does \in {"call", "name", "join", "recover_pin", "verify_id", "attest_live",
                       "attest_mock"}, p \in Phone : Start(c, Task(does, p))
    BY <1>1 DEF Say
  <2>2. TaskOK([Task(does, p) EXCEPT !.pc = "meet"], codes)
    BY <2>1 DEF TaskOK, Task, Idle
  <2>3. Task(does, p) \in Work /\ Task(does, p).user = NoUser
    BY TaskTyped DEF Doing
  <2>4. QED BY <2>1, <2>2, <2>3
<1>2. CASE SetPin(c)
  <2>1. PICK p \in Phone, pin \in Pin : Start(c, [Task("set_pin", p) EXCEPT !.pin = pin])
    BY <1>2 DEF SetPin
  <2> DEFINE t == [Task("set_pin", p) EXCEPT !.pin = pin]
  <2>2. TaskOK([t EXCEPT !.pc = "meet"], codes)
    BY DEF TaskOK, Task, Idle
  <2>3. t \in Work /\ t.user = NoUser
    BY DEF Task, Work, Idle, Steps, Doing, Pending
  <2>4. Start(c, t)
    BY <2>1
  <2> HIDE DEF t
  <2>5. QED BY <2>2, <2>3, <2>4
<1>3. CASE ChangePin(c)
  <2>1. PICK p \in Phone, old \in Pin, pin \in Pin :
          Start(c, [Task("change_pin", p) EXCEPT !.old = old, !.pin = pin])
    BY <1>3 DEF ChangePin
  <2> DEFINE t == [Task("change_pin", p) EXCEPT !.old = old, !.pin = pin]
  <2>2. TaskOK([t EXCEPT !.pc = "meet"], codes)
    BY DEF TaskOK, Task, Idle
  <2>3. t \in Work /\ t.user = NoUser
    BY DEF Task, Work, Idle, Steps, Doing, Pending
  <2>4. Start(c, t)
    BY <2>1
  <2> HIDE DEF t
  <2>5. QED BY <2>2, <2>3, <2>4
<1>4. CASE RecoverConfirm(c)
  <2>1. PICK p \in Phone, pin \in Pin, code \in 1 .. codes :
          Start(c, [Task("recover_confirm", p) EXCEPT !.code = code, !.pin = pin])
    BY <1>4 DEF RecoverConfirm
  <2> DEFINE t == [Task("recover_confirm", p) EXCEPT !.code = code, !.pin = pin]
  <2>2. TaskOK([t EXCEPT !.pc = "meet"], codes)
    BY DEF TaskOK, Task, Idle
  <2>3. code \in Nat
    BY DEF TypeInv, RestOK
  <2>4. t \in Work /\ t.user = NoUser
    BY <2>3 DEF Task, Work, Idle, Steps, Doing, Pending
  <2>5. Start(c, t)
    BY <2>1
  <2> HIDE DEF t
  <2>6. QED BY <2>2, <2>4, <2>5
<1>5. CASE ClaimName(c)
  <2>1. PICK p \in Phone, l \in Label : Start(c, [Task("claim_name", p) EXCEPT !.label = l])
    BY <1>5 DEF ClaimName
  <2> DEFINE t == [Task("claim_name", p) EXCEPT !.label = l]
  <2>2. TaskOK([t EXCEPT !.pc = "meet"], codes)
    BY DEF TaskOK, Task, Idle
  <2>3. t \in Work /\ t.user = NoUser
    BY DEF Task, Work, Idle, Steps, Doing, Pending
  <2>4. Start(c, t)
    BY <2>1
  <2> HIDE DEF t
  <2>5. QED BY <2>2, <2>3, <2>4
<1>6. CASE LinkTelegram(c)
  <2>1. PICK p \in Phone, s \in Chat : Start(c, [Task("link", p) EXCEPT !.chat = s])
    BY <1>6 DEF LinkTelegram
  <2> DEFINE t == [Task("link", p) EXCEPT !.chat = s]
  <2>2. TaskOK([t EXCEPT !.pc = "meet"], codes)
    BY DEF TaskOK, Task, Idle
  <2>3. t \in Work /\ t.user = NoUser
    BY DEF Task, Work, Idle, Steps, Doing, Pending
  <2>4. Start(c, t)
    BY <2>1
  <2> HIDE DEF t
  <2>5. QED BY <2>2, <2>3, <2>4
<1>7. CASE Ask(c)
  <2>1. PICK p \in Phone, kind \in {"pay", "policy", "standing"} :
          Start(c, [Task("ask", p) EXCEPT !.kind = kind])
    BY <1>7 DEF Ask
  <2> DEFINE t == [Task("ask", p) EXCEPT !.kind = kind]
  <2>2. TaskOK([t EXCEPT !.pc = "meet"], codes)
    BY DEF TaskOK, Task, Idle
  <2>3. t \in Work /\ t.user = NoUser
    BY DEF Task, Work, Idle, Steps, Doing, Pending
  <2>4. Start(c, t)
    BY <2>1
  <2> HIDE DEF t
  <2>5. QED BY <2>2, <2>3, <2>4
<1>8. CASE Confirm(c)
  <2>1. PICK p \in Phone, pin \in Pin :
          Start(c, [Task("confirm", p) EXCEPT !.pin = pin, !.kind = pend[p]])
    BY <1>8 DEF Confirm
  <2> DEFINE t == [Task("confirm", p) EXCEPT !.pin = pin, !.kind = pend[p]]
  <2>2. TaskOK([t EXCEPT !.pc = "meet"], codes)
    BY DEF TaskOK, Task, Idle
  <2>3. pend[p] \in Pending
    BY DEF TypeInv, RestOK
  <2>4. t \in Work /\ t.user = NoUser
    BY <2>3 DEF Task, Work, Idle, Steps, Doing, Pending
  <2>5. Start(c, t)
    BY <2>1
  <2> HIDE DEF t
  <2>6. QED BY <2>2, <2>4, <2>5
<1>9. QED BY <1>1, <1>2, <1>3, <1>4, <1>5, <1>6, <1>7, <1>8 DEF Command

\* A command begins with types.
LEMMA CommandTyped ==
  ASSUME TypeInv, NEW c \in Caller, Command(c)
  PROVE  TypeInv'
  BY CommandStarts, StartTyped

\* A command with a row to write.
LEMMA ToUpsertTyped ==
  ASSUME NEW t \in Work, NEW u \in User
  PROVE  [t EXCEPT !.user = u, !.pc = "upsert"] \in Work
  BY DEF Work, Steps

\* An insert that meets a row keeps its type, and only takes the wallet from the new row.
LEMMA UpsertedTyped ==
  ASSUME NEW row \in User, NEW u \in User
  PROVE  /\ Upserted(row, u) \in User
         /\ Upserted(row, u).wallet = u.wallet /\ Upserted(row, u).code = row.code
<1> DEFINE named == row.named \/ u.named
           pin == IF u.pin = None THEN row.pin ELSE u.pin
           w == [row EXCEPT !.named = named, !.wallet = u.wallet, !.pin = pin]
<1>1. Upserted(row, u) = w
  BY DEF Upserted
<1>2. named \in BOOLEAN /\ pin \in Pin \cup {None} /\ u.wallet \in Nat
  BY DEF User
<1> HIDE DEF named, pin
<1>3. w \in User /\ w.wallet = u.wallet /\ w.code = row.code
  BY <1>2 DEF User
<1> HIDE DEF w
<1>4. QED BY <1>1, <1>3

\* Making sure there is an account.
LEMMA EnsureTyped ==
  ASSUME TypeInv, NEW c \in Caller, Meet(c) \/ Mint(c) \/ Upsert(c)
  PROVE  TypeInv'
<1>1. h[c] \in Work /\ WorkOK(h[c], users, minted, codes) /\ minted \in Nat /\ codes \in Nat
  BY DEF TypeInv, RestOK
<1>2. CASE Meet(c)
  <2> DEFINE u == users[h[c].phone]
  <2>1. h[c].pc = "meet" /\ TaskOK(h[c], codes) /\ h[c].phone \in Phone
    BY <1>1, <1>2 DEF Meet, At, WorkOK, TaskOK
  <2>2. UNCHANGED <<menu, names, links, pend, begun, minted, codes, crashes, calm, ghosts>>
        /\ UNCHANGED users
    BY <1>2 DEF Meet, tables
  <2>3. RestOK'
    BY <2>2, RestSame DEF TypeInv
  <2>4. minted <= minted' /\ codes <= codes' /\ UsersOK(users', minted', codes')
    BY <1>1, <2>2 DEF TypeInv
  <2>5. \A p \in Phone : users[p].known => users'[p].known
    BY <2>2
  <2>6. u.known => u \in User /\ u.wallet \in 1 .. minted' /\ u.code \in 0 .. codes'
    <3>1. u \in User \cup {NoUser}
      BY <2>1 DEF TypeInv, UsersOK
    <3>2. u.known => u \in User
      BY <3>1, KnownIsUser
    <3>3. QED BY <2>1, <2>2, <3>2 DEF TypeInv, UsersOK
  <2>7. CASE Go(c, "mint")
    <3> DEFINE t == [h[c] EXCEPT !.pc = "mint"]
    <3>1. h' = [h EXCEPT ![c] = t] /\ t \in Work
      BY <1>1, <2>7 DEF Go, Work, Steps, TypeInv
    <3>2. WorkOK(t, users', minted', codes')
      <4>1. /\ t.pc = "mint" /\ t.does = h[c].does /\ t.phone = h[c].phone /\ t.pin = h[c].pin
            /\ t.code = h[c].code /\ t.label = h[c].label /\ t.chat = h[c].chat
            /\ t.user = h[c].user
        BY <1>1 DEF Work
      <4> HIDE DEF t
      <4>2. TaskOK(t, codes')
        BY <2>1, <2>2, <4>1 DEF TaskOK
      <4>3. QED BY <1>1, <2>2, <4>1, <4>2 DEF WorkOK
    <3> HIDE DEF t
    <3>3. QED BY <2>3, <2>4, <2>5, <3>1, <3>2, StepTyped
  <2>8. CASE u.known /\ Proceed(c, u)
    <3>1. users'[h[c].phone].known
      BY <2>2, <2>8
    <3>2. u \in User /\ u.wallet \in 1 .. minted' /\ u.code \in 0 .. codes'
      BY <2>6, <2>8
    <3> HIDE DEF u
    <3>3. QED BY <2>1, <2>3, <2>4, <2>5, <2>8, <3>1, <3>2, ProceedTyped
  <2>9. CASE /\ u.known
             /\ h' = [h EXCEPT ![c].user = [u EXCEPT !.named = TRUE], ![c].pc = "upsert"]
    <3> DEFINE w == [u EXCEPT !.named = TRUE]
               t == [h[c] EXCEPT !.user = w, !.pc = "upsert"]
    <3>1. /\ w \in User /\ w.known /\ w.wallet \in 1 .. minted' /\ w.code \in 0 .. codes'
      BY <2>6, <2>9 DEF User
    <3>2. users'[h[c].phone].known
      BY <2>2, <2>9
    <3>3. h' = [h EXCEPT ![c] = t]
      BY <2>9 DEF TypeInv
    <3> HIDE DEF w, u
    <3>4. t \in Work
      BY <1>1, <3>1, ToUpsertTyped
    <3>5. WorkOK(t, users', minted', codes')
      <4>1. /\ t.pc = "upsert" /\ t.does = h[c].does /\ t.phone = h[c].phone /\ t.pin = h[c].pin
            /\ t.code = h[c].code /\ t.label = h[c].label /\ t.chat = h[c].chat
            /\ t.user = w
        BY <1>1 DEF Work
      <4> HIDE DEF t
      <4>2. TaskOK(t, codes')
        BY <2>1, <2>2, <4>1 DEF TaskOK
      <4>3. QED BY <2>2, <3>1, <3>2, <4>1, <4>2 DEF WorkOK
    <3> HIDE DEF t
    <3>6. QED BY <2>3, <2>4, <2>5, <3>3, <3>4, <3>5, StepTyped
  <2>10. QED BY <1>2, <2>7, <2>8, <2>9 DEF Meet
<1>3. CASE Mint(c)
  <2>1. h[c].pc = "mint" /\ TaskOK(h[c], codes) /\ h[c].phone \in Phone
    BY <1>1, <1>3 DEF Mint, At, WorkOK, TaskOK
  <2>2. UNCHANGED <<menu, users, names, links, pend, begun, codes, crashes, calm, ghosts>>
    BY <1>3 DEF Mint, tables
  <2>3. minted' = minted \/ minted' = minted + 1
    BY <1>3 DEF Mint
  <2>4. RestOK'
    <3>1. minted' \in Nat
      BY <1>1, <2>3
    <3>2. QED BY <2>2, <3>1 DEF TypeInv, RestOK, ghosts, counts
  <2>5. minted <= minted' /\ codes <= codes'
    BY <1>1, <2>2, <2>3
  <2>6. UsersOK(users', minted', codes')
    BY <2>2, <2>4, <2>5, UsersSame
  <2>7. \A p \in Phone : users[p].known => users'[p].known
    BY <2>2
  <2>8. CASE Leave(c)
    BY <2>4, <2>5, <2>6, <2>7, <2>8, LeaveTyped
  <2>9. CASE /\ minted' = minted + 1
             /\ h' = [h EXCEPT ![c].user = NewUser(minted', h[c].does = "join"),
                               ![c].pc = "upsert"]
    <3> DEFINE w == NewUser(minted', h[c].does = "join")
               t == [h[c] EXCEPT !.user = w, !.pc = "upsert"]
    <3>1. w \in User /\ w.known /\ w.wallet = minted' /\ w.code = 0 /\ w.label = None
      <4>1. minted' \in Nat /\ (h[c].does = "join") \in BOOLEAN
        BY <1>1, <2>9
      <4>2. QED BY <4>1, NewUserTyped
    <3>2. w.wallet \in 1 .. minted' /\ w.code \in 0 .. codes'
      BY <1>1, <2>2, <2>9, <3>1
    <3>3. h' = [h EXCEPT ![c] = t]
      BY <2>9 DEF TypeInv
    <3> HIDE DEF w
    <3>4. t \in Work
      BY <1>1, <3>1, ToUpsertTyped
    <3>5. WorkOK(t, users', minted', codes')
      <4>1. /\ t.pc = "upsert" /\ t.does = h[c].does /\ t.phone = h[c].phone /\ t.pin = h[c].pin
            /\ t.code = h[c].code /\ t.label = h[c].label /\ t.chat = h[c].chat
            /\ t.user = w
        BY <1>1 DEF Work
      <4> HIDE DEF t
      <4>2. TaskOK(t, codes')
        BY <2>1, <2>2, <4>1 DEF TaskOK
      <4>3. QED BY <3>1, <3>2, <4>1, <4>2 DEF WorkOK
    <3> HIDE DEF t
    <3>6. QED BY <2>4, <2>5, <2>6, <2>7, <3>3, <3>4, <3>5, StepTyped
  <2>10. QED BY <1>3, <2>8, <2>9 DEF Mint
<1>4. CASE Upsert(c)
  <2> DEFINE p == h[c].phone
             row == IF users[p].known THEN Upserted(users[p], h[c].user) ELSE h[c].user
  <2>1. h[c].pc = "upsert" /\ p \in Phone /\ h[c].user \in User
        /\ h[c].user.wallet \in 1 .. minted /\ h[c].user.code \in 0 .. codes
    BY <1>4, AtWork DEF Upsert, At
  <2>2. UNCHANGED <<menu, names, links, pend, begun, minted, codes, crashes, calm, ghosts>>
    BY <1>4 DEF Upsert
  <2>3. RestOK'
    BY <2>2, RestSame DEF TypeInv
  <2>4. row \in User /\ row.wallet \in 1 .. minted' /\ row.code \in 0 .. codes'
    <3>1. CASE ~users[p].known
      BY <2>1, <2>2, <3>1
    <3>2. CASE users[p].known
      <4>1. users[p] \in User /\ users[p].code \in 0 .. codes
        <5>1. users[p] \in User \cup {NoUser}
          BY <2>1 DEF TypeInv, UsersOK
        <5>2. QED BY <2>1, <3>2, <5>1, KnownIsUser DEF TypeInv, UsersOK
      <4>2. Upserted(users[p], h[c].user) \in User
        BY <2>1, <4>1, UpsertedTyped
      <4>3. /\ Upserted(users[p], h[c].user).wallet = h[c].user.wallet
            /\ Upserted(users[p], h[c].user).code = users[p].code
        BY <2>1, <4>1, UpsertedTyped
      <4>4. QED BY <2>1, <2>2, <3>2, <4>1, <4>2, <4>3
    <3>3. QED BY <3>1, <3>2
  <2>5. minted <= minted' /\ codes <= codes'
    BY <1>1, <2>2
  <2>6. users' = [users EXCEPT ![p] = row] /\ Proceed(c, row)
    BY <1>4 DEF Upsert
  <2> HIDE DEF row
  <2>7. UsersOK(users', minted', codes') /\ users'[p].known
        /\ \A q \in Phone : users[q].known => users'[q].known
    BY <2>1, <2>3, <2>4, <2>5, <2>6, RowTyped
  <2>8. QED BY <2>1, <2>3, <2>4, <2>5, <2>6, <2>7, ProceedTyped
<1>5. QED BY <1>2, <1>3, <1>4

\* What has been counted of a phone keeps its type.
LEMMA CountsTyped ==
  ASSUME TypeInv, NEW p \in Phone,
         \/ CountsAnew(p) \/ LockPasses(p)
         \/ \E c \in Caller : h[c].phone = p /\ (MarkFailure(c) \/ Crash(c))
  PROVE  /\ wrong' \in [Phone -> Nat] /\ slips' \in [Phone -> Nat]
         /\ lapsed' \in [Phone -> BOOLEAN]
<1>1. wrong \in [Phone -> Nat] /\ slips \in [Phone -> Nat] /\ lapsed \in [Phone -> BOOLEAN]
  BY DEF TypeInv, RestOK
<1>2. CASE CountsAnew(p)
  BY <1>1, <1>2 DEF CountsAnew
<1>3. CASE LockPasses(p)
  <2>1. UNCHANGED <<wrong, slips>> /\ lapsed' = [lapsed EXCEPT ![p] = TRUE]
    BY <1>3 DEF LockPasses
  <2>2. QED BY <1>1, <2>1
<1>4. ASSUME NEW c \in Caller, h[c].phone = p, MarkFailure(c)
      PROVE  /\ wrong' \in [Phone -> Nat] /\ slips' \in [Phone -> Nat]
             /\ lapsed' \in [Phone -> BOOLEAN]
  <2>1. wrong' = [wrong EXCEPT ![p] = @ + 1] /\ lapsed' = [lapsed EXCEPT ![p] = FALSE]
    BY <1>4 DEF MarkFailure
  <2>2. slips' = slips \/ slips' = [slips EXCEPT ![p] = @ + 1]
    BY <1>4 DEF MarkFailure
  <2>3. QED BY <1>1, <2>1, <2>2
<1>5. ASSUME NEW c \in Caller, h[c].phone = p, Crash(c)
      PROVE  /\ wrong' \in [Phone -> Nat] /\ slips' \in [Phone -> Nat]
             /\ lapsed' \in [Phone -> BOOLEAN]
  <2>1. lapsed' = lapsed
    BY <1>5 DEF Crash
  <2>2. CASE h[c].pc \in {"count", "mark"}
    <3>1. wrong' = [wrong EXCEPT ![p] = @ + 1] /\ slips' = [slips EXCEPT ![p] = @ + 1]
      BY <1>5, <2>2 DEF Crash
    <3>2. QED BY <1>1, <2>1, <3>1
  <2>3. CASE h[c].pc \notin {"count", "mark"}
    <3>1. wrong' = wrong /\ slips' = slips
      BY <1>5, <2>3 DEF Crash
    <3>2. QED BY <1>1, <2>1, <3>1
  <2>4. QED BY <2>2, <2>3
<1>6. QED BY <1>2, <1>3, <1>4, <1>5

\* A step that writes one field or two of the row of its phone.
LEMMA WritingTyped ==
  ASSUME TypeInv, NEW c \in Caller,
         SetUserName(c) \/ MarkFailure(c) \/ DropCode(c) \/ CoolDown(c) \/ Grade(c)
           \/ Lookup(c) \/ Attested(c) \/ Refused(c)
  PROVE  TypeInv'
<1> DEFINE p == h[c].phone
           Typed(r) == r \in User /\ r.wallet \in 1 .. minted' /\ r.code \in 0 .. codes'
<1>1. minted \in Nat /\ codes \in Nat /\ users \in [Phone -> User \cup {NoUser}]
  BY DEF TypeInv, RestOK, UsersOK
<1>2. ASSUME NEW r, users' = [users EXCEPT ![p] = r], Typed(r), RestOK',
             h[c].pc \notin {"idle", "meet", "mint", "upsert"},
             UNCHANGED <<minted, codes>>,
             Leave(c) \/ \E pc \in Plan(h[c].does) : Go(c, pc)
      PROVE  TypeInv'
  <2>1. minted <= minted' /\ codes <= codes'
    BY <1>1, <1>2
  <2>2. QED BY <1>2, <2>1, WriteTyped
<1>3. CASE SetUserName(c)
  <2> DEFINE r == [users[p] EXCEPT !.named = TRUE]
  <2>1. h[c].pc = "name"
    BY <1>3 DEF SetUserName, At
  <2>2. UNCHANGED <<menu, names, links, pend, begun, minted, codes, crashes, calm, ghosts>>
    BY <1>3 DEF SetUserName
  <2>3. RestOK'
    BY <2>2, RestSame DEF TypeInv
  <2>4. h[c] \in Work /\ p \in Phone /\ users[p] \in User /\ users[p].wallet \in 1 .. minted
        /\ users[p].code \in 0 .. codes /\ h[c].pc \in Plan(h[c].does) /\ h[c].user \in User
    BY <2>1, AtWork
  <2>5. users' = [users EXCEPT ![p] = r]
    BY <1>3, <1>1, <2>4 DEF SetUserName
  <2>6. Typed(r)
    <3>1. r \in User
      BY <2>4 DEF User
    <3>2. r.wallet = users[p].wallet /\ r.code = users[p].code
      BY <2>4 DEF User
    <3>3. QED BY <1>1, <2>2, <2>4, <3>1, <3>2
  <2>7. Go(c, "clear")
    BY <1>3 DEF SetUserName
  <2>8. "clear" \in Plan(h[c].does)
    <3>1. h[c].does \in Doing /\ "name" \in Plan(h[c].does)
      BY <2>1, <2>4 DEF Work
    <3>2. QED BY <3>1 DEF Plan, Doing
  <2> HIDE DEF r
  <2>9. QED BY <1>2, <2>1, <2>2, <2>3, <2>5, <2>6, <2>7, <2>8
<1>4. CASE MarkFailure(c)
  <2> DEFINE r == [users[p] EXCEPT !.fails = h[c].n + 1, !.locked = h[c].n + 1 >= MaxFails]
  <2>1. h[c].pc = "mark"
    BY <1>4 DEF MarkFailure, At
  <2>2. UNCHANGED <<menu, names, links, pend, begun, minted, codes, crashes, calm, told, chosen,
                    uses, bounced>>
    BY <1>4 DEF MarkFailure
  <2>3. RestOK'
    <3>1. p \in Phone
      BY <2>1, AtWork
    <3>2. wrong' \in [Phone -> Nat] /\ slips' \in [Phone -> Nat] /\ lapsed' \in [Phone -> BOOLEAN]
      BY <1>4, <3>1, CountsTyped
    <3>3. QED BY <2>2, <3>2 DEF TypeInv, RestOK
  <2>4. h[c] \in Work /\ p \in Phone /\ users[p] \in User /\ users[p].wallet \in 1 .. minted
        /\ users[p].code \in 0 .. codes /\ h[c].pc \in Plan(h[c].does) /\ h[c].user \in User
    BY <2>1, AtWork
  <2>5. users' = [users EXCEPT ![p] = r]
    BY <1>4, <1>1, <2>4 DEF MarkFailure, LocksAt
  <2>6. Typed(r)
    <3>1. r \in User
      <4>1. h[c].n + 1 \in Nat /\ (h[c].n + 1 >= MaxFails) \in BOOLEAN
        BY <2>4 DEF Work
      <4>2. ASSUME NEW n \in Nat, NEW b \in BOOLEAN
            PROVE  [users[p] EXCEPT !.fails = n, !.locked = b] \in User
        BY <2>4 DEF User
      <4>3. QED BY <4>1, <4>2
    <3>2. r.wallet = users[p].wallet /\ r.code = users[p].code
      BY <2>4 DEF User
    <3>3. QED BY <1>1, <2>2, <2>4, <3>1, <3>2
  <2>7. Leave(c) \/ Go(c, "recheck")
    BY <1>4 DEF MarkFailure
  <2>8. "recheck" \in Plan(h[c].does)
    <3>1. h[c].does \in Doing /\ "mark" \in Plan(h[c].does)
      BY <2>1, <2>4 DEF Work
    <3>2. QED BY <3>1 DEF Plan, Doing
  <2> HIDE DEF r
  <2>9. QED BY <1>2, <2>1, <2>2, <2>3, <2>5, <2>6, <2>7, <2>8
<1>5. CASE DropCode(c)
  <2> DEFINE r == [users[p] EXCEPT !.code = 0, !.aged = FALSE]
  <2>1. h[c].pc = "drop"
    BY <1>5 DEF DropCode, At
  <2>2. UNCHANGED <<menu, names, links, pend, begun, minted, codes, crashes, calm, ghosts>>
    BY <1>5 DEF DropCode
  <2>3. RestOK'
    BY <2>2, RestSame DEF TypeInv
  <2>4. h[c] \in Work /\ p \in Phone /\ users[p] \in User /\ users[p].wallet \in 1 .. minted
        /\ users[p].code \in 0 .. codes /\ h[c].pc \in Plan(h[c].does) /\ h[c].user \in User
    BY <2>1, AtWork
  <2>5. users' = [users EXCEPT ![p] = r]
    BY <1>5, <1>1, <2>4 DEF DropCode
  <2>6. Typed(r)
    <3>1. r \in User
      BY <2>4 DEF User
    <3>2. r.wallet = users[p].wallet /\ r.code = 0
      BY <2>4 DEF User
    <3>3. QED BY <1>1, <2>2, <2>4, <3>1, <3>2
  <2>7. Leave(c) \/ Go(c, "forgive")
    BY <1>5 DEF DropCode
  <2>8. "forgive" \in Plan(h[c].does)
    <3>1. h[c].does \in Doing /\ "drop" \in Plan(h[c].does)
      BY <2>1, <2>4 DEF Work
    <3>2. QED BY <3>1 DEF Plan, Doing
  <2> HIDE DEF r
  <2>9. QED BY <1>2, <2>1, <2>2, <2>3, <2>5, <2>6, <2>7, <2>8
<1>6. CASE CoolDown(c)
  <2> DEFINE r == [users[p] EXCEPT !.cool = TRUE]
  <2>1. h[c].pc = "cool"
    BY <1>6 DEF CoolDown, At
  <2>2. UNCHANGED <<menu, names, links, pend, begun, minted, codes, crashes, calm, ghosts>>
    BY <1>6 DEF CoolDown
  <2>3. RestOK'
    BY <2>2, RestSame DEF TypeInv
  <2>4. h[c] \in Work /\ p \in Phone /\ users[p] \in User /\ users[p].wallet \in 1 .. minted
        /\ users[p].code \in 0 .. codes /\ h[c].pc \in Plan(h[c].does) /\ h[c].user \in User
    BY <2>1, AtWork
  <2>5. users' = [users EXCEPT ![p] = r]
    BY <1>6, <1>1, <2>4 DEF CoolDown
  <2>6. Typed(r)
    <3>1. r \in User
      BY <2>4 DEF User
    <3>2. r.wallet = users[p].wallet /\ r.code = users[p].code
      BY <2>4 DEF User
    <3>3. QED BY <1>1, <2>2, <2>4, <3>1, <3>2
  <2>7. Leave(c)
    BY <1>6 DEF CoolDown
  <2> HIDE DEF r
  <2>8. QED BY <1>2, <2>1, <2>2, <2>3, <2>5, <2>6, <2>7
<1>7. CASE Grade(c)
  <2> DEFINE r == [users[p] EXCEPT !.tier = IF h[c].user.tier > 1 THEN h[c].user.tier ELSE 1]
  <2>1. h[c].pc = "grade"
    BY <1>7 DEF Grade, At
  <2>2. UNCHANGED <<menu, names, links, pend, begun, minted, codes, crashes, calm, ghosts>>
    BY <1>7 DEF Grade
  <2>3. RestOK'
    BY <2>2, RestSame DEF TypeInv
  <2>4. h[c] \in Work /\ p \in Phone /\ users[p] \in User /\ users[p].wallet \in 1 .. minted
        /\ users[p].code \in 0 .. codes /\ h[c].pc \in Plan(h[c].does) /\ h[c].user \in User
    BY <2>1, AtWork
  <2>5. users' = [users EXCEPT ![p] = r]
    BY <1>7, <1>1, <2>4 DEF Grade
  <2>6. Typed(r)
    <3>1. r \in User
      <4>1. (IF h[c].user.tier > 1 THEN h[c].user.tier ELSE 1) \in 0 .. 2
        <5>1. h[c].user.tier \in 0 .. 2
          BY <2>4 DEF User
        <5>2. QED BY <5>1
      <4>2. ASSUME NEW n \in 0 .. 2
            PROVE  [users[p] EXCEPT !.tier = n] \in User
        BY <2>4 DEF User
      <4>3. QED BY <4>1, <4>2
    <3>2. r.wallet = users[p].wallet /\ r.code = users[p].code
      BY <2>4 DEF User
    <3>3. QED BY <1>1, <2>2, <2>4, <3>1, <3>2
  <2>7. Leave(c)
    BY <1>7 DEF Grade
  <2> HIDE DEF r
  <2>8. QED BY <1>2, <2>1, <2>2, <2>3, <2>5, <2>6, <2>7
<1>8. CASE Lookup(c)
  <2> DEFINE r == [users[p] EXCEPT !.sim = "pending"]
  <2>1. h[c].pc = "lookup"
    BY <1>8 DEF Lookup, At
  <2>2. UNCHANGED <<menu, names, links, pend, begun, minted, codes, crashes, calm, ghosts>>
    BY <1>8 DEF Lookup
  <2>3. RestOK'
    BY <2>2, RestSame DEF TypeInv
  <2>4. h[c] \in Work /\ p \in Phone /\ users[p] \in User /\ users[p].wallet \in 1 .. minted
        /\ users[p].code \in 0 .. codes /\ h[c].pc \in Plan(h[c].does) /\ h[c].user \in User
    BY <2>1, AtWork
  <2>5. users' = [users EXCEPT ![p] = r]
    BY <1>8, <1>1, <2>4 DEF Lookup
  <2>6. Typed(r)
    <3>1. r \in User
      BY <2>4 DEF User
    <3>2. r.wallet = users[p].wallet /\ r.code = users[p].code
      BY <2>4 DEF User
    <3>3. QED BY <1>1, <2>2, <2>4, <3>1, <3>2
  <2>7. Go(c, "attested") \/ Go(c, "refused")
    BY <1>8 DEF Lookup
  <2>8. "attested" \in Plan(h[c].does) /\ "refused" \in Plan(h[c].does)
    <3>1. h[c].does \in Doing /\ "lookup" \in Plan(h[c].does)
      BY <2>1, <2>4 DEF Work
    <3>2. QED BY <3>1 DEF Plan, Doing
  <2> HIDE DEF r
  <2>9. QED BY <1>2, <2>1, <2>2, <2>3, <2>5, <2>6, <2>7, <2>8
<1>9. CASE Attested(c)
  <2> DEFINE r == [users[p] EXCEPT !.sim = "attested", !.tier = 2]
  <2>1. h[c].pc = "attested"
    BY <1>9 DEF Attested, At
  <2>2. UNCHANGED <<menu, names, links, pend, begun, minted, codes, crashes, calm, ghosts>>
    BY <1>9 DEF Attested
  <2>3. RestOK'
    BY <2>2, RestSame DEF TypeInv
  <2>4. h[c] \in Work /\ p \in Phone /\ users[p] \in User /\ users[p].wallet \in 1 .. minted
        /\ users[p].code \in 0 .. codes /\ h[c].pc \in Plan(h[c].does) /\ h[c].user \in User
    BY <2>1, AtWork
  <2>5. users' = [users EXCEPT ![p] = r]
    BY <1>9, <1>1, <2>4 DEF Attested
  <2>6. Typed(r)
    <3>1. r \in User
      <4>1. 2 \in 0 .. 2 /\ "attested" \in {"none", "pending", "attested", "failed"}
        OBVIOUS
      <4>2. ASSUME NEW n \in 0 .. 2, NEW s \in {"none", "pending", "attested", "failed"}
            PROVE  [users[p] EXCEPT !.sim = s, !.tier = n] \in User
        BY <2>4 DEF User
      <4>3. QED BY <4>1, <4>2
    <3>2. r.wallet = users[p].wallet /\ r.code = users[p].code
      BY <2>4 DEF User
    <3>3. QED BY <1>1, <2>2, <2>4, <3>1, <3>2
  <2>7. Leave(c)
    BY <1>9 DEF Attested
  <2> HIDE DEF r
  <2>8. QED BY <1>2, <2>1, <2>2, <2>3, <2>5, <2>6, <2>7
<1>10. CASE Refused(c)
  <2> DEFINE r == [users[p] EXCEPT !.sim = "failed"]
  <2>1. h[c].pc = "refused"
    BY <1>10 DEF Refused, At
  <2>2. UNCHANGED <<menu, names, links, pend, begun, minted, codes, crashes, calm, ghosts>>
    BY <1>10 DEF Refused
  <2>3. RestOK'
    BY <2>2, RestSame DEF TypeInv
  <2>4. h[c] \in Work /\ p \in Phone /\ users[p] \in User /\ users[p].wallet \in 1 .. minted
        /\ users[p].code \in 0 .. codes /\ h[c].pc \in Plan(h[c].does) /\ h[c].user \in User
    BY <2>1, AtWork
  <2>5. users' = [users EXCEPT ![p] = r]
    BY <1>10, <1>1, <2>4 DEF Refused
  <2>6. Typed(r)
    <3>1. r \in User
      BY <2>4 DEF User
    <3>2. r.wallet = users[p].wallet /\ r.code = users[p].code
      BY <2>4 DEF User
    <3>3. QED BY <1>1, <2>2, <2>4, <3>1, <3>2
  <2>7. Leave(c)
    BY <1>10 DEF Refused
  <2> HIDE DEF r
  <2>8. QED BY <1>2, <2>1, <2>2, <2>3, <2>5, <2>6, <2>7
<1>11. QED BY <1>3, <1>4, <1>5, <1>6, <1>7, <1>8, <1>9, <1>10

\* A step that writes no user row.
LEMMA MovingTyped ==
  ASSUME TypeInv, NEW c \in Caller,
         Greet(c) \/ ReadBack(c) \/ Clear(c) \/ Recheck(c) \/ Park(c) \/ Look(c)
           \/ Unlink(c) \/ Reread(c)
  PROVE  TypeInv'
<1>1. pend \in [Phone -> Pending] /\ links \in [Chat -> Phone \cup {None}]
      /\ told \in [Phone -> SUBSET Nat]
  BY DEF TypeInv, RestOK
<1>2. CASE Greet(c)
  <2>1. h[c].pc = "greet"
    BY <1>2 DEF Greet, At
  <2>2. h[c].phone \in Phone
    BY <2>1, AtWork
  <2>3. pend' \in [Phone -> Pending]
    BY <1>1, <1>2, <2>2 DEF Greet, Pending
  <2>4. RestOK'
    BY <1>2, <2>3 DEF Greet, TypeInv, RestOK, ghosts, counts
  <2>5. Leave(c) /\ UNCHANGED <<users, minted, codes>>
    BY <1>2 DEF Greet
  <2>6. QED BY <2>1, <2>4, <2>5, MoveTyped
<1>3. CASE ReadBack(c)
  <2>1. h[c].pc = "readback"
    BY <1>3 DEF ReadBack, At
  <2>2. h[c].does \in Doing /\ "readback" \in Plan(h[c].does)
    BY <2>1, AtWork
  <2>3. "clear" \in Plan(h[c].does)
    BY <2>2 DEF Plan, Doing
  <2>4. UNCHANGED <<users, minted, codes>> /\ RestOK'
    BY <1>3, RestSame DEF ReadBack, TypeInv, tables
  <2>5. h' = [h EXCEPT ![c].user = users[h[c].phone], ![c].pc = "clear"]
    BY <1>3 DEF ReadBack
  <2>6. QED BY <2>1, <2>3, <2>4, <2>5, ReadTyped
<1>4. CASE Clear(c)
  <2>1. h[c].pc = "clear"
    BY <1>4 DEF Clear, At
  <2>2. h[c].phone \in Phone /\ h[c].user.wallet \in Nat
    BY <2>1, AtWork DEF User
  <2>3. pend' \in [Phone -> Pending]
    BY <1>1, <1>4, <2>2 DEF Clear, Pending
  <2>4. told' \in [Phone -> SUBSET Nat]
    BY <1>1, <1>4, <2>2 DEF Clear
  <2>5. RestOK'
    BY <1>4, <2>3, <2>4 DEF Clear, TypeInv, RestOK, counts
  <2>6. Leave(c) /\ UNCHANGED <<users, minted, codes>>
    BY <1>4 DEF Clear
  <2>7. QED BY <2>1, <2>5, <2>6, MoveTyped
<1>5. CASE Recheck(c)
  <2>1. h[c].pc = "recheck"
    BY <1>5 DEF Recheck, At
  <2>2. h[c].does \in Doing /\ "recheck" \in Plan(h[c].does)
    BY <2>1, AtWork
  <2>3. "clear" \in Plan(h[c].does)
    BY <2>2 DEF Plan, Doing
  <2>4. UNCHANGED <<users, minted, codes>> /\ RestOK'
    BY <1>5, RestSame DEF Recheck, TypeInv, tables
  <2>5. Leave(c) \/ Go(c, "clear")
    BY <1>5 DEF Recheck
  <2>6. QED BY <2>1, <2>3, <2>4, <2>5, MoveTyped
<1>6. CASE Park(c)
  <2>1. h[c].pc = "park"
    BY <1>6 DEF Park, At
  <2>2. h[c].phone \in Phone /\ h[c].kind \in Pending
    BY <2>1, AtWork DEF Work
  <2>3. pend' \in [Phone -> Pending]
    BY <1>1, <1>6, <2>2 DEF Park
  <2>4. RestOK'
    BY <1>6, <2>3 DEF Park, TypeInv, RestOK, ghosts, counts
  <2>5. Leave(c) /\ UNCHANGED <<users, minted, codes>>
    BY <1>6 DEF Park
  <2>6. QED BY <2>1, <2>4, <2>5, MoveTyped
<1>7. CASE Look(c)
  <2>1. h[c].pc = "look"
    BY <1>7 DEF Look, At
  <2>2. h[c].does \in Doing /\ "look" \in Plan(h[c].does)
    BY <2>1, AtWork
  <2>3. "register" \in Plan(h[c].does)
    BY <2>2 DEF Plan, Doing
  <2>4. UNCHANGED <<users, minted, codes>> /\ RestOK'
    BY <1>7, RestSame DEF Look, TypeInv, tables
  <2>5. Leave(c) \/ Go(c, "register")
    BY <1>7 DEF Look
  <2>6. QED BY <2>1, <2>3, <2>4, <2>5, MoveTyped
<1>8. CASE Unlink(c)
  <2>1. h[c].pc = "unlink"
    BY <1>8 DEF Unlink, At
  <2>2. h[c].does \in Doing /\ "unlink" \in Plan(h[c].does)
    BY <2>1, AtWork
  <2>3. "link" \in Plan(h[c].does)
    BY <2>2 DEF Plan, Doing
  <2>4. links' \in [Chat -> Phone \cup {None}]
    BY <1>1, <1>8 DEF Unlink
  <2>5. UNCHANGED <<users, minted, codes>> /\ RestOK'
    BY <1>8, <2>4 DEF Unlink, TypeInv, RestOK, ghosts, counts
  <2>6. Go(c, "link")
    BY <1>8 DEF Unlink
  <2>7. QED BY <2>1, <2>3, <2>5, <2>6, MoveTyped
<1>9. CASE Reread(c)
  <2>1. h[c].pc = "reread"
    BY <1>9 DEF Reread, At
  <2>2. h[c].does \in Doing /\ "reread" \in Plan(h[c].does)
    BY <2>1, AtWork
  <2>3. "grade" \in Plan(h[c].does)
    BY <2>2 DEF Plan, Doing
  <2>4. UNCHANGED <<users, minted, codes>> /\ RestOK'
    BY <1>9, RestSame DEF Reread, TypeInv, tables
  <2>5. h' = [h EXCEPT ![c].user = users[h[c].phone], ![c].pc = "grade"]
    BY <1>9 DEF Reread
  <2>6. QED BY <2>1, <2>3, <2>4, <2>5, ReadTyped
<1>10. QED BY <1>2, <1>3, <1>4, <1>5, <1>6, <1>7, <1>8, <1>9

\* A wrong PIN is looked up before it is counted.
LEMMA CountTyped ==
  ASSUME TypeInv, NEW c \in Caller, CountFailure(c)
  PROVE  TypeInv'
<1> DEFINE n == users[h[c].phone].fails
           t == [h[c] EXCEPT !.n = n, !.pc = "mark"]
<1>1. h[c].pc = "count" /\ h[c] \in Work /\ WorkOK(h[c], users, minted, codes) /\ TaskOK(h[c], codes)
  BY DEF TypeInv, WorkOK, CountFailure, At
<1>2. n \in Nat
  BY <1>1, AtWork DEF User
<1>3. h[c].does \in Doing /\ "count" \in Plan(h[c].does)
  BY <1>1, AtWork
<1>4. "mark" \in Plan(h[c].does)
  BY <1>3 DEF Plan, Doing
<1>5. h' = [h EXCEPT ![c] = t]
  BY DEF CountFailure, TypeInv
<1> HIDE DEF n
<1>6. t \in Work
  BY <1>1, <1>2 DEF Work, Steps
<1>7. /\ t.pc = "mark" /\ t.does = h[c].does /\ t.phone = h[c].phone /\ t.pin = h[c].pin
      /\ t.code = h[c].code /\ t.label = h[c].label /\ t.chat = h[c].chat /\ t.user = h[c].user
  BY <1>1 DEF Work
<1> HIDE DEF t
<1>8. UNCHANGED <<users, minted, codes>> /\ RestOK'
  BY RestSame DEF CountFailure, TypeInv, tables
<1>9. TaskOK(t, codes)
  BY <1>1, <1>4, <1>7 DEF TaskOK
<1>10. WorkOK(t, users, minted, codes)
  BY <1>1, <1>7, <1>9 DEF WorkOK
<1>11. minted <= minted' /\ codes <= codes' /\ UsersOK(users', minted', codes')
       /\ WorkOK(t, users', minted', codes')
  BY <1>8, <1>10 DEF TypeInv, RestOK
<1>12. \A p \in Phone : users[p].known => users'[p].known
  BY <1>8
<1>13. QED BY <1>5, <1>6, <1>8, <1>11, <1>12, StepTyped

\* A row with its failures forgiven.
LEMMA UnfailedTyped ==
  ASSUME NEW row \in User
  PROVE  /\ Unfailed(row) \in User /\ Unfailed(row).wallet = row.wallet
         /\ Unfailed(row).code = row.code /\ Unfailed(row).label = row.label
         /\ Unfailed(row).pin = row.pin /\ Unfailed(row).tier = row.tier
         /\ Unfailed(row).sim = row.sim /\ Unfailed(row).aged = row.aged
         /\ Unfailed(row).fails = 0 /\ ~Unfailed(row).locked
  BY DEF Unfailed, User

\* The counter and the PIN are written.
LEMMA PinTyped ==
  ASSUME TypeInv, NEW c \in Caller, Store(c) \/ Forgive(c) \/ Challenge(c)
  PROVE  TypeInv'
<1> DEFINE p == h[c].phone
<1>1. /\ users \in [Phone -> User \cup {NoUser}] /\ chosen \in [Phone -> Pin \cup {None}]
      /\ wrong \in [Phone -> Nat] /\ uses \in [1 .. menu.commands -> Nat] /\ minted \in Nat
      /\ codes \in Nat
  BY DEF TypeInv, RestOK, UsersOK
<1>2. h[c].pc \in {"store", "forgive", "challenge"}
  BY DEF Store, Forgive, Challenge, At
<1>3. /\ p \in Phone /\ users[p] \in User /\ users[p].wallet \in 1 .. minted
      /\ users[p].code \in 0 .. codes /\ h[c].pc \in Plan(h[c].does) /\ h[c].does \in Doing
      /\ h[c].does \in {"set_pin", "change_pin", "recover_confirm", "confirm"} => h[c].pin \in Pin
  BY <1>2, AtWork
<1> HIDE DEF p
<1>4. CASE Store(c)
  <2> DEFINE r == [Unfailed(users[p]) EXCEPT !.pin = h[c].pin]
  <2>1. h[c].pc = "store" /\ h[c].does \in {"set_pin", "change_pin", "recover_confirm"}
        /\ h[c].pin \in Pin
    <3>1. h[c].pc = "store"
      BY <1>4 DEF Store, At
    <3>2. h[c].does \in {"set_pin", "change_pin", "recover_confirm"}
      BY <1>3, <3>1, PlanSays
    <3>3. QED BY <1>3, <3>1, <3>2
  <2>2. UNCHANGED <<menu, names, links, pend, begun, minted, codes, crashes, calm, told, bounced>>
    BY <1>4 DEF Store
  <2>3. RestOK'
    <3>1. chosen' \in [Phone -> Pin \cup {None}]
      BY <1>1, <1>4, <2>1 DEF Store
    <3>2. wrong' \in [Phone -> Nat] /\ slips' \in [Phone -> Nat] /\ lapsed' \in [Phone -> BOOLEAN]
      <4>1. CountsAnew(p)
        BY <1>4 DEF Store, p
      <4>2. QED BY <1>3, <4>1, CountsTyped
    <3>3. uses' \in [1 .. menu.commands -> Nat]
      <4> DEFINE D == 1 .. menu.commands
      <4>1. uses \in [D -> Nat]
        BY <1>1
      <4>2. uses' = uses \/ uses' = [uses EXCEPT ![h[c].code] = @ + 1]
        BY <1>4 DEF Store
      <4> HIDE DEF D
      <4>3. uses' \in [D -> Nat]
        BY <4>1, <4>2
      <4>4. QED BY <4>3 DEF D
    <3>4. QED BY <2>2, <3>1, <3>2, <3>3 DEF TypeInv, RestOK
  <2>4. users' = [users EXCEPT ![h[c].phone] = r]
    BY <1>1, <1>3, <1>4 DEF Store, p
  <2>5. r \in User /\ r.wallet \in 1 .. minted' /\ r.code \in 0 .. codes'
    <3>1. Unfailed(users[p]) \in User /\ Unfailed(users[p]).wallet = users[p].wallet
          /\ Unfailed(users[p]).code = users[p].code
      BY <1>3, UnfailedTyped
    <3>2. r \in User
      BY <2>1, <3>1 DEF User
    <3>3. r.wallet = users[p].wallet /\ r.code = users[p].code
      BY <3>1 DEF User
    <3>4. QED BY <1>3, <2>2, <3>2, <3>3
  <2>6. Go(c, "readback") \/ Go(c, "forgive") \/ Go(c, "drop")
    BY <1>4 DEF Store
  <2>7. \E pc \in Plan(h[c].does) : Go(c, pc)
    <3>1. CASE h[c].does = "set_pin"
      <4>1. Go(c, "readback")
        BY <1>4, <3>1 DEF Store
      <4>2. QED BY <3>1, <4>1 DEF Plan
    <3>2. CASE h[c].does = "change_pin"
      <4>1. Go(c, "forgive")
        BY <1>4, <3>2 DEF Store
      <4>2. QED BY <3>2, <4>1 DEF Plan
    <3>3. CASE h[c].does = "recover_confirm"
      <4>1. Go(c, "drop")
        BY <1>4, <3>3 DEF Store
      <4>2. QED BY <3>3, <4>1 DEF Plan
    <3>4. QED BY <2>1, <3>1, <3>2, <3>3
  <2>8. minted <= minted' /\ codes <= codes'
    BY <1>1, <2>2
  <2> HIDE DEF r
  <2>9. QED BY <2>1, <2>3, <2>4, <2>5, <2>7, <2>8, WriteTyped
<1>5. CASE Forgive(c)
  <2> DEFINE r == Unfailed(users[p])
  <2>1. h[c].pc = "forgive"
    BY <1>5 DEF Forgive, At
  <2>2. UNCHANGED <<menu, names, links, pend, begun, minted, codes, crashes, calm, told, chosen,
                    uses, bounced>>
    BY <1>5 DEF Forgive
  <2>3. RestOK'
    <3>1. wrong' \in [Phone -> Nat] /\ slips' \in [Phone -> Nat] /\ lapsed' \in [Phone -> BOOLEAN]
      <4>1. CountsAnew(p)
        BY <1>5 DEF Forgive, p
      <4>2. QED BY <1>3, <4>1, CountsTyped
    <3>2. QED BY <2>2, <3>1 DEF TypeInv, RestOK
  <2>4. users' = [users EXCEPT ![h[c].phone] = r]
    BY <1>5 DEF Forgive, p
  <2>5. r \in User /\ r.wallet \in 1 .. minted' /\ r.code \in 0 .. codes'
    BY <1>3, <2>2, UnfailedTyped
  <2>6. Leave(c) \/ \E pc \in Plan(h[c].does) : Go(c, pc)
    <3>1. CASE h[c].does = "recover_confirm" /\ Go(c, "cool")
      BY <3>1 DEF Plan
    <3>2. CASE h[c].does = "confirm" /\ Go(c, "clear")
      BY <3>2 DEF Plan
    <3>3. QED BY <1>5, <3>1, <3>2 DEF Forgive
  <2>7. minted <= minted' /\ codes <= codes'
    BY <1>1, <2>2
  <2> HIDE DEF r
  <2>8. QED BY <2>1, <2>3, <2>4, <2>5, <2>6, <2>7, WriteTyped
<1>6. CASE Challenge(c)
  <2> DEFINE r == [users[p] EXCEPT !.code = codes', !.aged = FALSE]
  <2>1. h[c].pc = "challenge"
    BY <1>6 DEF Challenge, At
  <2>2. UNCHANGED <<menu, names, links, pend, begun, minted, crashes, calm, ghosts>>
        /\ codes' = codes + 1
    BY <1>6 DEF Challenge
  <2>3. codes' \in Nat /\ codes' \in 0 .. codes' /\ codes <= codes' /\ minted <= minted'
    BY <1>1, <2>2
  <2>4. RestOK'
    BY <2>2, <2>3 DEF TypeInv, RestOK, ghosts, counts
  <2>5. users' = [users EXCEPT ![h[c].phone] = r]
    BY <1>1, <1>3, <1>6 DEF Challenge, p
  <2>6. r \in User /\ r.wallet \in 1 .. minted' /\ r.code \in 0 .. codes'
    <3>1. ASSUME NEW co \in Nat
          PROVE  LET w == [users[p] EXCEPT !.code = co, !.aged = FALSE]
                 IN  w \in User /\ w.wallet = users[p].wallet /\ w.code = co
      BY <1>3 DEF User
    <3>2. r \in User /\ r.wallet = users[p].wallet /\ r.code = codes'
      BY <2>3, <3>1
    <3>3. QED BY <1>3, <2>2, <2>3, <3>2
  <2>7. Leave(c)
    BY <1>6 DEF Challenge
  <2> HIDE DEF r
  <2>8. QED BY <2>1, <2>3, <2>4, <2>5, <2>6, <2>7, WriteTyped
<1>7. QED BY <1>4, <1>5, <1>6

\* A name is registered, a chat is linked, or an index refuses it.
LEMMA RegistryTyped ==
  ASSUME TypeInv, NEW c \in Caller, Register(c) \/ Link(c)
  PROVE  TypeInv'
<1> DEFINE p == h[c].phone
<1>1. /\ users \in [Phone -> User \cup {NoUser}] /\ names \in [Label -> Phone \cup {None}]
      /\ links \in [Chat -> Phone \cup {None}] /\ bounced \subseteq Phone
      /\ minted \in Nat /\ codes \in Nat
  BY DEF TypeInv, RestOK, UsersOK
<1>2. h[c].pc \in {"register", "link"}
  BY DEF Register, Link, At
<1>3. /\ p \in Phone /\ users[p] \in User /\ users[p].wallet \in 1 .. minted
      /\ users[p].code \in 0 .. codes /\ h[c].pc \in Plan(h[c].does) /\ h[c].does \in Doing
      /\ (h[c].does = "claim_name" => h[c].label \in Label)
      /\ (h[c].does = "link" => h[c].chat \in Chat)
  BY <1>2, AtWork
<1>4. CASE Register(c)
  <2> DEFINE r == [users[p] EXCEPT !.label = h[c].label]
  <2>1. h[c].pc = "register" /\ h[c].label \in Label
    <3>1. h[c].pc = "register"
      BY <1>4 DEF Register, At
    <3>2. QED BY <1>3, <3>1, PlanSays
  <2>2. UNCHANGED <<menu, links, pend, begun, minted, codes, crashes, calm, told, chosen, wrong, lapsed, slips,
                    uses>>
        /\ Leave(c)
    BY <1>4 DEF Register, counts
  <2>3. minted <= minted' /\ codes <= codes'
    BY <1>1, <2>2
  <2>4. CASE bounced' = bounced \cup {p} /\ UNCHANGED <<names, users>>
    <3>1. RestOK'
      BY <1>1, <1>3, <2>2, <2>4 DEF TypeInv, RestOK
    <3>2. QED BY <2>1, <2>2, <2>4, <3>1, MoveTyped
  <2>5. CASE /\ names' = [m \in Label |-> IF m = h[c].label THEN p
                                           ELSE IF names[m] = p THEN None ELSE names[m]]
             /\ users' = [users EXCEPT ![p].label = h[c].label]
             /\ UNCHANGED bounced
    <3>1. names' \in [Label -> Phone \cup {None}]
      BY <1>1, <1>3, <2>5
    <3>2. RestOK'
      BY <2>2, <2>5, <3>1 DEF TypeInv, RestOK
    <3>3. users' = [users EXCEPT ![h[c].phone] = r]
      BY <1>1, <1>3, <2>5
    <3>4. r \in User /\ r.wallet \in 1 .. minted' /\ r.code \in 0 .. codes'
      <4>1. r \in User /\ r.wallet = users[p].wallet /\ r.code = users[p].code
        BY <1>3, <2>1 DEF User
      <4>2. QED BY <1>3, <2>2, <4>1
    <3> HIDE DEF r
    <3>5. QED BY <2>1, <2>2, <2>3, <3>2, <3>3, <3>4, WriteTyped
  <2>6. QED BY <1>4, <2>4, <2>5 DEF Register
<1>5. CASE Link(c)
  <2>1. h[c].pc = "link" /\ h[c].chat \in Chat
    <3>1. h[c].pc = "link"
      BY <1>5 DEF Link, At
    <3>2. QED BY <1>3, <3>1, PlanSays
  <2>2. UNCHANGED <<menu, users, names, pend, begun, minted, codes, crashes, calm, told, chosen,
                    wrong, lapsed, slips, uses>>
    BY <1>5 DEF Link, counts
  <2>3. links' \in [Chat -> Phone \cup {None}] /\ bounced' \subseteq Phone
    <3>1. CASE \E s \in Chat \ {h[c].chat} : links[s] = p
      BY <1>1, <1>3, <1>5, <3>1 DEF Link
    <3>2. CASE ~\E s \in Chat \ {h[c].chat} : links[s] = p
      BY <1>1, <1>3, <1>5, <2>1, <3>2 DEF Link
    <3>3. QED BY <3>1, <3>2
  <2>4. RestOK'
    BY <2>2, <2>3 DEF TypeInv, RestOK
  <2>5. CASE Leave(c)
    BY <2>1, <2>2, <2>4, <2>5, MoveTyped
  <2>6. CASE h' = [h EXCEPT ![c] = [Task("call", p) EXCEPT !.pc = "meet"]]
    <3> DEFINE t == [Task("call", p) EXCEPT !.pc = "meet"]
    <3>1. t \in Work /\ t.pc = "meet" /\ t.user = NoUser /\ t.does = "call" /\ t.phone = p
      BY <1>3 DEF Task, Work, Idle, Steps, Doing, Pending
    <3>2. TaskOK(t, codes)
      BY <1>3 DEF TaskOK, Task, Idle
    <3> HIDE DEF t
    <3>3. WorkOK(t, users', minted', codes')
      BY <2>2, <3>1, <3>2 DEF WorkOK, NoUser
    <3>4. minted <= minted' /\ codes <= codes' /\ UsersOK(users', minted', codes')
      BY <1>1, <2>2 DEF TypeInv
    <3>5. \A q \in Phone : users[q].known => users'[q].known
      BY <2>2
    <3>6. h' = [h EXCEPT ![c] = t]
      BY <2>6 DEF t
    <3>7. QED BY <2>4, <3>1, <3>3, <3>4, <3>5, <3>6, StepTyped
  <2>7. QED BY <1>5, <2>5, <2>6 DEF Link
<1>6. QED BY <1>4, <1>5

\* Time passes for a row, or a command is cut off.
LEMMA AroundTyped ==
  ASSUME TypeInv
  PROVE  /\ \A p \in Phone : LockPasses(p) \/ CodeAges(p) => TypeInv'
         /\ \A c \in Caller : Crash(c) => TypeInv'
<1>1. users \in [Phone -> User \cup {NoUser}] /\ minted \in Nat /\ codes \in Nat
      /\ h \in [Caller -> Work]
  BY DEF TypeInv, RestOK, UsersOK
<1>2. ASSUME NEW p \in Phone, NEW r \in User, users' = [users EXCEPT ![p] = r],
             r.wallet \in 1 .. minted, r.code \in 0 .. codes,
             UNCHANGED <<h, minted, codes>>, RestOK'
      PROVE  TypeInv'
  <2>1. minted <= minted' /\ codes <= codes'
    BY <1>1, <1>2
  <2>2. UsersOK(users', minted', codes') /\ \A q \in Phone : users[q].known => users'[q].known
    BY <1>2, <2>1, RowTyped
  <2>3. PICK c \in Caller : TRUE
    BY AccountsAssumption
  <2>4. ASSUME NEW d \in Caller
        PROVE  WorkOK(h[d], users', minted', codes')
    <3>1. WorkOK(h[d], users, minted, codes)
      BY DEF TypeInv
    <3>2. h[d].pc # "idle" => h[d].phone \in Phone
      BY <3>1 DEF WorkOK, TaskOK
    <3>3. QED BY <1>2, <2>2, <3>1, <3>2 DEF WorkOK
  <2>5. \A d \in Caller : WorkOK(h'[d], users', minted', codes')
    BY <1>2, <2>4
  <2>6. QED BY <1>1, <1>2, <2>2, <2>5 DEF TypeInv
<1>3. ASSUME NEW p \in Phone, LockPasses(p)
      PROVE  TypeInv'
  <2> DEFINE r == [users[p] EXCEPT !.locked = FALSE]
  <2>1. users[p] \in User /\ users[p].wallet \in 1 .. minted /\ users[p].code \in 0 .. codes
    <3>1. users[p].known /\ users[p] \in User \cup {NoUser}
      BY <1>1, <1>3 DEF LockPasses
    <3>2. QED BY <3>1, KnownIsUser DEF TypeInv, UsersOK
  <2>2. r \in User /\ r.wallet = users[p].wallet /\ r.code = users[p].code
    BY <2>1 DEF User
  <2>3. users' = [users EXCEPT ![p] = r]
    BY <1>1, <1>3 DEF LockPasses
  <2>4. UNCHANGED <<menu, h, names, links, pend, begun, minted, codes, crashes, calm, told, chosen,
                    uses, bounced>>
    BY <1>3 DEF LockPasses
  <2>5. RestOK'
    <3>1. wrong' \in [Phone -> Nat] /\ slips' \in [Phone -> Nat] /\ lapsed' \in [Phone -> BOOLEAN]
      BY <1>3, CountsTyped
    <3>2. QED BY <2>4, <3>1 DEF TypeInv, RestOK
  <2> HIDE DEF r
  <2>6. QED BY <1>2, <2>1, <2>2, <2>3, <2>4, <2>5
<1>4. ASSUME NEW p \in Phone, CodeAges(p)
      PROVE  TypeInv'
  <2> DEFINE r == [users[p] EXCEPT !.aged = TRUE]
  <2>1. users[p] \in User /\ users[p].wallet \in 1 .. minted /\ users[p].code \in 0 .. codes
    <3>1. users[p].known /\ users[p] \in User \cup {NoUser}
      BY <1>1, <1>4 DEF CodeAges
    <3>2. QED BY <3>1, KnownIsUser DEF TypeInv, UsersOK
  <2>2. r \in User /\ r.wallet = users[p].wallet /\ r.code = users[p].code
    BY <2>1 DEF User
  <2>3. users' = [users EXCEPT ![p] = r]
    BY <1>1, <1>4 DEF CodeAges
  <2>4. UNCHANGED <<menu, h, names, links, pend, begun, minted, codes, crashes, calm, ghosts>>
    BY <1>4 DEF CodeAges
  <2>5. RestOK'
    BY <2>4, RestSame DEF TypeInv
  <2> HIDE DEF r
  <2>6. QED BY <1>2, <2>1, <2>2, <2>3, <2>4, <2>5
<1>5. ASSUME NEW c \in Caller, Crash(c)
      PROVE  TypeInv'
  <2>1. UNCHANGED <<menu, users, names, links, pend, begun, minted, codes, told, chosen, uses,
                    bounced>> /\ Leave(c)
    BY <1>5 DEF Crash, tables
  <2>2. crashes' \in 0 .. MaxCrash
    BY <1>5, AccountsAssumption DEF Crash, TypeInv, RestOK
  <2>3. calm' \in [Phone -> BOOLEAN]
    BY <1>5 DEF Crash, TypeInv, RestOK
  <2>4. RestOK'
    <3>1. h[c].phone \in Phone
      BY <1>5 DEF Crash, TypeInv, WorkOK, TaskOK
    <3>2. wrong' \in [Phone -> Nat] /\ slips' \in [Phone -> Nat] /\ lapsed' \in [Phone -> BOOLEAN]
      BY <1>5, <3>1, CountsTyped
    <3>3. QED BY <2>1, <2>2, <2>3, <3>2 DEF TypeInv, RestOK
  <2>5. UsersOK(users', minted', codes') /\ minted <= minted' /\ codes <= codes'
    BY <1>1, <2>1 DEF TypeInv
  <2>6. \A q \in Phone : users[q].known => users'[q].known
    BY <2>1
  <2>7. QED BY <2>1, <2>4, <2>5, <2>6, LeaveTyped
<1>6. QED BY <1>3, <1>4, <1>5

\* Every step keeps the types.
LEMMA TypeNext == TypeInv /\ [Next]_vars => TypeInv'
<1> SUFFICES ASSUME TypeInv, [Next]_vars PROVE TypeInv'
  OBVIOUS
<1>1. CASE UNCHANGED vars
  BY <1>1 DEF TypeInv, RestOK, vars, tables, ghosts, counts
<1>2. ASSUME NEW c \in Caller, Step(c)
      PROVE  TypeInv'
  BY <1>2, EnsureTyped, WritingTyped, MovingTyped, CountTyped, PinTyped, RegistryTyped DEF Step
<1>3. ASSUME NEW c \in Caller, Command(c) \/ Crash(c)
      PROVE  TypeInv'
  BY <1>3, CommandTyped, AroundTyped
<1>4. ASSUME NEW p \in Phone, LockPasses(p) \/ CodeAges(p)
      PROVE  TypeInv'
  BY <1>4, AroundTyped
<1>5. QED BY <1>1, <1>2, <1>3, <1>4 DEF Next

\* Types hold in every state.
LEMMA TypeAlways == Spec => []TypeInv
  BY TypeInit, TypeNext, PTL DEF Spec

-----------------------------------------------------------------------------
(* What a step leaves alone. *)

\* One caller moves on, or is done; a link goes on as a call.
Moves(c) ==
  /\ \A d \in Caller \ {c} : h'[d] = h[d]
  /\ \/ h'[c] = Idle
     \/ /\ h'[c].phone = h[c].phone /\ h'[c].pc # "idle"
        /\ h'[c].does \in {h[c].does, "call"} /\ (h'[c].does = h[c].does => h'[c].label = h[c].label)

\* Nothing is written about other phones.
Keeps(c) ==
  \A q \in Phone \ {h[c].phone} :
    /\ users'[q] = users[q] /\ told'[q] = told[q] /\ chosen'[q] = chosen[q]
    /\ wrong'[q] = wrong[q] /\ slips'[q] = slips[q] /\ lapsed'[q] = lapsed[q]

\* The ways a command moves.
LEMMA WaysToMove ==
  ASSUME TypeInv, NEW c \in Caller, h[c].pc # "idle"
  PROVE  /\ Leave(c) => Moves(c)
         /\ \A pc \in Steps \ {"idle"} : Go(c, pc) => Moves(c)
         /\ \A u : Proceed(c, u) => Moves(c)
         /\ \A u, pc : pc # "idle" /\ h' = [h EXCEPT ![c].user = u, ![c].pc = pc] => Moves(c)
         /\ \A n : h' = [h EXCEPT ![c].n = n, ![c].pc = "mark"] => Moves(c)
         /\ h[c].does # "call" /\ h' = [h EXCEPT ![c] = [Task("call", h[c].phone) EXCEPT !.pc = "meet"]]
              => Moves(c)
<1>1. h \in [Caller -> Work] /\ h[c] \in Work
  BY DEF TypeInv
<1>2. Leave(c) => Moves(c)
  BY <1>1 DEF Leave, Moves
<1>3. ASSUME NEW pc \in Steps \ {"idle"}, Go(c, pc)
      PROVE  Moves(c)
  BY <1>1, <1>3 DEF Go, Moves, Work
<1>4. ASSUME NEW u, NEW pc, pc # "idle", h' = [h EXCEPT ![c].user = u, ![c].pc = pc]
      PROVE  Moves(c)
  BY <1>1, <1>4 DEF Moves, Work
<1>5. ASSUME NEW u, Proceed(c, u)
      PROVE  Moves(c)
  <2>1. CASE Route(h[c], u) = "idle"
    BY <1>2, <1>5, <2>1 DEF Proceed
  <2>2. CASE Route(h[c], u) # "idle"
    BY <1>4, <1>5, <2>2 DEF Proceed
  <2>3. QED BY <2>1, <2>2
<1>6. ASSUME NEW n, h' = [h EXCEPT ![c].n = n, ![c].pc = "mark"]
      PROVE  Moves(c)
  BY <1>1, <1>6 DEF Moves, Work
<1>7. ASSUME h' = [h EXCEPT ![c] = [Task("call", h[c].phone) EXCEPT !.pc = "meet"]],
             h[c].does # "call"
      PROVE  Moves(c)
  BY <1>1, <1>7 DEF Moves, Task, Idle
<1>8. QED BY <1>2, <1>3, <1>4, <1>5, <1>6, <1>7

\* Every step of a command is about one caller and one phone.
LEMMA StepMoves ==
  ASSUME TypeInv, NEW c \in Caller, Step(c)
  PROVE  /\ h[c].pc # "idle" /\ h[c].phone \in Phone /\ h[c].does # "none"
         /\ Moves(c) /\ Keeps(c)
         /\ UNCHANGED <<menu, begun, crashes, calm>>
         /\ codes' = codes \/ (codes' = codes + 1 /\ h'[c] = Idle)
<1>1. /\ h \in [Caller -> Work] /\ h[c] \in Work /\ WorkOK(h[c], users, minted, codes)
      /\ users \in [Phone -> User \cup {NoUser}] /\ told \in [Phone -> SUBSET Nat]
      /\ chosen \in [Phone -> Pin \cup {None}] /\ wrong \in [Phone -> Nat]
      /\ slips \in [Phone -> Nat] /\ lapsed \in [Phone -> BOOLEAN]
  BY DEF TypeInv, RestOK, UsersOK
<1> DEFINE Alone == /\ h[c].pc # "idle" /\ Moves(c) /\ Keeps(c)
                    /\ UNCHANGED <<menu, begun, crashes, calm>>
                    /\ codes' = codes \/ (codes' = codes + 1 /\ h'[c] = Idle)
           r(row) == users' = [users EXCEPT ![h[c].phone] = row]
<1>2. ASSUME UNCHANGED <<users, told, chosen, wrong, slips, lapsed>>
      PROVE  Keeps(c)
  BY <1>2 DEF Keeps
<1>3. ASSUME Meet(c) PROVE Alone
  <2>1. h[c].pc # "idle" /\ UNCHANGED <<menu, begun, crashes, calm>>
    BY <1>3 DEF Meet, At, tables
  <2>2. Moves(c)
    BY <1>3, <2>1, WaysToMove DEF Meet, Steps
  <2>3. Keeps(c)
    BY <1>2, <1>3 DEF Meet, ghosts, counts, tables
  <2>4. codes' = codes
    BY <1>3 DEF Meet
  <2>5. QED BY <2>1, <2>2, <2>3, <2>4
<1>4. ASSUME Mint(c) PROVE Alone
  <2>1. h[c].pc # "idle" /\ UNCHANGED <<menu, begun, crashes, calm>>
    BY <1>4 DEF Mint, At, tables
  <2>2. Moves(c)
    <3>1. CASE h' = [h EXCEPT ![c].user = NewUser(minted', h[c].does = "join"), ![c].pc = "upsert"]
      BY <2>1, <3>1, WaysToMove
    <3>2. CASE Leave(c)
      BY <2>1, <3>2, WaysToMove
    <3>3. QED BY <1>4, <3>1, <3>2 DEF Mint
  <2>3. Keeps(c)
    BY <1>2, <1>4 DEF Mint, ghosts, counts, tables
  <2>4. codes' = codes
    BY <1>4 DEF Mint
  <2>5. QED BY <2>1, <2>2, <2>3, <2>4
<1>5. ASSUME Upsert(c) PROVE Alone
  <2>1. h[c].pc # "idle" /\ UNCHANGED <<menu, begun, crashes, calm>>
    BY <1>5 DEF Upsert, At, tables
  <2>2. Moves(c)
    BY <1>5, <2>1, WaysToMove DEF Upsert, Steps
  <2>3. Keeps(c)
    BY <1>1, <1>5 DEF Upsert, Keeps, ghosts, counts, tables
  <2>4. codes' = codes
    BY <1>5 DEF Upsert
  <2>5. QED BY <2>1, <2>2, <2>3, <2>4
<1>6. ASSUME Greet(c) PROVE Alone
  <2>1. h[c].pc # "idle" /\ UNCHANGED <<menu, begun, crashes, calm>>
    BY <1>6 DEF Greet, At, tables
  <2>2. Moves(c)
    BY <1>6, <2>1, WaysToMove DEF Greet, Steps
  <2>3. Keeps(c)
    BY <1>2, <1>6 DEF Greet, ghosts, counts, tables
  <2>4. codes' = codes
    BY <1>6 DEF Greet
  <2>5. QED BY <2>1, <2>2, <2>3, <2>4
<1>7. ASSUME SetUserName(c) PROVE Alone
  <2>1. h[c].pc # "idle" /\ UNCHANGED <<menu, begun, crashes, calm>>
    BY <1>7 DEF SetUserName, At, tables
  <2>2. Moves(c)
    BY <1>7, <2>1, WaysToMove DEF SetUserName, Steps
  <2>3. Keeps(c)
    BY <1>1, <1>7 DEF SetUserName, Keeps, ghosts, counts, tables
  <2>4. codes' = codes
    BY <1>7 DEF SetUserName
  <2>5. QED BY <2>1, <2>2, <2>3, <2>4
<1>8. ASSUME ReadBack(c) PROVE Alone
  <2>1. h[c].pc # "idle" /\ UNCHANGED <<menu, begun, crashes, calm>>
    BY <1>8 DEF ReadBack, At, tables
  <2>2. Moves(c)
    BY <1>8, <2>1, WaysToMove DEF ReadBack, Steps
  <2>3. Keeps(c)
    BY <1>2, <1>8 DEF ReadBack, ghosts, counts, tables
  <2>4. codes' = codes
    BY <1>8 DEF ReadBack
  <2>5. QED BY <2>1, <2>2, <2>3, <2>4
<1>9. ASSUME Clear(c) PROVE Alone
  <2>1. h[c].pc # "idle" /\ UNCHANGED <<menu, begun, crashes, calm>>
    BY <1>9 DEF Clear, At, tables
  <2>2. Moves(c)
    BY <1>9, <2>1, WaysToMove DEF Clear, Steps
  <2>3. Keeps(c)
    BY <1>1, <1>9 DEF Clear, Keeps, ghosts, counts, tables
  <2>4. codes' = codes
    BY <1>9 DEF Clear
  <2>5. QED BY <2>1, <2>2, <2>3, <2>4
<1>10. ASSUME Store(c) PROVE Alone
  <2>1. h[c].pc # "idle" /\ UNCHANGED <<menu, begun, crashes, calm>>
    BY <1>10 DEF Store, At, tables
  <2>2. Moves(c)
    BY <1>10, <2>1, WaysToMove DEF Store, Steps
  <2>3. Keeps(c)
    BY <1>1, <1>10 DEF Store, CountsAnew, Keeps
  <2>4. codes' = codes
    BY <1>10 DEF Store
  <2>5. QED BY <2>1, <2>2, <2>3, <2>4
<1>11. ASSUME Forgive(c) PROVE Alone
  <2>1. h[c].pc # "idle" /\ UNCHANGED <<menu, begun, crashes, calm>>
    BY <1>11 DEF Forgive, At, tables
  <2>2. Moves(c)
    BY <1>11, <2>1, WaysToMove DEF Forgive, Steps
  <2>3. Keeps(c)
    BY <1>1, <1>11 DEF Forgive, CountsAnew, Keeps
  <2>4. codes' = codes
    BY <1>11 DEF Forgive
  <2>5. QED BY <2>1, <2>2, <2>3, <2>4
<1>12. ASSUME CountFailure(c) PROVE Alone
  <2>1. h[c].pc # "idle" /\ UNCHANGED <<menu, begun, crashes, calm>>
    BY <1>12 DEF CountFailure, At, tables
  <2>2. Moves(c)
    BY <1>12, <2>1, WaysToMove DEF CountFailure, Steps
  <2>3. Keeps(c)
    BY <1>2, <1>12 DEF CountFailure, ghosts, counts, tables
  <2>4. codes' = codes
    BY <1>12 DEF CountFailure
  <2>5. QED BY <2>1, <2>2, <2>3, <2>4
<1>13. ASSUME MarkFailure(c) PROVE Alone
  <2>1. h[c].pc # "idle" /\ UNCHANGED <<menu, begun, crashes, calm>>
    BY <1>13 DEF MarkFailure, At, tables
  <2>2. Moves(c)
    BY <1>13, <2>1, WaysToMove DEF MarkFailure, Steps
  <2>3. Keeps(c)
    BY <1>1, <1>13 DEF MarkFailure, Keeps, ghosts, counts, tables
  <2>4. codes' = codes
    BY <1>13 DEF MarkFailure
  <2>5. QED BY <2>1, <2>2, <2>3, <2>4
<1>14. ASSUME Recheck(c) PROVE Alone
  <2>1. h[c].pc # "idle" /\ UNCHANGED <<menu, begun, crashes, calm>>
    BY <1>14 DEF Recheck, At, tables
  <2>2. Moves(c)
    BY <1>14, <2>1, WaysToMove DEF Recheck, Steps
  <2>3. Keeps(c)
    BY <1>2, <1>14 DEF Recheck, ghosts, counts, tables
  <2>4. codes' = codes
    BY <1>14 DEF Recheck
  <2>5. QED BY <2>1, <2>2, <2>3, <2>4
<1>15. ASSUME Challenge(c) PROVE Alone
  <2>1. h[c].pc # "idle" /\ UNCHANGED <<menu, begun, crashes, calm>>
    BY <1>15 DEF Challenge, At, tables
  <2>2. Moves(c)
    BY <1>15, <2>1, WaysToMove DEF Challenge, Steps
  <2>3. Keeps(c)
    BY <1>1, <1>15 DEF Challenge, Keeps, ghosts, counts, tables
  <2>4. codes' = codes + 1 /\ h'[c] = Idle
    BY <1>1, <1>15 DEF Challenge, Leave
  <2>5. QED BY <2>1, <2>2, <2>3, <2>4
<1>16. ASSUME DropCode(c) PROVE Alone
  <2>1. h[c].pc # "idle" /\ UNCHANGED <<menu, begun, crashes, calm>>
    BY <1>16 DEF DropCode, At, tables
  <2>2. Moves(c)
    BY <1>16, <2>1, WaysToMove DEF DropCode, Steps
  <2>3. Keeps(c)
    BY <1>1, <1>16 DEF DropCode, Keeps, ghosts, counts, tables
  <2>4. codes' = codes
    BY <1>16 DEF DropCode
  <2>5. QED BY <2>1, <2>2, <2>3, <2>4
<1>17. ASSUME CoolDown(c) PROVE Alone
  <2>1. h[c].pc # "idle" /\ UNCHANGED <<menu, begun, crashes, calm>>
    BY <1>17 DEF CoolDown, At, tables
  <2>2. Moves(c)
    BY <1>17, <2>1, WaysToMove DEF CoolDown, Steps
  <2>3. Keeps(c)
    BY <1>1, <1>17 DEF CoolDown, Keeps, ghosts, counts, tables
  <2>4. codes' = codes
    BY <1>17 DEF CoolDown
  <2>5. QED BY <2>1, <2>2, <2>3, <2>4
<1>18. ASSUME Park(c) PROVE Alone
  <2>1. h[c].pc # "idle" /\ UNCHANGED <<menu, begun, crashes, calm>>
    BY <1>18 DEF Park, At, tables
  <2>2. Moves(c)
    BY <1>18, <2>1, WaysToMove DEF Park, Steps
  <2>3. Keeps(c)
    BY <1>2, <1>18 DEF Park, ghosts, counts, tables
  <2>4. codes' = codes
    BY <1>18 DEF Park
  <2>5. QED BY <2>1, <2>2, <2>3, <2>4
<1>19. ASSUME Look(c) PROVE Alone
  <2>1. h[c].pc # "idle" /\ UNCHANGED <<menu, begun, crashes, calm>>
    BY <1>19 DEF Look, At, tables
  <2>2. Moves(c)
    BY <1>19, <2>1, WaysToMove DEF Look, Steps
  <2>3. Keeps(c)
    BY <1>2, <1>19 DEF Look, ghosts, counts, tables
  <2>4. codes' = codes
    BY <1>19 DEF Look
  <2>5. QED BY <2>1, <2>2, <2>3, <2>4
<1>20. ASSUME Register(c) PROVE Alone
  <2>1. h[c].pc # "idle" /\ UNCHANGED <<menu, begun, crashes, calm>>
    BY <1>20 DEF Register, At, tables
  <2>2. Moves(c)
    BY <1>20, <2>1, WaysToMove DEF Register, Steps
  <2>3. Keeps(c)
    BY <1>1, <1>20 DEF Register, Keeps, ghosts, counts, tables
  <2>4. codes' = codes
    BY <1>20 DEF Register
  <2>5. QED BY <2>1, <2>2, <2>3, <2>4
<1>21. ASSUME Unlink(c) PROVE Alone
  <2>1. h[c].pc # "idle" /\ UNCHANGED <<menu, begun, crashes, calm>>
    BY <1>21 DEF Unlink, At, tables
  <2>2. Moves(c)
    BY <1>21, <2>1, WaysToMove DEF Unlink, Steps
  <2>3. Keeps(c)
    BY <1>2, <1>21 DEF Unlink, ghosts, counts, tables
  <2>4. codes' = codes
    BY <1>21 DEF Unlink
  <2>5. QED BY <2>1, <2>2, <2>3, <2>4
<1>22. ASSUME Link(c) PROVE Alone
  <2>1. h[c].pc # "idle" /\ UNCHANGED <<menu, begun, crashes, calm>>
    BY <1>22 DEF Link, At, tables
  <2>2. Moves(c)
    <3>1. h[c].does = "link"
      BY <1>22, AtWork, PlanSays DEF Link, At
    <3>2. QED BY <1>22, <2>1, <3>1, WaysToMove DEF Link
  <2>3. Keeps(c)
    BY <1>2, <1>22 DEF Link, ghosts, counts, tables
  <2>4. codes' = codes
    BY <1>22 DEF Link
  <2>5. QED BY <2>1, <2>2, <2>3, <2>4
<1>23. ASSUME Reread(c) PROVE Alone
  <2>1. h[c].pc # "idle" /\ UNCHANGED <<menu, begun, crashes, calm>>
    BY <1>23 DEF Reread, At, tables
  <2>2. Moves(c)
    BY <1>23, <2>1, WaysToMove DEF Reread, Steps
  <2>3. Keeps(c)
    BY <1>2, <1>23 DEF Reread, ghosts, counts, tables
  <2>4. codes' = codes
    BY <1>23 DEF Reread
  <2>5. QED BY <2>1, <2>2, <2>3, <2>4
<1>24. ASSUME Grade(c) PROVE Alone
  <2>1. h[c].pc # "idle" /\ UNCHANGED <<menu, begun, crashes, calm>>
    BY <1>24 DEF Grade, At, tables
  <2>2. Moves(c)
    BY <1>24, <2>1, WaysToMove DEF Grade, Steps
  <2>3. Keeps(c)
    BY <1>1, <1>24 DEF Grade, Keeps, ghosts, counts, tables
  <2>4. codes' = codes
    BY <1>24 DEF Grade
  <2>5. QED BY <2>1, <2>2, <2>3, <2>4
<1>25. ASSUME Lookup(c) PROVE Alone
  <2>1. h[c].pc # "idle" /\ UNCHANGED <<menu, begun, crashes, calm>>
    BY <1>25 DEF Lookup, At, tables
  <2>2. Moves(c)
    BY <1>25, <2>1, WaysToMove DEF Lookup, Steps
  <2>3. Keeps(c)
    BY <1>1, <1>25 DEF Lookup, Keeps, ghosts, counts, tables
  <2>4. codes' = codes
    BY <1>25 DEF Lookup
  <2>5. QED BY <2>1, <2>2, <2>3, <2>4
<1>26. ASSUME Attested(c) PROVE Alone
  <2>1. h[c].pc # "idle" /\ UNCHANGED <<menu, begun, crashes, calm>>
    BY <1>26 DEF Attested, At, tables
  <2>2. Moves(c)
    BY <1>26, <2>1, WaysToMove DEF Attested, Steps
  <2>3. Keeps(c)
    BY <1>1, <1>26 DEF Attested, Keeps, ghosts, counts, tables
  <2>4. codes' = codes
    BY <1>26 DEF Attested
  <2>5. QED BY <2>1, <2>2, <2>3, <2>4
<1>27. ASSUME Refused(c) PROVE Alone
  <2>1. h[c].pc # "idle" /\ UNCHANGED <<menu, begun, crashes, calm>>
    BY <1>27 DEF Refused, At, tables
  <2>2. Moves(c)
    BY <1>27, <2>1, WaysToMove DEF Refused, Steps
  <2>3. Keeps(c)
    BY <1>1, <1>27 DEF Refused, Keeps, ghosts, counts, tables
  <2>4. codes' = codes
    BY <1>27 DEF Refused
  <2>5. QED BY <2>1, <2>2, <2>3, <2>4
<1>28. Alone
  BY <1>3, <1>4, <1>5, <1>6, <1>7, <1>8, <1>9, <1>10, <1>11, <1>12, <1>13, <1>14, <1>15, <1>16, <1>17, <1>18, <1>19, <1>20, <1>21, <1>22, <1>23, <1>24, <1>25, <1>26, <1>27
     DEF Step
<1>29. h[c].phone \in Phone /\ h[c].does # "none"
  BY <1>1, <1>28 DEF WorkOK, TaskOK
<1>30. QED BY <1>28, <1>29

-----------------------------------------------------------------------------
(* Codes: no more of them than commands. *)

Working == {c \in Caller : h[c].pc # "idle"}
CountInv == codes + Cardinality(Working) <= begun

\* One more caller at work, one less, or as many.
LEMMA WorkingCount ==
  ASSUME TypeInv
  PROVE  /\ IsFiniteSet(Working) /\ Cardinality(Working) \in Nat
         /\ \A c \in Caller : c \notin Working => Cardinality(Working \cup {c}) = Cardinality(Working) + 1
         /\ \A c \in Working : Cardinality(Working \ {c}) = Cardinality(Working) - 1
<1>1. IsFiniteSet(Working)
  BY AccountsAssumption, FS_Subset DEF Working
<1>2. QED BY <1>1, FS_CardinalityType, FS_AddElement, FS_RemoveElement

\* Fewer are at work than before, or as many.
LEMMA WorkingLess ==
  ASSUME TypeInv, Working' \subseteq Working
  PROVE  Cardinality(Working') \in Nat /\ Cardinality(Working') <= Cardinality(Working)
<1>1. IsFiniteSet(Working)
  BY AccountsAssumption, FS_Subset DEF Working
<1>2. QED BY <1>1, FS_Subset, FS_CardinalityType

\* A code is handed out at the end of a command that has been begun.
LEMMA CountNext == TypeInv /\ CountInv /\ [Next]_vars => CountInv'
<1> SUFFICES ASSUME TypeInv, CountInv, [Next]_vars PROVE CountInv'
  OBVIOUS
<1>1. /\ codes \in Nat /\ begun \in Nat /\ h \in [Caller -> Work]
      /\ Cardinality(Working) \in Nat
  <2>1. menu.commands \in Nat
    BY MenusAssumption DEF TypeInv, RestOK
  <2>2. QED BY <2>1, WorkingCount DEF TypeInv, RestOK
<1>2. ASSUME Working' \subseteq Working, UNCHANGED <<codes, begun>>
      PROVE  CountInv'
  BY <1>1, <1>2, WorkingLess DEF CountInv
<1>3. CASE UNCHANGED <<h, codes, begun>>
  <2>1. Working' = Working
    BY <1>3 DEF Working
  <2>2. QED BY <1>2, <1>3, <2>1
<1>4. ASSUME NEW c \in Caller, Command(c)
      PROVE  CountInv'
  <2>1. PICK task \in Work : Start(c, task)
    BY <1>4, CommandStarts
  <2>2. begun' = begun + 1 /\ codes' = codes
    BY <2>1 DEF Start
  <2>3. c \notin Working /\ Working' = Working \cup {c}
    BY <1>1, <2>1 DEF Start, Working, Work
  <2>4. Cardinality(Working') = Cardinality(Working) + 1
    BY <2>3, WorkingCount
  <2>5. QED BY <1>1, <2>2, <2>4 DEF CountInv
<1>5. ASSUME NEW c \in Caller, Step(c)
      PROVE  CountInv'
  <2>1. /\ h[c].pc # "idle" /\ \A d \in Caller \ {c} : h'[d] = h[d]
        /\ begun' = begun /\ (codes' = codes \/ (codes' = codes + 1 /\ h'[c] = Idle))
    BY <1>5, StepMoves DEF Moves
  <2>2. Working' \subseteq Working
    BY <2>1 DEF Working
  <2>3. CASE codes' = codes
    BY <1>2, <2>1, <2>2, <2>3
  <2>4. CASE codes' = codes + 1 /\ h'[c] = Idle
    <3>1. c \in Working /\ Working' = Working \ {c}
      BY <2>1, <2>4, IdleTyped DEF Working
    <3>2. Cardinality(Working') = Cardinality(Working) - 1
      BY <3>1, WorkingCount
    <3>3. QED BY <1>1, <2>1, <2>4, <3>2 DEF CountInv
  <2>5. QED BY <2>1, <2>3, <2>4
<1>6. ASSUME NEW c \in Caller, Crash(c)
      PROVE  CountInv'
  <2>1. Working' \subseteq Working
    BY <1>1, <1>6, IdleTyped DEF Crash, Leave, Working
  <2>2. QED BY <1>2, <1>6, <2>1 DEF Crash
<1>7. ASSUME NEW p \in Phone, LockPasses(p) \/ CodeAges(p)
      PROVE  CountInv'
  BY <1>3, <1>7 DEF LockPasses, CodeAges
<1>8. CASE UNCHANGED vars
  BY <1>3, <1>8 DEF vars
<1>9. QED BY <1>4, <1>5, <1>6, <1>7, <1>8 DEF Next

\* No command has begun.
LEMMA CountInit == Init => CountInv
<1> SUFFICES ASSUME Init PROVE CountInv
  OBVIOUS
<1>1. Working = {}
  BY IdleTyped DEF Init, Working
<1>2. QED BY <1>1, FS_EmptySet DEF Init, CountInv

\* Types hold in every state: a caller is idle or has a command with what it
\* needs, rows are users, and no wallet of a row was never created.
THEOREM TypesAlwaysHold == Spec => []TypeOK
<1>1. ASSUME TypeInv, CountInv
      PROVE  TypeOK
  <2>1. menu.commands \in Nat
    BY <1>1, MenusAssumption DEF TypeInv, RestOK
  <2>2. codes \in 0 .. begun
    BY <1>1, <2>1, WorkingCount DEF TypeInv, RestOK, CountInv
  <2>3. \A c \in Caller : (h[c].pc = "idle" <=> h[c] = Idle)
    BY <1>1, IdleTyped DEF TypeInv, WorkOK
  <2>4. \A c \in Caller : h[c].phone \in Phone \cup {None} /\ h[c].user \in User \cup {NoUser}
    BY <1>1 DEF TypeInv, Work
  <2>5. QED BY <1>1, <2>2, <2>3, <2>4 DEF TypeInv, RestOK, UsersOK, TypeOK
<1>2. QED BY <1>1, TypeInit, TypeNext, CountInit, CountNext, PTL DEF Spec

-----------------------------------------------------------------------------
(* The registry of names. *)

\* A row says which label is its phone's.
Labelled(us, p, l) == us[p].known /\ us[p].label = l

\* Who is at register claims a label.
LEMMA AtRegister ==
  ASSUME TypeInv, NEW c \in Caller, Register(c)
  PROVE  h[c].phone \in Phone /\ h[c].label \in Label /\ users[h[c].phone] \in User
         /\ users[h[c].phone].known
<1>1. h[c].pc = "register"
  BY DEF Register, At
<1>2. QED BY <1>1, AtWork, PlanSays

\* But for Register, no step touches a label.
LEMMA LabelsSame ==
  ASSUME TypeInv, NEW c \in Caller, Step(c), ~Register(c), NEW p \in Phone, NEW l \in Label
  PROVE  names' = names /\ (Labelled(users', p, l) <=> Labelled(users, p, l))
<1>1. /\ h[c].phone \in Phone /\ h[c].pc # "idle"
      /\ \A q \in Phone \ {h[c].phone} : users'[q] = users[q]
  BY StepMoves DEF Keeps
<1>2. users \in [Phone -> User \cup {NoUser}] /\ WorkOK(h[c], users, minted, codes)
      /\ h[c] \in Work /\ l # None
  BY AccountsAssumption DEF TypeInv, UsersOK
<1>3. CASE p # h[c].phone
  <2>1. users'[p] = users[p]
    BY <1>1, <1>3
  <2>2. names' = names
    BY DEF Step, Meet, Mint, Upsert, Greet, SetUserName, ReadBack, Clear, Store, Forgive,
           CountFailure, MarkFailure, Recheck, Challenge, DropCode, CoolDown, Park, Look,
           Unlink, Link, Reread, Grade, Lookup, Attested, Refused, tables
  <2>3. QED BY <2>1, <2>2 DEF Labelled
<1>4. CASE p = h[c].phone
  <2>1. CASE Upsert(c)
    <3>1. h[c].pc = "upsert" /\ names' = names
      BY <2>1 DEF Upsert, At
    <3>2. CASE users[p].known
      <4>1. users[p] \in User /\ h[c].user \in User
        BY <1>2, <3>1, <3>2, AtWork, KnownIsUser
      <4>2. users'[p] = Upserted(users[p], h[c].user)
        BY <1>2, <1>4, <2>1, <3>2 DEF Upsert
      <4>3. Upserted(users[p], h[c].user).label = users[p].label
            /\ Upserted(users[p], h[c].user).known
        BY <4>1 DEF Upserted, User
      <4>4. QED BY <3>1, <3>2, <4>2, <4>3 DEF Labelled
    <3>3. CASE ~users[p].known
      <4>1. users'[p] = h[c].user
        BY <1>2, <1>4, <2>1, <3>3 DEF Upsert
      <4>2. h[c].user.label = None
        BY <1>2, <1>4, <3>1, <3>3 DEF WorkOK
      <4>3. QED BY <1>2, <3>1, <3>3, <4>1, <4>2 DEF Labelled
    <3>4. QED BY <3>2, <3>3
  <2>2. CASE Meet(c) \/ Mint(c) \/ Greet(c) \/ ReadBack(c) \/ Clear(c) \/ CountFailure(c)
             \/ Recheck(c) \/ Park(c) \/ Look(c) \/ Unlink(c) \/ Link(c) \/ Reread(c)
    BY <2>2 DEF Meet, Mint, Greet, ReadBack, Clear, CountFailure, Recheck, Park, Look, Unlink,
                Link, Reread, tables, Labelled
  <2>3. ASSUME h[c].pc \notin {"idle", "meet", "mint", "upsert"}
        PROVE  users[p] \in User /\ users[p].known
    BY <1>4, <2>3, AtWork
  <2>4. CASE SetUserName(c) \/ CoolDown(c)
    <3>1. users[p] \in User
      BY <2>3, <2>4 DEF SetUserName, CoolDown, At
    <3>2. CASE SetUserName(c)
      BY <1>2, <1>4, <3>1, <3>2 DEF SetUserName, Labelled, User
    <3>3. CASE CoolDown(c)
      BY <1>2, <1>4, <3>1, <3>3 DEF CoolDown, Labelled, User
    <3>4. QED BY <2>4, <3>2, <3>3
  <2>5. CASE Store(c) \/ Forgive(c)
    <3>1. users[p] \in User
      BY <2>3, <2>5 DEF Store, Forgive, At
    <3>2. Unfailed(users[p]) \in User /\ Unfailed(users[p]).label = users[p].label
      BY <3>1, UnfailedTyped
    <3>3. names' = names
          /\ (users'[p] = Unfailed(users[p]) \/ users'[p] = [Unfailed(users[p]) EXCEPT !.pin = h[c].pin])
      BY <1>2, <1>4, <2>5 DEF Store, Forgive
    <3>4. users'[p].known /\ users'[p].label = users[p].label /\ users[p].known
      BY <3>1, <3>2, <3>3 DEF User
    <3>5. QED BY <3>3, <3>4 DEF Labelled
  <2>6. CASE MarkFailure(c)
    <3>1. users[p] \in User
      BY <2>3, <2>6 DEF MarkFailure, At
    <3>2. QED BY <1>2, <1>4, <2>6, <3>1 DEF MarkFailure, Labelled, User
  <2>7. CASE Challenge(c) \/ DropCode(c)
    <3>1. users[p] \in User
      BY <2>3, <2>7 DEF Challenge, DropCode, At
    <3>2. /\ names' = names
          /\ \/ users'[p] = [users[p] EXCEPT !.code = codes', !.aged = FALSE]
             \/ users'[p] = [users[p] EXCEPT !.code = 0, !.aged = FALSE]
      <4>1. CASE Challenge(c)
        BY <1>2, <1>4, <4>1 DEF Challenge
      <4>2. CASE DropCode(c)
        BY <1>2, <1>4, <4>2 DEF DropCode
      <4>3. QED BY <2>7, <4>1, <4>2
    <3>3. users'[p].known /\ users'[p].label = users[p].label /\ users[p].known
      BY <3>1, <3>2 DEF User
    <3>4. QED BY <3>2, <3>3 DEF Labelled
  <2>8. CASE Grade(c)
    <3>1. users[p] \in User
      BY <2>3, <2>8 DEF Grade, At
    <3>2. QED BY <1>2, <1>4, <2>8, <3>1 DEF Grade, Labelled, User
  <2>9. CASE Lookup(c) \/ Attested(c) \/ Refused(c)
    <3>1. users[p] \in User
      BY <2>3, <2>9 DEF Lookup, Attested, Refused, At
    <3>2. names' = names
          /\ \E sim, tier : users'[p] = [users[p] EXCEPT !.sim = sim, !.tier = tier]
      <4>1. CASE Lookup(c)
        <5>1. users'[p] = [users[p] EXCEPT !.sim = "pending", !.tier = users[p].tier]
          BY <1>2, <1>4, <3>1, <4>1 DEF Lookup, User
        <5>2. QED BY <4>1, <5>1 DEF Lookup
      <4>2. CASE Refused(c)
        <5>1. users'[p] = [users[p] EXCEPT !.sim = "failed", !.tier = users[p].tier]
          BY <1>2, <1>4, <3>1, <4>2 DEF Refused, User
        <5>2. QED BY <4>2, <5>1 DEF Refused
      <4>3. CASE Attested(c)
        <5>1. users'[p] = [users[p] EXCEPT !.sim = "attested", !.tier = 2]
          BY <1>2, <1>4, <3>1, <4>3 DEF Attested, User
        <5>2. QED BY <4>3, <5>1 DEF Attested
      <4>4. QED BY <2>9, <4>1, <4>2, <4>3
    <3>3. users'[p].known /\ users'[p].label = users[p].label /\ users[p].known
      BY <3>1, <3>2 DEF User
    <3>4. QED BY <3>2, <3>3 DEF Labelled
  <2>10. QED BY <2>1, <2>2, <2>4, <2>5, <2>6, <2>7, <2>8, <2>9 DEF Step
<1>5. QED BY <1>3, <1>4

\* What happens around the commands touches no label.
LEMMA LabelsSameAround ==
  ASSUME TypeInv, NEW p \in Phone, NEW l \in Label,
         \/ \E q \in Phone : LockPasses(q) \/ CodeAges(q)
         \/ UNCHANGED <<users, names>>
  PROVE  names' = names /\ (Labelled(users', p, l) <=> Labelled(users, p, l))
<1>1. CASE UNCHANGED <<users, names>>
  BY <1>1
<1>2. ASSUME NEW q \in Phone, LockPasses(q) \/ CodeAges(q)
      PROVE  names' = names /\ (Labelled(users', p, l) <=> Labelled(users, p, l))
  <2>1. names' = names /\ users[q].known /\ users \in [Phone -> User \cup {NoUser}]
    BY <1>2 DEF LockPasses, CodeAges, TypeInv, UsersOK
  <2>2. users[q] \in User
    BY <2>1, KnownIsUser
  <2>3. CASE p = q
    BY <1>2, <2>1, <2>2, <2>3 DEF LockPasses, CodeAges, Labelled, User
  <2>4. CASE p # q
    BY <1>2, <2>1, <2>4 DEF LockPasses, CodeAges, Labelled
  <2>5. QED BY <2>1, <2>3, <2>4
<1>3. QED BY <1>1, <1>2

\* A claim changes the registry and the row together.
LEMMA RegisterAgrees ==
  ASSUME TypeInv, NamesAgree, NEW c \in Caller, Register(c)
  PROVE  NamesAgree'
<1> DEFINE p == h[c].phone
           l == h[c].label
<1>1. p \in Phone /\ l \in Label /\ users[p] \in User /\ users[p].known
  BY AtRegister
<1>2. users \in [Phone -> User \cup {NoUser}] /\ names \in [Label -> Phone \cup {None}]
      /\ None \notin Phone /\ None \notin Label
  BY AccountsAssumption DEF TypeInv, UsersOK, RestOK
<1>3. CASE UNCHANGED <<names, users>>
  BY <1>3 DEF NamesAgree
<1>4. CASE /\ names[l] \in {None, p}
           /\ names' = [m \in Label |-> IF m = l THEN p
                                         ELSE IF names[m] = p THEN None ELSE names[m]]
           /\ users' = [users EXCEPT ![p].label = l]
  <2>1. users'[p].known /\ users'[p].label = l /\ \A q \in Phone \ {p} : users'[q] = users[q]
    BY <1>1, <1>2, <1>4 DEF User
  <2> HIDE DEF p, l
  <2>2. ASSUME NEW q \in Phone, NEW m \in Label
        PROVE  names'[m] = q <=> users'[q].known /\ users'[q].label = m
    <3>1. names[m] = q <=> users[q].known /\ users[q].label = m
      BY DEF NamesAgree
    <3>2. CASE q = p
      BY <1>1, <1>2, <1>4, <2>1, <3>1, <3>2
    <3>3. CASE q # p
      <4>1. users'[q] = users[q]
        BY <2>1, <3>3
      <4>2. CASE m = l
        BY <1>1, <1>2, <1>4, <3>1, <3>3, <4>1, <4>2
      <4>3. CASE m # l
        BY <1>1, <1>2, <1>4, <3>1, <3>3, <4>1, <4>3
      <4>4. QED BY <4>2, <4>3
    <3>4. QED BY <3>2, <3>3
  <2>3. QED BY <2>2 DEF NamesAgree
<1>5. QED BY <1>3, <1>4 DEF Register

\* The registry of names and the user rows say the same, whatever claims run
\* beside each other, and whatever else writes the rows.
THEOREM NamesAlwaysAgree == Spec => []NamesAgree
<1>1. ASSUME Init
      PROVE  NamesAgree
  BY <1>1, StartingRows, AccountsAssumption DEF Init, NamesAgree
<1>2. ASSUME TypeInv, NamesAgree, [Next]_vars
      PROVE  NamesAgree'
  <2>1. ASSUME names' = names,
               \A p \in Phone, l \in Label : Labelled(users', p, l) <=> Labelled(users, p, l)
        PROVE  NamesAgree'
    BY <1>2, <2>1 DEF NamesAgree, Labelled
  <2>2. ASSUME NEW c \in Caller, Step(c)
        PROVE  NamesAgree'
    <3>1. CASE Register(c)
      BY <1>2, <3>1, RegisterAgrees
    <3>2. CASE ~Register(c)
      <4>1. \A p \in Phone, l \in Label :
              names' = names /\ (Labelled(users', p, l) <=> Labelled(users, p, l))
        BY <1>2, <2>2, <3>2, LabelsSame
      <4>2. CASE Phone = {} \/ Label = {}
        BY <4>2 DEF NamesAgree
      <4>3. QED BY <2>1, <4>1, <4>2
    <3>3. QED BY <3>1, <3>2
  <2>3. ASSUME NEW c \in Caller, Command(c) \/ Crash(c)
        PROVE  NamesAgree'
    <3>1. UNCHANGED <<users, names>>
      <4>1. CASE Command(c)
        BY <1>2, <4>1, CommandStarts DEF Start, tables
      <4>2. CASE Crash(c)
        BY <4>2 DEF Crash, tables
      <4>3. QED BY <2>3, <4>1, <4>2
    <3>2. QED BY <1>2, <2>1, <3>1
  <2>4. ASSUME NEW q \in Phone, LockPasses(q) \/ CodeAges(q)
        PROVE  NamesAgree'
    <3>1. names' = names
      BY <2>4 DEF LockPasses, CodeAges
    <3>2. \A p \in Phone, l \in Label : Labelled(users', p, l) <=> Labelled(users, p, l)
      BY <1>2, <2>4, LabelsSameAround
    <3>3. QED BY <2>1, <3>1, <3>2
  <2>5. CASE UNCHANGED vars
    BY <1>2, <2>1, <2>5 DEF vars, tables
  <2>6. QED BY <1>2, <2>2, <2>3, <2>4, <2>5 DEF Next
<1>3. QED BY <1>1, <1>2, TypeAlways, PTL DEF Spec

-----------------------------------------------------------------------------
(* Commands that meet leave their phones uncalm. *)

MeetInv ==
  /\ \A c, d \in Caller : c # d /\ h[c].phone \in Phone /\ h[c].phone = h[d].phone
       => ~calm[h[c].phone]
  /\ \A c, d \in Caller : c # d /\ h[c].does = "claim_name" /\ h[d].does = "claim_name"
       => ~calm[h[c].phone]

\* No step but a command's first brings two callers together.
LEMMA MeetStep ==
  ASSUME TypeInv, MeetInv, NEW c \in Caller, calm' = calm,
         \A d \in Caller \ {c} : h'[d] = h[d],
         \/ h'[c] = Idle
         \/ h'[c].phone = h[c].phone /\ h'[c].does \in {h[c].does, "call"}
  PROVE  MeetInv'
<1>1. None \notin Phone
  BY AccountsAssumption
<1>2. ASSUME NEW d \in Caller
      PROVE  /\ h'[d].phone \in Phone => h'[d].phone = h[d].phone
             /\ h'[d].does = "claim_name" => h[d].does = "claim_name" /\ h'[d].phone = h[d].phone
  <2>1. CASE d = c
    <3>1. CASE h'[c] = Idle
      BY <1>1, <2>1, <3>1, IdleTyped
    <3>2. CASE h'[c].phone = h[c].phone /\ h'[c].does \in {h[c].does, "call"}
      BY <2>1, <3>2
    <3>3. QED BY <3>1, <3>2
  <2>2. CASE d # c
    BY <2>2
  <2>3. QED BY <2>1, <2>2
<1>3. ASSUME NEW a \in Caller, NEW b \in Caller, a # b, h'[a].phone \in Phone,
             h'[a].phone = h'[b].phone
      PROVE  ~calm'[h'[a].phone]
  BY <1>2, <1>3 DEF MeetInv
<1>4. ASSUME NEW a \in Caller, NEW b \in Caller, a # b, h'[a].does = "claim_name",
             h'[b].does = "claim_name"
      PROVE  ~calm'[h'[a].phone]
  BY <1>2, <1>4 DEF MeetInv
<1>5. QED BY <1>3, <1>4 DEF MeetInv

\* A command that begins marks the phones it meets.
LEMMA MeetStart ==
  ASSUME TypeInv, MeetInv, NEW c \in Caller, NEW task \in Work, Start(c, task),
         TaskOK([task EXCEPT !.pc = "meet"], codes)
  PROVE  MeetInv' /\ (\A p \in Phone : calm'[p] => calm[p])
         /\ h'[c].phone = task.phone /\ h'[c].pc = "meet" /\ task.phone \in Phone
<1>1. /\ task.phone \in Phone /\ h \in [Caller -> Work] /\ calm \in [Phone -> BOOLEAN]
      /\ h[c].pc = "idle"
  <2>1. [task EXCEPT !.pc = "meet"].phone = task.phone
    BY DEF Work
  <2>2. QED BY <2>1 DEF TaskOK, TypeInv, RestOK, Start
<1>2. h'[c].phone = task.phone /\ h'[c].does = task.does /\ h'[c].pc = "meet"
      /\ \A d \in Caller \ {c} : h'[d] = h[d]
  BY <1>1 DEF Start, Work
<1>3. \A p \in Phone : calm'[p] => calm[p]
  BY DEF Start
<1>4. \A d \in Met(c, task) : ~calm'[task.phone] /\ (h[d].phone \in Phone => ~calm'[h[d].phone])
  BY <1>1 DEF Start
<1>5. ASSUME NEW a \in Caller
      PROVE  h[a].does = "claim_name" => h[a].phone \in Phone
  BY IdleTyped DEF TypeInv, WorkOK, TaskOK
<1>6. ASSUME NEW a \in Caller, NEW b \in Caller, a # b, h'[a].phone \in Phone,
             h'[a].phone = h'[b].phone
      PROVE  ~calm'[h'[a].phone]
  <2>1. CASE a = c
    <3>1. b \in Met(c, task)
      BY <1>2, <1>6, <2>1 DEF Met
    <3>2. QED BY <1>2, <1>4, <2>1, <3>1
  <2>2. CASE b = c
    <3>1. a \in Met(c, task)
      BY <1>2, <1>6, <2>2 DEF Met
    <3>2. QED BY <1>2, <1>4, <1>6, <2>2, <3>1
  <2>3. CASE a # c /\ b # c
    BY <1>2, <1>3, <1>6, <2>3 DEF MeetInv
  <2>4. QED BY <2>1, <2>2, <2>3
<1>7. ASSUME NEW a \in Caller, NEW b \in Caller, a # b, h'[a].does = "claim_name",
             h'[b].does = "claim_name"
      PROVE  ~calm'[h'[a].phone]
  <2>1. CASE a = c
    <3>1. b \in Met(c, task)
      BY <1>2, <1>7, <2>1 DEF Met
    <3>2. QED BY <1>2, <1>4, <2>1, <3>1
  <2>2. CASE b = c
    <3>1. a \in Met(c, task) /\ h[a].phone \in Phone /\ h'[a].phone = h[a].phone
      BY <1>2, <1>5, <1>7, <2>2 DEF Met
    <3>2. QED BY <1>4, <3>1
  <2>3. CASE a # c /\ b # c
    <3>1. h[a].phone \in Phone
      BY <1>2, <1>5, <1>7, <2>3
    <3>2. QED BY <1>2, <1>3, <1>7, <2>3, <3>1 DEF MeetInv
  <2>4. QED BY <2>1, <2>2, <2>3
<1>8. QED BY <1>1, <1>2, <1>3, <1>6, <1>7 DEF MeetInv

\* It is kept by every step.
LEMMA MeetNext == TypeInv /\ MeetInv /\ [Next]_vars => MeetInv'
<1> SUFFICES ASSUME TypeInv, MeetInv, [Next]_vars PROVE MeetInv'
  OBVIOUS
<1>1. CASE UNCHANGED <<h, calm>>
  BY <1>1 DEF MeetInv
<1>2. ASSUME NEW c \in Caller, Step(c)
      PROVE  MeetInv'
  BY <1>2, StepMoves, MeetStep DEF Moves
<1>3. ASSUME NEW c \in Caller, Command(c)
      PROVE  MeetInv'
  BY <1>3, CommandStarts, MeetStart
<1>4. ASSUME NEW c \in Caller, Crash(c)
      PROVE  MeetInv'
  <2>1. /\ h'[c] = Idle /\ \A d \in Caller \ {c} : h'[d] = h[d]
        /\ \A p \in Phone : calm'[p] => calm[p]
    BY <1>4 DEF Crash, Leave, TypeInv, RestOK
  <2>2. None \notin Phone
    BY AccountsAssumption
  <2>3. \A d \in Caller : h[d].does = "claim_name" => h[d].phone \in Phone
    BY IdleTyped DEF TypeInv, WorkOK, TaskOK
  <2>4. ASSUME NEW a \in Caller, NEW b \in Caller, a # b, h'[a].phone \in Phone,
               h'[a].phone = h'[b].phone
        PROVE  ~calm'[h'[a].phone]
    BY <2>1, <2>2, <2>4, IdleTyped DEF MeetInv
  <2>5. ASSUME NEW a \in Caller, NEW b \in Caller, a # b, h'[a].does = "claim_name",
               h'[b].does = "claim_name"
        PROVE  ~calm'[h'[a].phone]
    BY <2>1, <2>3, <2>5, IdleTyped DEF MeetInv
  <2>6. QED BY <2>4, <2>5 DEF MeetInv
<1>5. ASSUME NEW p \in Phone, LockPasses(p) \/ CodeAges(p)
      PROVE  MeetInv'
  BY <1>1, <1>5 DEF LockPasses, CodeAges
<1>6. QED BY <1>1, <1>2, <1>3, <1>4, <1>5 DEF Next, vars

\* No command has begun, and all phones are calm.
LEMMA MeetInit == Init => MeetInv
  BY IdleTyped, AccountsAssumption DEF Init, MeetInv

\* It holds in every state.
LEMMA MeetAlways == Spec => []MeetInv
  BY MeetInit, MeetNext, TypeAlways, PTL DEF Spec

-----------------------------------------------------------------------------
(* How a step is reached. *)

\* A command that has its row goes to the first step of its plan.
LEMMA RouteEntry ==
  ASSUME NEW t \in Work, t.does # "none", NEW u \in User
  PROVE  Route(t, u) \notin {"meet", "mint", "upsert", "mark", "grade", "clear", "register", "link"}
<1>1. t.does \in Doing
  BY DEF Work
<1>2. CASE t.does \in {"call", "name", "join", "set_pin", "change_pin", "recover_pin",
                       "recover_confirm", "link"}
  BY <1>2 DEF Route
<1>3. CASE t.does = "confirm"
  BY <1>3 DEF Route, Verdict
<1>4. CASE t.does \in {"ask", "claim_name", "verify_id", "attest_live", "attest_mock"}
  BY <1>4 DEF Route, FirstStep
<1>5. QED BY <1>1, <1>2, <1>3, <1>4 DEF Doing

\* Some steps come after one other only.
LEMMA Arrives ==
  ASSUME TypeInv, NEW c \in Caller, Step(c)
  PROVE  /\ h'[c].pc = "register" => Look(c)
         /\ h'[c].pc = "link" => Unlink(c)
         /\ h'[c].pc = "mint" => Meet(c)
         /\ h'[c].pc = "upsert" => Meet(c) \/ Mint(c)
         /\ h'[c].pc = "mark" => CountFailure(c)
         /\ h'[c].pc = "grade" => Reread(c)
         /\ h'[c].pc = "clear" =>
              ReadBack(c) \/ SetUserName(c) \/ (h[c].does = "confirm" /\ (Forgive(c) \/ Recheck(c)))
<1>1. h \in [Caller -> Work] /\ h[c] \in Work /\ h[c].does # "none"
  BY StepMoves DEF TypeInv
<1> DEFINE Early == h'[c].pc \notin {"mint", "upsert", "mark", "grade", "clear", "register", "link"}
<1>2. ASSUME NEW pc \in Steps, Go(c, pc)
      PROVE  h'[c].pc = pc
  BY <1>1, <1>2 DEF Go, Work
<1>3. ASSUME Leave(c)
      PROVE  Early
  BY <1>1, <1>3, IdleTyped DEF Leave
<1>4. ASSUME NEW u \in User, Proceed(c, u)
      PROVE  Early
  <2>1. CASE Route(h[c], u) = "idle"
    BY <1>3, <1>4, <2>1 DEF Proceed
  <2>2. CASE Route(h[c], u) # "idle"
    <3>1. h'[c].pc = Route(h[c], u)
      BY <1>1, <1>4, <2>2 DEF Proceed, Work
    <3>2. QED BY <1>1, <3>1, RouteEntry
  <2>3. QED BY <2>1, <2>2
<1>5. ASSUME NEW u, NEW pc \in Steps, h' = [h EXCEPT ![c].user = u, ![c].pc = pc]
      PROVE  h'[c].pc = pc
  BY <1>1, <1>5 DEF Work
<1>6. CASE Meet(c)
  <2>1. Go(c, "mint") \/ (users[h[c].phone].known /\ Proceed(c, users[h[c].phone]))
        \/ \E u : h' = [h EXCEPT ![c].user = u, ![c].pc = "upsert"]
    BY <1>6 DEF Meet
  <2>2. users[h[c].phone].known => users[h[c].phone] \in User
    <3>1. users[h[c].phone] \in User \cup {NoUser}
      BY StepMoves DEF TypeInv, UsersOK
    <3>2. QED BY <3>1, KnownIsUser
  <2>3. CASE users[h[c].phone].known /\ Proceed(c, users[h[c].phone])
    BY <1>4, <2>2, <2>3
  <2>4. CASE Go(c, "mint")
    <3>1. h'[c].pc = "mint"
      BY <1>2, <2>4 DEF Steps
    <3>2. QED BY <1>6, <3>1
  <2>5. CASE \E u : h' = [h EXCEPT ![c].user = u, ![c].pc = "upsert"]
    <3>1. h'[c].pc = "upsert"
      BY <1>5, <2>5 DEF Steps
    <3>2. QED BY <1>6, <3>1
  <2>6. QED BY <2>1, <2>3, <2>4, <2>5
<1>7. CASE Mint(c)
  <2>1. CASE Leave(c)
    BY <1>3, <2>1
  <2>2. CASE \E u : h' = [h EXCEPT ![c].user = u, ![c].pc = "upsert"]
    <3>1. h'[c].pc = "upsert"
      BY <1>5, <2>2 DEF Steps
    <3>2. QED BY <1>7, <3>1
  <2>3. QED BY <1>7, <2>1, <2>2 DEF Mint
<1>8. CASE Upsert(c)
  <2>1. PICK row \in User : Proceed(c, row)
    <3>1. h[c].user \in User /\ h[c].phone \in Phone
      BY <1>8, AtWork DEF Upsert, At
    <3>2. users[h[c].phone].known => users[h[c].phone] \in User
      <4>1. users[h[c].phone] \in User \cup {NoUser}
        BY <3>1 DEF TypeInv, UsersOK
      <4>2. QED BY <4>1, KnownIsUser
    <3>3. QED BY <1>8, <3>1, <3>2, UpsertedTyped DEF Upsert
  <2>2. QED BY <1>4, <2>1
<1>9. CASE CountFailure(c)
  <2>1. h'[c].pc = "mark"
    BY <1>1, <1>9 DEF CountFailure, Work
  <2>2. QED BY <1>9, <2>1
<1>10. CASE ReadBack(c) \/ Reread(c)
  <2>1. (ReadBack(c) /\ h'[c].pc = "clear") \/ (Reread(c) /\ h'[c].pc = "grade")
    BY <1>5, <1>10 DEF ReadBack, Reread, Steps
  <2>2. QED BY <2>1
<1>11. CASE Link(c)
  <2>1. CASE Leave(c)
    BY <1>3, <2>1
  <2>2. CASE h' = [h EXCEPT ![c] = [Task("call", h[c].phone) EXCEPT !.pc = "meet"]]
    <3>1. h'[c].pc = "meet"
      BY <1>1, <2>2 DEF Task, Idle
    <3>2. QED BY <3>1
  <2>3. QED BY <1>11, <2>1, <2>2 DEF Link
<1>12. CASE Forgive(c)
  <2>1. CASE Leave(c)
    BY <1>3, <2>1
  <2>2. CASE Go(c, "cool")
    BY <1>2, <2>2 DEF Steps
  <2>3. CASE h[c].does = "confirm" /\ Go(c, "clear")
    BY <1>2, <1>12, <2>3 DEF Steps
  <2>4. QED BY <1>12, <2>1, <2>2, <2>3 DEF Forgive
<1>13. CASE Recheck(c)
  <2>1. h[c].does = "confirm"
    <3>1. h[c].pc = "recheck"
      BY <1>13 DEF Recheck, At
    <3>2. QED BY <3>1, AtWork, PlanSays
  <2>2. CASE Leave(c)
    BY <1>3, <2>2
  <2>3. CASE Go(c, "clear")
    BY <1>2, <1>13, <2>1, <2>3 DEF Steps
  <2>4. QED BY <1>13, <2>2, <2>3 DEF Recheck
<1>14. CASE SetUserName(c)
  <2>1. h'[c].pc = "clear"
    BY <1>2, <1>14 DEF SetUserName, Steps
  <2>2. QED BY <1>14, <2>1
<1>15. CASE Look(c)
  <2>1. CASE Leave(c)
    BY <1>3, <2>1
  <2>2. CASE Go(c, "register")
    BY <1>2, <1>15, <2>2 DEF Steps
  <2>3. QED BY <1>15, <2>1, <2>2 DEF Look
<1>16. CASE Unlink(c)
  <2>1. h'[c].pc = "link"
    BY <1>2, <1>16 DEF Unlink, Steps
  <2>2. QED BY <1>16, <2>1
<1>17. CASE Store(c)
  <2>1. Go(c, "readback") \/ Go(c, "forgive") \/ Go(c, "drop")
    BY <1>17 DEF Store
  <2>2. QED BY <1>2, <2>1 DEF Steps
<1>18. CASE MarkFailure(c) \/ DropCode(c) \/ Lookup(c)
  <2>1. Leave(c) \/ Go(c, "recheck") \/ Go(c, "forgive") \/ Go(c, "attested") \/ Go(c, "refused")
    BY <1>18 DEF MarkFailure, DropCode, Lookup
  <2>2. QED BY <1>2, <1>3, <2>1 DEF Steps
<1>19. CASE Greet(c) \/ Clear(c) \/ Challenge(c) \/ CoolDown(c) \/ Park(c) \/ Register(c)
            \/ Grade(c) \/ Attested(c) \/ Refused(c)
  <2>1. Leave(c)
    BY <1>19 DEF Greet, Clear, Challenge, CoolDown, Park, Register, Grade, Attested, Refused
  <2>2. QED BY <1>3, <2>1
<1>20. QED BY <1>6, <1>7, <1>8, <1>9, <1>10, <1>11, <1>12, <1>13, <1>14, <1>15, <1>16, <1>17,
             <1>18, <1>19 DEF Step

-----------------------------------------------------------------------------
(* A calm phone: its row is what its commands made it, and the command it has *)
(* at work has read it as it is.                                             *)

CalmRow(u, ch, to) ==
  /\ u.known => /\ u.pin = ch /\ to \subseteq {u.wallet}
                /\ (u.sim = "attested" => u.tier = 2)
  /\ ~u.known => ch = None /\ to = {}

CalmWork(t, u) ==
  /\ t.pc = "mint" => ~u.known
  /\ t.pc = "upsert" /\ u.known => t.user.wallet = u.wallet /\ t.user.pin = u.pin
  /\ t.pc = "upsert" /\ ~u.known => t.user.pin = None /\ t.user.sim = "none"
  /\ t.pc = "grade" => t.user.tier = u.tier
  /\ t.pc = "clear" /\ t.does = "set_pin" => t.user.wallet = u.wallet

CalmInv == \A p \in Phone : calm[p] =>
  /\ CalmRow(users[p], chosen[p], told[p])
  /\ \A c \in Caller : h[c].phone = p => CalmWork(h[c], users[p])

\* What an insert takes from the row it meets, and from the new one.
LEMMA UpsertedSays ==
  ASSUME NEW row \in User, NEW u \in User
  PROVE  LET v == Upserted(row, u)
         IN  /\ v.known /\ v.fails = row.fails /\ v.locked = row.locked /\ v.sim = row.sim
             /\ v.tier = row.tier /\ v.wallet = u.wallet
             /\ v.pin = IF u.pin = None THEN row.pin ELSE u.pin
<1> DEFINE named == row.named \/ u.named
           pin == IF u.pin = None THEN row.pin ELSE u.pin
           w == [row EXCEPT !.named = named, !.wallet = u.wallet, !.pin = pin]
<1>1. Upserted(row, u) = w
  BY DEF Upserted
<1> HIDE DEF named, pin
<1>2. /\ w.known /\ w.fails = row.fails /\ w.locked = row.locked /\ w.sim = row.sim
      /\ w.tier = row.tier /\ w.wallet = u.wallet /\ w.pin = pin
  BY DEF User
<1> HIDE DEF w
<1>3. QED BY <1>1, <1>2 DEF pin

\* What a command of a calm phone has at a step, and the row.
LEMMA CalmAtWork ==
  ASSUME TypeInv, CalmInv, NEW c \in Caller, h[c].phone \in Phone, calm[h[c].phone]
  PROVE  /\ CalmRow(users[h[c].phone], chosen[h[c].phone], told[h[c].phone])
         /\ CalmWork(h[c], users[h[c].phone])
  BY DEF CalmInv

\* The steps that write the row, the PIN and the failures leave it as it should be.
LEMMA CalmRowStep ==
  ASSUME TypeInv, CalmInv, NEW c \in Caller, Step(c), calm[h[c].phone]
  PROVE  CalmRow(users'[h[c].phone], chosen'[h[c].phone], told'[h[c].phone])
<1> DEFINE p == h[c].phone
           u == users[p]
           v == users'[p]
           ch == chosen[p]
           to == told[p]
<1>1. /\ p \in Phone /\ h[c].pc # "idle"
      /\ users \in [Phone -> User \cup {NoUser}] /\ told \in [Phone -> SUBSET Nat]
      /\ chosen \in [Phone -> Pin \cup {None}] /\ u \in User \cup {NoUser}
  BY StepMoves DEF TypeInv, UsersOK, RestOK
<1>2. CalmRow(u, ch, to) /\ CalmWork(h[c], u)
  BY <1>1, CalmAtWork
<1>3. ASSUME h[c].pc \notin {"idle", "meet", "mint", "upsert"}
      PROVE  u \in User /\ u.known /\ h[c].user \in User /\ h[c] \in Work
  BY <1>3, AtWork
<1>4. CASE Meet(c) \/ Mint(c) \/ Greet(c) \/ ReadBack(c) \/ CountFailure(c)
           \/ Recheck(c) \/ Park(c) \/ Look(c) \/ Unlink(c) \/ Link(c) \/ Reread(c)
  <2>1. UNCHANGED <<users, chosen, told>>
    BY <1>4 DEF Meet, Mint, Greet, ReadBack, CountFailure, Recheck, Park, Look, Unlink, Link,
                Reread, tables, ghosts, counts
  <2>2. QED BY <1>2, <2>1
\* Steps that keep what the row says of PIN, wallet and attestation.
<1>5. ASSUME UNCHANGED <<chosen, told>>, u.known, v.known, v.pin = u.pin,
             v.wallet = u.wallet, v.sim = "attested" => v.tier = 2
      PROVE  CalmRow(v, chosen'[p], told'[p])
  BY <1>2, <1>5 DEF CalmRow
<1>6. CASE Upsert(c)
  <2>1. h[c].pc = "upsert" /\ h[c].user \in User /\ UNCHANGED <<chosen, told>>
    BY <1>6, AtWork DEF Upsert, At, ghosts, counts
  <2>2. CASE u.known
    <3>1. u \in User /\ v = Upserted(u, h[c].user)
      BY <1>1, <1>6, <2>2, KnownIsUser DEF Upsert
    <3>2. /\ v.known /\ v.sim = u.sim /\ v.tier = u.tier /\ v.wallet = h[c].user.wallet
          /\ v.pin = IF h[c].user.pin = None THEN u.pin ELSE h[c].user.pin
      BY <2>1, <3>1, UpsertedSays
    <3>3. v.wallet = u.wallet /\ v.pin = u.pin
      BY <1>2, <2>1, <2>2, <3>2 DEF CalmWork
    <3>4. u.sim = "attested" => u.tier = 2
      BY <1>2, <2>2 DEF CalmRow
    <3>5. QED BY <1>5, <2>1, <2>2, <3>2, <3>3, <3>4
  <2>3. CASE ~u.known
    <3>1. v = h[c].user /\ v.known
      BY <1>1, <1>6, <2>1, <2>3 DEF Upsert, User
    <3>2. v.pin = None /\ v.sim = "none"
      BY <1>2, <2>1, <2>3, <3>1 DEF CalmWork
    <3>3. ch = None /\ to = {}
      BY <1>2, <2>3 DEF CalmRow
    <3>4. QED BY <2>1, <3>1, <3>2, <3>3 DEF CalmRow
  <2>4. QED BY <2>2, <2>3
<1>7. CASE SetUserName(c) \/ CoolDown(c) \/ Register(c)
  <2>1. h[c].pc \in {"name", "cool", "register"} /\ UNCHANGED <<chosen, told>>
    BY <1>7 DEF SetUserName, CoolDown, Register, At, ghosts, counts
  <2>2. u \in User /\ u.known
    BY <1>3, <2>1
  <2>3. v = [u EXCEPT !.named = TRUE] \/ v = [u EXCEPT !.cool = TRUE]
        \/ v = [u EXCEPT !.label = h[c].label] \/ v = u
    BY <1>1, <1>7 DEF SetUserName, CoolDown, Register
  <2>4. /\ v.known = u.known /\ v.pin = u.pin /\ v.wallet = u.wallet
        /\ v.sim = u.sim /\ v.tier = u.tier
    BY <2>2, <2>3 DEF User
  <2>5. u.sim = "attested" => u.tier = 2
    BY <1>2, <2>2 DEF CalmRow
  <2>6. QED BY <1>5, <2>1, <2>2, <2>4, <2>5
<1>8. CASE Challenge(c) \/ DropCode(c)
  <2>1. h[c].pc \in {"challenge", "drop"} /\ UNCHANGED <<chosen, told>>
    BY <1>8 DEF Challenge, DropCode, At, ghosts, counts
  <2>2. u \in User /\ u.known
    BY <1>3, <2>1
  <2>3. \E co : v = [u EXCEPT !.code = co, !.aged = FALSE]
    <3>1. CASE Challenge(c)
      <4>1. v = [u EXCEPT !.code = codes', !.aged = FALSE]
        BY <1>1, <3>1 DEF Challenge
      <4>2. QED BY <4>1
    <3>2. CASE DropCode(c)
      <4>1. v = [u EXCEPT !.code = 0, !.aged = FALSE]
        BY <1>1, <3>2 DEF DropCode
      <4>2. QED BY <4>1
    <3>3. QED BY <1>8, <3>1, <3>2
  <2>4. /\ v.known = u.known /\ v.pin = u.pin /\ v.wallet = u.wallet
        /\ v.sim = u.sim /\ v.tier = u.tier
    <3>1. PICK co : v = [u EXCEPT !.code = co, !.aged = FALSE]
      BY <2>3
    <3> HIDE DEF u, v
    <3>2. QED BY <2>2, <3>1 DEF User
  <2>5. u.sim = "attested" => u.tier = 2
    BY <1>2, <2>2 DEF CalmRow
  <2>6. QED BY <1>5, <2>1, <2>2, <2>4, <2>5
<1>9. CASE Lookup(c) \/ Refused(c)
  <2>1. h[c].pc \in {"lookup", "refused"} /\ UNCHANGED <<chosen, told>>
    BY <1>9 DEF Lookup, Refused, At, ghosts, counts
  <2>2. u \in User /\ u.known
    BY <1>3, <2>1
  <2>3. v = [u EXCEPT !.sim = "pending"] \/ v = [u EXCEPT !.sim = "failed"]
    BY <1>1, <1>9 DEF Lookup, Refused
  <2>4. /\ v.known = u.known /\ v.pin = u.pin /\ v.wallet = u.wallet
        /\ v.sim # "attested"
    BY <2>2, <2>3 DEF User
  <2>5. QED BY <1>5, <2>1, <2>2, <2>4
<1>10. CASE Attested(c)
  <2>1. h[c].pc = "attested" /\ UNCHANGED <<chosen, told>>
    BY <1>10 DEF Attested, At, ghosts, counts
  <2>2. u \in User /\ u.known
    BY <1>3, <2>1
  <2>3. v = [u EXCEPT !.sim = "attested", !.tier = 2]
    BY <1>1, <1>10 DEF Attested
  <2>4. v.known = u.known /\ v.pin = u.pin /\ v.wallet = u.wallet /\ v.tier = 2
    <3> HIDE DEF u, v
    <3>1. QED BY <2>2, <2>3 DEF User
  <2>5. QED BY <1>5, <2>1, <2>2, <2>4
<1>11. CASE Grade(c)
  <2>1. h[c].pc = "grade" /\ UNCHANGED <<chosen, told>>
    BY <1>11 DEF Grade, At, ghosts, counts
  <2>2. u \in User /\ u.known /\ h[c].user.tier = u.tier
    BY <1>2, <1>3, <2>1 DEF CalmWork
  <2>3. v = [u EXCEPT !.tier = IF u.tier > 1 THEN u.tier ELSE 1]
    BY <1>1, <1>11, <2>2 DEF Grade
  <2>4. /\ v.known = u.known /\ v.pin = u.pin /\ v.wallet = u.wallet /\ v.sim = u.sim
        /\ v.tier = IF u.tier > 1 THEN u.tier ELSE 1
    BY <2>2, <2>3 DEF User
  <2>5. u.sim = "attested" => u.tier = 2
    BY <1>2, <2>2 DEF CalmRow
  <2>6. v.sim = "attested" => v.tier = 2
    BY <2>4, <2>5
  <2>7. QED BY <1>5, <2>1, <2>2, <2>4, <2>6
<1>12. CASE Clear(c)
  <2>1. h[c].pc = "clear" /\ UNCHANGED <<users, chosen>>
    BY <1>12 DEF Clear, At
  <2>2. u.known /\ to \subseteq {u.wallet}
    BY <1>2, <1>3, <2>1 DEF CalmRow
  <2>3. told'[p] \subseteq {u.wallet}
    <3>1. CASE h[c].does = "set_pin"
      <4>1. h[c].user.wallet = u.wallet
        BY <1>2, <2>1, <3>1 DEF CalmWork
      <4>2. told'[p] = to \cup {h[c].user.wallet}
        BY <1>1, <1>12, <3>1 DEF Clear
      <4>3. QED BY <2>2, <4>1, <4>2
    <3>2. CASE h[c].does # "set_pin"
      BY <1>12, <2>2, <3>2 DEF Clear
    <3>3. QED BY <3>1, <3>2
  <2>4. QED BY <1>2, <2>1, <2>2, <2>3 DEF CalmRow
<1>13. CASE Forgive(c)
  <2>1. h[c].pc = "forgive" /\ UNCHANGED <<chosen, told>>
    BY <1>13 DEF Forgive, At
  <2>2. u \in User /\ u.known
    BY <1>3, <2>1
  <2>3. v = Unfailed(u)
    BY <1>1, <1>13 DEF Forgive
  <2>4. /\ v.known /\ v.pin = u.pin /\ v.wallet = u.wallet
        /\ v.sim = u.sim /\ v.tier = u.tier
    BY <2>2, <2>3 DEF Unfailed, User
  <2>5. QED BY <1>2, <2>1, <2>2, <2>3, <2>4 DEF CalmRow
<1>14. CASE Store(c)
  <2>1. h[c].pc = "store" /\ UNCHANGED told
    BY <1>14 DEF Store, At
  <2>2. u \in User /\ u.known
    BY <1>3, <2>1
  <2>3. v = [Unfailed(u) EXCEPT !.pin = h[c].pin] /\ chosen'[p] = h[c].pin
    BY <1>1, <1>14 DEF Store
  <2>4. /\ Unfailed(u) \in User /\ Unfailed(u).wallet = u.wallet
        /\ Unfailed(u).sim = u.sim /\ Unfailed(u).tier = u.tier
    BY <2>2, UnfailedTyped
  <2>5. /\ v.known /\ v.pin = h[c].pin /\ v.wallet = u.wallet
        /\ v.sim = u.sim /\ v.tier = u.tier
    BY <2>3, <2>4 DEF User
  <2>6. QED BY <1>2, <2>1, <2>2, <2>3, <2>5 DEF CalmRow
<1>15. CASE MarkFailure(c)
  <2>1. h[c].pc = "mark" /\ UNCHANGED <<chosen, told>>
    BY <1>15 DEF MarkFailure, At
  <2>2. u \in User /\ u.known
    BY <1>3, <2>1
  <2>3. v = [u EXCEPT !.fails = h[c].n + 1, !.locked = LocksAt(h[c].n + 1)]
    BY <1>1, <1>15 DEF MarkFailure
  <2>4. /\ v.known = u.known /\ v.pin = u.pin /\ v.wallet = u.wallet
        /\ v.sim = u.sim /\ v.tier = u.tier
    <3> HIDE DEF u, v
    <3>1. QED BY <2>2, <2>3 DEF User
  <2>5. u.sim = "attested" => u.tier = 2
    BY <1>2, <2>2 DEF CalmRow
  <2>6. QED BY <1>5, <2>1, <2>2, <2>4, <2>5
<1>16. QED BY <1>4, <1>6, <1>7, <1>8, <1>9, <1>10, <1>11, <1>12, <1>13, <1>14, <1>15 DEF Step

\* What the caller itself has read is the row as it is.
LEMMA CalmWorkStep ==
  ASSUME TypeInv, CalmInv, NEW c \in Caller, Step(c), calm[h[c].phone]
  PROVE  CalmWork(h'[c], users'[h[c].phone])
<1> DEFINE p == h[c].phone
           u == users[p]
           v == users'[p]
           t == h'[c]
<1>1. /\ p \in Phone /\ h[c].pc # "idle" /\ h \in [Caller -> Work] /\ h[c] \in Work
      /\ users \in [Phone -> User \cup {NoUser}] /\ u \in User \cup {NoUser} /\ minted \in Nat
      /\ WorkOK(h[c], users, minted, codes)
  BY StepMoves DEF TypeInv, UsersOK, RestOK
<1>2. CalmWork(h[c], u)
  BY <1>1, CalmAtWork
<1>3. t.pc = "mint" => ~v.known
  <2>1. SUFFICES ASSUME t.pc = "mint" PROVE ~v.known
    OBVIOUS
  <2>2. Meet(c)
    BY <2>1, Arrives
  <2>3. v = u
    BY <2>2 DEF Meet, tables
  <2>4. CASE ~u.known
    BY <2>3, <2>4
  <2>5. CASE u.known /\ Proceed(c, u)
    <3>1. u \in User /\ h[c].does # "none"
      BY <1>1, <2>5, KnownIsUser, StepMoves
    <3>2. Route(h[c], u) # "mint" /\ Route(h[c], u) # "idle" => t.pc = Route(h[c], u)
      BY <1>1, <2>5 DEF Proceed, Work
    <3>3. Route(h[c], u) # "mint"
      BY <1>1, <3>1, RouteEntry
    <3>4. Route(h[c], u) = "idle" => t.pc = "idle"
      BY <1>1, <2>5, IdleTyped DEF Proceed, Leave
    <3>5. QED BY <2>1, <3>2, <3>3, <3>4
  <2>6. CASE h' = [h EXCEPT ![c].user = [u EXCEPT !.named = TRUE], ![c].pc = "upsert"]
    <3>1. t.pc = "upsert"
      BY <1>1, <2>6 DEF Work
    <3>2. QED BY <2>1, <3>1
  <2>7. QED BY <2>2, <2>4, <2>5, <2>6 DEF Meet
<1>4. t.pc = "upsert" => /\ v.known => t.user.wallet = v.wallet /\ t.user.pin = v.pin
                         /\ ~v.known => t.user.pin = None /\ t.user.sim = "none"
  <2>1. SUFFICES ASSUME t.pc = "upsert"
                 PROVE  /\ v.known => t.user.wallet = v.wallet /\ t.user.pin = v.pin
                        /\ ~v.known => t.user.pin = None /\ t.user.sim = "none"
    OBVIOUS
  <2>2. Meet(c) \/ Mint(c)
    BY <2>1, Arrives
  <2>3. v = u
    BY <2>2 DEF Meet, Mint, tables
  <2>4. CASE Mint(c)
    <3>1. h[c].pc = "mint" /\ ~u.known
      BY <1>2, <2>4 DEF Mint, At, CalmWork
    <3>2. CASE Leave(c)
      BY <1>1, <2>1, <3>2, IdleTyped DEF Leave
    <3>3. CASE /\ minted' = minted + 1
               /\ h' = [h EXCEPT ![c].user = NewUser(minted', h[c].does = "join"),
                                 ![c].pc = "upsert"]
      <4>1. t.user = NewUser(minted', h[c].does = "join")
        BY <1>1, <3>3 DEF Work
      <4>2. t.user.pin = None /\ t.user.sim = "none"
        BY <4>1 DEF NewUser
      <4>3. QED BY <2>3, <3>1, <4>2
    <3>4. QED BY <2>4, <3>2, <3>3 DEF Mint
  <2>5. CASE Meet(c)
    <3>1. CASE Go(c, "mint")
      <4>1. t.pc = "mint"
        BY <1>1, <3>1 DEF Go, Work
      <4>2. QED BY <2>1, <4>1
    <3>2. CASE u.known /\ Proceed(c, u)
      <4>1. u \in User /\ h[c].does # "none"
        BY <1>1, <3>2, KnownIsUser, StepMoves
      <4>2. Route(h[c], u) # "idle" => t.pc = Route(h[c], u)
        BY <1>1, <3>2 DEF Proceed, Work
      <4>3. Route(h[c], u) # "upsert"
        BY <1>1, <4>1, RouteEntry
      <4>4. Route(h[c], u) = "idle" => t.pc = "idle"
        BY <1>1, <3>2, IdleTyped DEF Proceed, Leave
      <4>5. QED BY <2>1, <4>2, <4>3, <4>4
    <3>3. CASE u.known /\ h' = [h EXCEPT ![c].user = [u EXCEPT !.named = TRUE], ![c].pc = "upsert"]
      <4>1. t.user = [u EXCEPT !.named = TRUE] /\ u \in User
        BY <1>1, <3>3, KnownIsUser DEF Work
      <4>2. t.user.wallet = u.wallet /\ t.user.pin = u.pin
        BY <4>1 DEF User
      <4>3. QED BY <2>3, <3>3, <4>2
    <3>4. QED BY <2>5, <3>1, <3>2, <3>3 DEF Meet
  <2>6. QED BY <2>2, <2>4, <2>5
<1>6. t.pc = "grade" => t.user.tier = v.tier
  <2>1. SUFFICES ASSUME Reread(c) PROVE t.user.tier = v.tier
    BY Arrives
  <2>2. v = u /\ t.user = u
    BY <1>1, <2>1 DEF Reread, tables, Work
  <2>3. QED BY <2>2
<1>7. t.pc = "clear" /\ t.does = "set_pin" => t.user.wallet = v.wallet
  <2>1. SUFFICES ASSUME t.pc = "clear", t.does = "set_pin" PROVE t.user.wallet = v.wallet
    OBVIOUS
  <2>2. h[c].does = "set_pin"
    BY <2>1, StepMoves, IdleTyped DEF Moves
  <2>3. ~SetUserName(c)
    <3>1. SUFFICES ASSUME h[c].pc = "name" PROVE FALSE
      BY DEF SetUserName, At
    <3>2. QED BY <2>2, <3>1, AtWork, PlanSays
  <2>4. ReadBack(c)
    BY <2>1, <2>2, <2>3, Arrives
  <2>5. v = u /\ t.user = u
    BY <1>1, <2>4 DEF ReadBack, tables, Work
  <2>6. QED BY <2>5
<1>8. QED BY <1>3, <1>4, <1>6, <1>7 DEF CalmWork

\* It is kept by every step.
LEMMA CalmNext == TypeInv /\ MeetInv /\ CalmInv /\ [Next]_vars => CalmInv'
<1> SUFFICES ASSUME TypeInv, MeetInv, CalmInv, [Next]_vars PROVE CalmInv'
  OBVIOUS
<1>1. /\ h \in [Caller -> Work] /\ users \in [Phone -> User \cup {NoUser}]
      /\ calm \in [Phone -> BOOLEAN] /\ None \notin Phone
  BY AccountsAssumption DEF TypeInv, UsersOK, RestOK
<1>2. CASE UNCHANGED <<h, users, calm, chosen, told>>
  BY <1>2 DEF CalmInv
<1>3. ASSUME NEW c \in Caller, Step(c)
      PROVE  CalmInv'
  <2>1. /\ h[c].phone \in Phone /\ Moves(c) /\ Keeps(c) /\ calm' = calm
    BY <1>3, StepMoves
  <2>2. ASSUME NEW p \in Phone, calm'[p]
        PROVE  /\ CalmRow(users'[p], chosen'[p], told'[p])
               /\ \A d \in Caller : h'[d].phone = p => CalmWork(h'[d], users'[p])
    <3>1. CASE p = h[c].phone
      <4>1. CalmRow(users'[p], chosen'[p], told'[p]) /\ CalmWork(h'[c], users'[p])
        BY <1>3, <2>1, <2>2, <3>1, CalmRowStep, CalmWorkStep
      <4>2. ASSUME NEW d \in Caller, d # c
            PROVE  h'[d].phone # p
        BY <2>1, <2>2, <3>1, <4>2 DEF Moves, MeetInv
      <4>3. QED BY <4>1, <4>2
    <3>2. CASE p # h[c].phone
      <4>1. users'[p] = users[p] /\ chosen'[p] = chosen[p] /\ told'[p] = told[p]
        BY <2>1, <3>2 DEF Keeps
      <4>2. h'[c].phone # p
        BY <1>1, <2>1, <3>2, IdleTyped DEF Moves
      <4>3. QED BY <2>1, <2>2, <4>1, <4>2 DEF CalmInv, Moves
    <3>3. QED BY <3>1, <3>2
  <2>3. QED BY <2>2 DEF CalmInv
<1>4. ASSUME NEW c \in Caller, Command(c)
      PROVE  CalmInv'
  <2>1. PICK task \in Work : Start(c, task) /\ TaskOK([task EXCEPT !.pc = "meet"], codes)
    BY <1>4, CommandStarts
  <2>2. /\ h'[c].pc = "meet" /\ (\A p \in Phone : calm'[p] => calm[p])
        /\ \A d \in Caller \ {c} : h'[d] = h[d]
    BY <1>1, <2>1, MeetStart DEF Start
  <2>3. UNCHANGED <<users, chosen, told>>
    BY <2>1 DEF Start, tables, ghosts, counts
  <2>4. ASSUME NEW u PROVE CalmWork(h'[c], u)
    BY <2>2 DEF CalmWork
  <2>5. QED BY <2>2, <2>3, <2>4 DEF CalmInv
<1>5. ASSUME NEW c \in Caller, Crash(c)
      PROVE  CalmInv'
  <2>1. /\ h'[c] = Idle /\ \A d \in Caller \ {c} : h'[d] = h[d]
        /\ \A p \in Phone : calm'[p] => calm[p]
    BY <1>1, <1>5 DEF Crash, Leave
  <2>2. UNCHANGED <<users, chosen, told>>
    BY <1>5 DEF Crash, tables, ghosts, counts
  <2>3. h'[c].phone \notin Phone
    BY <1>1, <2>1, IdleTyped
  <2>4. QED BY <2>1, <2>2, <2>3 DEF CalmInv
<1>6. ASSUME NEW q \in Phone, LockPasses(q) \/ CodeAges(q)
      PROVE  CalmInv'
  <2>1. UNCHANGED <<h, calm, chosen, told>> /\ users[q].known /\ users[q] \in User
    <3>1. users[q].known
      BY <1>6 DEF LockPasses, CodeAges
    <3>2. users[q] \in User
      BY <1>1, <3>1, KnownIsUser
    <3>3. QED BY <1>6, <3>1, <3>2 DEF LockPasses, CodeAges, ghosts, counts
  <2>2. \A p \in Phone \ {q} : users'[p] = users[p]
    BY <1>1, <1>6 DEF LockPasses, CodeAges
  <2>3. LET u == users[q]
            v == users'[q]
        IN  /\ v.known /\ v.pin = u.pin /\ v.wallet = u.wallet
            /\ v.sim = u.sim /\ v.tier = u.tier
    <3>1. CASE LockPasses(q)
      <4>1. users'[q] = [users[q] EXCEPT !.locked = FALSE]
        BY <1>1, <3>1 DEF LockPasses
      <4>2. QED BY <2>1, <4>1 DEF User
    <3>2. CASE CodeAges(q)
      <4>1. users'[q] = [users[q] EXCEPT !.aged = TRUE]
        BY <1>1, <3>2 DEF CodeAges
      <4>2. QED BY <2>1, <4>1 DEF User
    <3>3. QED BY <1>6, <3>1, <3>2
  <2>4. ASSUME NEW p \in Phone, calm'[p]
        PROVE  /\ CalmRow(users'[p], chosen'[p], told'[p])
               /\ \A d \in Caller : h'[d].phone = p => CalmWork(h'[d], users'[p])
    <3>1. /\ CalmRow(users[p], chosen[p], told[p])
          /\ \A d \in Caller : h[d].phone = p => CalmWork(h[d], users[p])
      BY <2>1, <2>4 DEF CalmInv
    <3>2. CASE p # q
      BY <2>1, <2>2, <3>1, <3>2
    <3>3. CASE p = q
      <4>1. CalmRow(users'[p], chosen'[p], told'[p])
        BY <2>1, <2>3, <3>1, <3>3 DEF CalmRow
      <4>2. ASSUME NEW d \in Caller, h'[d].phone = p
            PROVE  CalmWork(h'[d], users'[p])
        BY <2>1, <2>3, <3>1, <3>3, <4>2 DEF CalmWork
      <4>3. QED BY <4>1, <4>2
    <3>4. QED BY <3>2, <3>3
  <2>5. QED BY <2>4 DEF CalmInv
<1>7. CASE UNCHANGED vars
  BY <1>2, <1>7 DEF vars, tables, ghosts, counts
<1>8. QED BY <1>3, <1>4, <1>5, <1>6, <1>7 DEF Next

\* Every phone starts with the row it was set up with.
LEMMA CalmInit == Init => CalmInv
<1> SUFFICES ASSUME Init PROVE CalmInv
  OBVIOUS
<1>1. \A c \in Caller : h[c] = Idle
  BY DEF Init
<1>2. ASSUME NEW p \in Phone
      PROVE  CalmRow(users[p], chosen[p], told[p])
  <2>1. /\ told[p] = {}
        /\ chosen[p] = IF users[p].known THEN users[p].pin ELSE None
    BY DEF Init
  <2>2. users[p].known => users[p].sim = "none"
    BY StartingRows
  <2>3. QED BY <2>1, <2>2 DEF CalmRow
<1>3. \A c \in Caller : h[c].phone \notin Phone
  BY <1>1, IdleTyped, AccountsAssumption
<1>4. QED BY <1>2, <1>3 DEF CalmInv

\* It holds in every state.
LEMMA CalmAlways == Spec => []CalmInv
  BY CalmInit, CalmNext, MeetAlways, TypeAlways, PTL DEF Spec

\* As long as a phone's commands do not overlap, no command undoes another: its
\* PIN is the one chosen last, and the address it was told is its wallet's.
THEOREM NothingEverUndone == Spec => []NothingIsUndone
<1>1. CalmInv => NothingIsUndone
  BY DEF CalmInv, CalmRow, NothingIsUndone
<1>2. QED BY <1>1, CalmAlways, PTL

\* As long as a phone's commands do not overlap, an ID recorded after an
\* attestation, or before one, leaves an attested phone in tier 2.
THEOREM AttestedStaysTier2 == Spec => []AttestedIsTier2
<1>1. CalmInv => AttestedIsTier2
  BY DEF CalmInv, CalmRow, AttestedIsTier2
<1>2. QED BY <1>1, CalmAlways, PTL

-----------------------------------------------------------------------------
(* Failures: the counter and the lock are what the wrong PINs make them, as long *)
(* as none of these was overtaken on its way to the counter, or cut off.         *)

FailRow(u, wr, sl, la) ==
  /\ u.known /\ sl = 0 => u.fails = wr /\ (u.locked \/ la <=> wr >= MaxFails)
  /\ ~u.known => wr = 0 /\ sl = 0 /\ ~la

\* A row about to be inserted is one of nobody's failures.
FailWork(t, u) == t.pc = "upsert" /\ ~u.known => t.user.fails = 0 /\ ~t.user.locked

FailInv ==
  /\ \A p \in Phone : FailRow(users[p], wrong[p], slips[p], lapsed[p])
  /\ \A c \in Caller : h[c].phone \in Phone => FailWork(h[c], users[h[c].phone])

\* Every other step leaves the failures as they are.
LEMMA FailsLeft ==
  ASSUME TypeInv, NEW c \in Caller, Step(c),
         ~(Upsert(c) \/ MarkFailure(c) \/ Forgive(c) \/ Store(c))
  PROVE  LET u == users[h[c].phone]
             v == users'[h[c].phone]
         IN  /\ UNCHANGED <<wrong, slips, lapsed>> /\ v.known = u.known
             /\ u.known => v.fails = u.fails /\ v.locked = u.locked
<1> DEFINE p == h[c].phone
           u == users[p]
           v == users'[p]
<1>1. p \in Phone /\ users \in [Phone -> User \cup {NoUser}]
  BY StepMoves DEF TypeInv, UsersOK
<1>2. ASSUME h[c].pc \notin {"idle", "meet", "mint", "upsert"}
      PROVE  u \in User /\ u.known /\ h[c].user \in User
  BY <1>2, AtWork
<1>3. CASE \/ Meet(c) \/ Mint(c) \/ Greet(c) \/ ReadBack(c) \/ CountFailure(c) \/ Clear(c)
           \/ Recheck(c) \/ Park(c) \/ Look(c) \/ Unlink(c) \/ Link(c) \/ Reread(c)
  <2>1. UNCHANGED <<users, wrong, slips, lapsed>>
    BY <1>3 DEF Meet, Mint, Greet, ReadBack, CountFailure, Clear, Recheck, Park, Look, Unlink,
                Link, Reread, tables, ghosts, counts
  <2>2. QED BY <2>1
<1>4. CASE SetUserName(c) \/ CoolDown(c) \/ Register(c)
  <2>1. h[c].pc \in {"name", "cool", "register"} /\ UNCHANGED <<wrong, slips, lapsed>>
    BY <1>4 DEF SetUserName, CoolDown, Register, At, ghosts, counts
  <2>2. u \in User /\ u.known
    BY <1>2, <2>1
  <2>3. v = [u EXCEPT !.named = TRUE] \/ v = [u EXCEPT !.cool = TRUE]
        \/ v = [u EXCEPT !.label = h[c].label] \/ v = u
    BY <1>1, <1>4 DEF SetUserName, CoolDown, Register
  <2>4. v.known = u.known /\ v.fails = u.fails /\ v.locked = u.locked
    <3> HIDE DEF u, v
    <3>1. QED BY <2>2, <2>3 DEF User
  <2>5. QED BY <2>1, <2>4
<1>5. CASE Challenge(c) \/ DropCode(c)
  <2>1. h[c].pc \in {"challenge", "drop"} /\ UNCHANGED <<wrong, slips, lapsed>>
    BY <1>5 DEF Challenge, DropCode, At, ghosts, counts
  <2>2. u \in User /\ u.known
    BY <1>2, <2>1
  <2>3. \E co : v = [u EXCEPT !.code = co, !.aged = FALSE]
    <3>1. CASE Challenge(c)
      <4>1. v = [u EXCEPT !.code = codes', !.aged = FALSE]
        BY <1>1, <3>1 DEF Challenge
      <4>2. QED BY <4>1
    <3>2. CASE DropCode(c)
      <4>1. v = [u EXCEPT !.code = 0, !.aged = FALSE]
        BY <1>1, <3>2 DEF DropCode
      <4>2. QED BY <4>1
    <3>3. QED BY <1>5, <3>1, <3>2
  <2>4. v.known = u.known /\ v.fails = u.fails /\ v.locked = u.locked
    <3>1. PICK co : v = [u EXCEPT !.code = co, !.aged = FALSE]
      BY <2>3
    <3> HIDE DEF u, v
    <3>2. QED BY <2>2, <3>1 DEF User
  <2>5. QED BY <2>1, <2>4
<1>6. CASE Lookup(c) \/ Refused(c) \/ Attested(c) \/ Grade(c)
  <2>1. h[c].pc \in {"lookup", "refused", "attested", "grade"} /\ UNCHANGED <<wrong, slips, lapsed>>
    BY <1>6 DEF Lookup, Refused, Attested, Grade, At, ghosts, counts
  <2>2. u \in User /\ u.known
    BY <1>2, <2>1
  <2>3. \E sim, tier : v = [u EXCEPT !.sim = sim] \/ v = [u EXCEPT !.tier = tier]
                       \/ v = [u EXCEPT !.sim = sim, !.tier = tier]
    <3>1. CASE Lookup(c)
      <4>1. v = [u EXCEPT !.sim = "pending"]
        BY <1>1, <3>1 DEF Lookup
      <4>2. QED BY <4>1
    <3>2. CASE Refused(c)
      <4>1. v = [u EXCEPT !.sim = "failed"]
        BY <1>1, <3>2 DEF Refused
      <4>2. QED BY <4>1
    <3>3. CASE Attested(c)
      <4>1. v = [u EXCEPT !.sim = "attested", !.tier = 2]
        BY <1>1, <3>3 DEF Attested
      <4>2. QED BY <4>1
    <3>4. CASE Grade(c)
      <4> DEFINE n == IF h[c].user.tier > 1 THEN h[c].user.tier ELSE 1
      <4>1. v = [u EXCEPT !.tier = n]
        BY <1>1, <3>4 DEF Grade
      <4> HIDE DEF n
      <4>2. QED BY <4>1
    <3>5. QED BY <1>6, <3>1, <3>2, <3>3, <3>4
  <2>4. v.known = u.known /\ v.fails = u.fails /\ v.locked = u.locked
    <3>1. PICK sim, tier : v = [u EXCEPT !.sim = sim] \/ v = [u EXCEPT !.tier = tier]
                           \/ v = [u EXCEPT !.sim = sim, !.tier = tier]
      BY <2>3
    <3> HIDE DEF u, v
    <3>2. QED BY <2>2, <3>1 DEF User
  <2>5. QED BY <2>1, <2>4
<1>7. QED BY <1>3, <1>4, <1>5, <1>6 DEF Step

\* The failures of the phone a command is about, after one of its steps.
LEMMA FailRowStep ==
  ASSUME TypeInv, FailInv, NEW c \in Caller, Step(c)
  PROVE  LET p == h[c].phone
         IN  /\ FailRow(users'[p], wrong'[p], slips'[p], lapsed'[p])
             /\ users[p].known => users'[p].known
<1> DEFINE p == h[c].phone
           u == users[p]
           v == users'[p]
<1>1. /\ p \in Phone /\ h[c].pc # "idle" /\ MaxFails \in Nat \ {0}
      /\ users \in [Phone -> User \cup {NoUser}] /\ wrong \in [Phone -> Nat]
      /\ slips \in [Phone -> Nat] /\ lapsed \in [Phone -> BOOLEAN]
      /\ u \in User \cup {NoUser}
  BY StepMoves, AccountsAssumption DEF TypeInv, UsersOK, RestOK
<1>2. FailRow(u, wrong[p], slips[p], lapsed[p]) /\ FailWork(h[c], u)
  BY <1>1 DEF FailInv
<1>3. ASSUME h[c].pc \notin {"idle", "meet", "mint", "upsert"}
      PROVE  u \in User /\ u.known /\ h[c] \in Work
  BY <1>3, AtWork
<1>4. CASE ~(Upsert(c) \/ MarkFailure(c) \/ Forgive(c) \/ Store(c))
  <2>1. /\ UNCHANGED <<wrong, slips, lapsed>> /\ v.known = u.known
        /\ u.known => v.fails = u.fails /\ v.locked = u.locked
    BY <1>4, FailsLeft
  <2>2. QED BY <1>2, <2>1 DEF FailRow
<1>5. CASE Upsert(c)
  <2>1. h[c].pc = "upsert" /\ h[c].user \in User /\ UNCHANGED <<wrong, slips, lapsed>>
    BY <1>5, AtWork DEF Upsert, At, ghosts, counts
  <2>2. CASE u.known
    <3>1. u \in User /\ v = Upserted(u, h[c].user)
      BY <1>1, <1>5, <2>2, KnownIsUser DEF Upsert
    <3>2. v.known /\ v.fails = u.fails /\ v.locked = u.locked
      BY <2>1, <3>1, UpsertedSays
    <3>3. QED BY <1>2, <2>1, <2>2, <3>2 DEF FailRow
  <2>3. CASE ~u.known
    <3>1. v = h[c].user /\ v.known
      BY <1>1, <1>5, <2>1, <2>3 DEF Upsert, User
    <3>2. v.fails = 0 /\ ~v.locked
      BY <1>2, <2>1, <2>3, <3>1 DEF FailWork
    <3>3. wrong[p] = 0 /\ slips[p] = 0 /\ ~lapsed[p]
      BY <1>2, <2>3 DEF FailRow
    <3>4. QED BY <1>1, <2>1, <2>3, <3>1, <3>2, <3>3 DEF FailRow
  <2>4. QED BY <2>2, <2>3
<1>6. CASE Forgive(c) \/ Store(c)
  <2>1. h[c].pc \in {"forgive", "store"} /\ CountsAnew(p)
    BY <1>6 DEF Forgive, Store, At
  <2>2. u \in User /\ u.known
    BY <1>3, <2>1
  <2>3. v = Unfailed(u) \/ v = [Unfailed(u) EXCEPT !.pin = h[c].pin]
    BY <1>1, <1>6 DEF Forgive, Store
  <2>4. Unfailed(u) \in User /\ Unfailed(u).fails = 0 /\ ~Unfailed(u).locked
    BY <2>2, UnfailedTyped
  <2>5. v.known /\ v.fails = 0 /\ ~v.locked
    <3> HIDE DEF u, v
    <3>1. QED BY <2>3, <2>4 DEF User
  <2>6. wrong'[p] = 0 /\ ~lapsed'[p]
    BY <1>1, <2>1 DEF CountsAnew
  <2>7. QED BY <1>1, <2>5, <2>6 DEF FailRow
<1>7. CASE MarkFailure(c)
  <2> DEFINE n == h[c].n + 1
  <2>1. h[c].pc = "mark"
    BY <1>7 DEF MarkFailure, At
  <2>2. u \in User /\ u.known /\ h[c].n \in Nat
    BY <1>3, <2>1 DEF Work
  <2>3. v = [u EXCEPT !.fails = n, !.locked = LocksAt(n)]
    BY <1>1, <1>7 DEF MarkFailure
  <2>4. wrong'[p] = wrong[p] + 1 /\ ~lapsed'[p]
    BY <1>1, <1>7 DEF MarkFailure
  <2>5. IF u.fails = h[c].n THEN slips'[p] = slips[p] ELSE slips'[p] = slips[p] + 1
    BY <1>1, <1>7 DEF MarkFailure
  <2>6. n \in Nat /\ LocksAt(n) = (n >= MaxFails)
    BY <2>2 DEF LocksAt
  <2> HIDE DEF n
  <2>7. v.known /\ v.fails = n /\ v.locked = LocksAt(n)
    <3> HIDE DEF u, v
    <3>1. QED BY <2>2, <2>3 DEF User
  <2>8. ASSUME slips'[p] = 0
        PROVE  v.fails = wrong'[p] /\ (v.locked \/ lapsed'[p] <=> wrong'[p] >= MaxFails)
    <3>1. slips[p] \in Nat /\ slips[p] + 1 # 0
      BY <1>1
    <3>2. u.fails = h[c].n /\ slips[p] = 0
      BY <2>5, <2>8, <3>1
    <3>3. u.fails = wrong[p]
      BY <1>2, <2>2, <3>2 DEF FailRow
    <3>4. n = wrong'[p]
      BY <2>4, <3>2, <3>3 DEF n
    <3>5. QED BY <2>4, <2>6, <2>7, <3>4
  <2>9. QED BY <2>7, <2>8 DEF FailRow
<1>8. QED BY <1>4, <1>5, <1>6, <1>7

\* The row a command comes to insert.
LEMMA FailWorkStep ==
  ASSUME TypeInv, NEW c \in Caller, Step(c), h'[c].pc = "upsert", ~users'[h[c].phone].known
  PROVE  h'[c].user.fails = 0 /\ ~h'[c].user.locked
<1> DEFINE p == h[c].phone
           u == users[p]
           t == h'[c]
<1>1. /\ p \in Phone /\ h \in [Caller -> Work] /\ h[c] \in Work /\ h[c].does # "none"
      /\ users \in [Phone -> User \cup {NoUser}]
  BY StepMoves DEF TypeInv, UsersOK
<1>2. Meet(c) \/ Mint(c)
  BY Arrives
<1>3. ~u.known
  BY <1>2 DEF Meet, Mint, tables
<1>4. CASE Meet(c)
  <2>1. Go(c, "mint")
    BY <1>3, <1>4 DEF Meet
  <2>2. t.pc = "mint"
    BY <1>1, <2>1 DEF Go, Work
  <2>3. QED BY <2>2
<1>5. CASE Mint(c)
  <2>1. ~Leave(c)
    BY <1>1, IdleTyped DEF Leave
  <2>2. h' = [h EXCEPT ![c].user = NewUser(minted', h[c].does = "join"), ![c].pc = "upsert"]
    BY <1>5, <2>1 DEF Mint
  <2>3. t.user = NewUser(minted', h[c].does = "join")
    BY <1>1, <2>2 DEF Work
  <2>4. QED BY <2>3 DEF NewUser
<1>6. QED BY <1>2, <1>4, <1>5

\* It is kept by every step.
LEMMA FailNext == TypeInv /\ FailInv /\ [Next]_vars => FailInv'
<1> SUFFICES ASSUME TypeInv, FailInv, [Next]_vars PROVE FailInv'
  OBVIOUS
<1>1. /\ h \in [Caller -> Work] /\ users \in [Phone -> User \cup {NoUser}]
      /\ wrong \in [Phone -> Nat] /\ slips \in [Phone -> Nat] /\ lapsed \in [Phone -> BOOLEAN]
      /\ None \notin Phone
  BY AccountsAssumption DEF TypeInv, UsersOK, RestOK
<1>2. ASSUME NEW c \in Caller, Step(c)
      PROVE  FailInv'
  <2>1. h[c].phone \in Phone /\ Moves(c) /\ Keeps(c)
    BY <1>2, StepMoves
  <2>2. /\ FailRow(users'[h[c].phone], wrong'[h[c].phone], slips'[h[c].phone],
                   lapsed'[h[c].phone])
        /\ users[h[c].phone].known => users'[h[c].phone].known
    BY <1>2, FailRowStep
  <2>3. ASSUME NEW p \in Phone
        PROVE  /\ FailRow(users'[p], wrong'[p], slips'[p], lapsed'[p])
               /\ users[p].known => users'[p].known
    <3>1. CASE p = h[c].phone
      BY <2>2, <3>1
    <3>2. CASE p # h[c].phone
      BY <2>1, <3>2 DEF Keeps, FailInv
    <3>3. QED BY <3>1, <3>2
  <2>4. ASSUME NEW d \in Caller, h'[d].phone \in Phone
        PROVE  FailWork(h'[d], users'[h'[d].phone])
    <3>1. CASE d = c
      <4>1. h'[c].phone = h[c].phone
        BY <1>1, <2>1, <2>4, <3>1, IdleTyped DEF Moves
      <4>2. QED BY <1>2, <3>1, <4>1, FailWorkStep DEF FailWork
    <3>2. CASE d # c
      <4>1. h'[d] = h[d]
        BY <2>1, <3>2 DEF Moves
      <4>2. FailWork(h[d], users[h[d].phone]) /\ h[d].phone \in Phone
        BY <2>4, <4>1 DEF FailInv
      <4>3. users[h[d].phone].known => users'[h[d].phone].known
        BY <2>3, <4>2
      <4>4. FailWork(h[d], users'[h[d].phone])
        BY <4>2, <4>3 DEF FailWork
      <4>5. QED BY <4>1, <4>4
    <3>3. QED BY <3>1, <3>2
  <2>5. QED BY <2>3, <2>4 DEF FailInv
<1>3. ASSUME NEW c \in Caller, Command(c)
      PROVE  FailInv'
  <2>1. PICK task \in Work : Start(c, task) /\ TaskOK([task EXCEPT !.pc = "meet"], codes)
    BY <1>3, CommandStarts
  <2>2. h'[c].pc = "meet" /\ \A d \in Caller \ {c} : h'[d] = h[d]
    BY <1>1, <2>1, MeetStart DEF Start
  <2>3. UNCHANGED <<users, wrong, slips, lapsed>>
    BY <2>1 DEF Start, tables, ghosts, counts
  <2>4. ASSUME NEW u PROVE FailWork(h'[c], u)
    BY <2>2 DEF FailWork
  <2>5. ASSUME NEW d \in Caller, h'[d].phone \in Phone
        PROVE  FailWork(h'[d], users'[h'[d].phone])
    <3>1. CASE d = c
      BY <2>4, <3>1
    <3>2. CASE d # c
      BY <2>2, <2>3, <2>5, <3>2 DEF FailInv
    <3>3. QED BY <3>1, <3>2
  <2>6. QED BY <2>3, <2>5 DEF FailInv
<1>4. ASSUME NEW c \in Caller, Crash(c)
      PROVE  FailInv'
  <2> DEFINE q == h[c].phone
  <2>1. h'[c] = Idle /\ (\A d \in Caller \ {c} : h'[d] = h[d]) /\ UNCHANGED <<users, lapsed>>
    BY <1>1, <1>4 DEF Crash, Leave, tables
  <2>2. h'[c].phone \notin Phone
    BY <1>1, <2>1, IdleTyped
  <2>3. ASSUME NEW d \in Caller, h'[d].phone \in Phone
        PROVE  FailWork(h'[d], users'[h'[d].phone])
    <3>1. d # c
      BY <2>2, <2>3
    <3>2. h'[d] = h[d]
      BY <2>1, <3>1
    <3>3. FailWork(h[d], users[h[d].phone])
      BY <2>3, <3>2 DEF FailInv
    <3>4. QED BY <2>1, <3>2, <3>3
  <2>4. ASSUME NEW p \in Phone
        PROVE  FailRow(users'[p], wrong'[p], slips'[p], lapsed'[p])
    <3>1. FailRow(users[p], wrong[p], slips[p], lapsed[p])
      BY DEF FailInv
    <3>2. CASE h[c].pc \in {"count", "mark"}
      <4>1. wrong' = [wrong EXCEPT ![q] = @ + 1] /\ slips' = [slips EXCEPT ![q] = @ + 1]
        BY <1>4, <3>2 DEF Crash
      <4>2. q \in Phone /\ users[q].known
        BY <3>2, AtWork
      <4> HIDE DEF q
      <4>3. CASE p = q
        <5>1. slips[p] \in Nat /\ slips'[p] = slips[p] + 1
          BY <1>1, <4>1, <4>2, <4>3
        <5>2. slips'[p] # 0
          BY <5>1
        <5>3. QED BY <2>1, <4>2, <4>3, <5>2 DEF FailRow
      <4>4. CASE p # q
        <5>1. wrong'[p] = wrong[p] /\ slips'[p] = slips[p]
          BY <1>1, <4>1, <4>4
        <5>2. QED BY <2>1, <3>1, <5>1
      <4>5. QED BY <4>3, <4>4
    <3>3. CASE h[c].pc \notin {"count", "mark"}
      <4>1. UNCHANGED <<wrong, slips>>
        BY <1>4, <3>3 DEF Crash
      <4>2. QED BY <2>1, <3>1, <4>1
    <3>4. QED BY <3>2, <3>3
  <2>5. QED BY <2>3, <2>4 DEF FailInv
<1>5. ASSUME NEW q \in Phone, LockPasses(q) \/ CodeAges(q)
      PROVE  FailInv'
  <2>1. h' = h /\ users[q] \in User /\ users[q].known
    <3>1. h' = h /\ users[q].known
      BY <1>5 DEF LockPasses, CodeAges
    <3>2. QED BY <1>1, <3>1, KnownIsUser
  <2>2. /\ users'[q].known /\ users'[q].fails = users[q].fails
        /\ users'[q].locked \/ lapsed'[q] <=> users[q].locked \/ lapsed[q]
        /\ UNCHANGED <<wrong, slips>>
        /\ \A p \in Phone \ {q} : users'[p] = users[p] /\ lapsed'[p] = lapsed[p]
    <3>1. CASE LockPasses(q)
      <4>1. users' = [users EXCEPT ![q].locked = FALSE] /\ users[q].locked
            /\ lapsed' = [lapsed EXCEPT ![q] = TRUE] /\ UNCHANGED <<wrong, slips>>
        BY <3>1 DEF LockPasses
      <4>2. users'[q] = [users[q] EXCEPT !.locked = FALSE] /\ lapsed'[q]
        BY <1>1, <4>1
      <4>3. users'[q].known /\ users'[q].fails = users[q].fails
        BY <2>1, <4>2 DEF User
      <4>4. \A p \in Phone \ {q} : users'[p] = users[p] /\ lapsed'[p] = lapsed[p]
        BY <1>1, <4>1
      <4>5. QED BY <4>1, <4>2, <4>3, <4>4
    <3>2. CASE CodeAges(q)
      <4>1. users' = [users EXCEPT ![q].aged = TRUE] /\ UNCHANGED <<wrong, slips, lapsed>>
        BY <3>2 DEF CodeAges, ghosts, counts
      <4>2. users'[q] = [users[q] EXCEPT !.aged = TRUE]
        BY <1>1, <4>1
      <4>3. /\ users'[q].known /\ users'[q].fails = users[q].fails
            /\ users'[q].locked = users[q].locked
        BY <2>1, <4>2 DEF User
      <4>4. \A p \in Phone \ {q} : users'[p] = users[p]
        BY <1>1, <4>1
      <4>5. QED BY <4>1, <4>3, <4>4
    <3>3. QED BY <1>5, <3>1, <3>2
  <2>3. ASSUME NEW p \in Phone
        PROVE  /\ FailRow(users'[p], wrong'[p], slips'[p], lapsed'[p])
               /\ users[p].known => users'[p].known
    <3>1. FailRow(users[p], wrong[p], slips[p], lapsed[p])
      BY DEF FailInv
    <3>2. CASE p = q
      BY <2>1, <2>2, <3>1, <3>2 DEF FailRow
    <3>3. CASE p # q
      BY <2>2, <3>1, <3>3
    <3>4. QED BY <3>2, <3>3
  <2>4. ASSUME NEW d \in Caller, h[d].phone \in Phone
        PROVE  FailWork(h[d], users'[h[d].phone])
    BY <2>3, <2>4 DEF FailWork, FailInv
  <2>5. QED BY <2>1, <2>3, <2>4 DEF FailInv
<1>6. CASE UNCHANGED vars
  <2>1. UNCHANGED <<h, users, wrong, slips, lapsed>>
    BY <1>6 DEF vars, tables, ghosts, counts
  <2>2. QED BY <2>1 DEF FailInv
<1>7. QED BY <1>2, <1>3, <1>4, <1>5, <1>6 DEF Next

\* Nobody has failed yet.
LEMMA FailInit == Init => FailInv
<1> SUFFICES ASSUME Init PROVE FailInv
  OBVIOUS
<1>1. \A c \in Caller : h[c] = Idle
  BY DEF Init
<1>2. ASSUME NEW p \in Phone
      PROVE  FailRow(users[p], wrong[p], slips[p], lapsed[p])
  <2>1. wrong[p] = 0 /\ slips[p] = 0 /\ lapsed[p] = FALSE
    BY DEF Init
  <2>2. users[p].known => users[p].fails = 0 /\ ~users[p].locked
    BY StartingRows
  <2>3. ~(0 >= MaxFails)
    BY AccountsAssumption
  <2>4. QED BY <2>1, <2>2, <2>3 DEF FailRow
<1>3. \A c \in Caller : h[c].phone \notin Phone
  BY <1>1, IdleTyped, AccountsAssumption
<1>4. QED BY <1>2, <1>3 DEF FailInv

\* Whatever runs beside each other, every wrong PIN of a confirmation is counted and
\* the phone is locked from the MaxFails-th on and not before, until the lock runs
\* out, unless one of them was overtaken on its way to the counter, or cut off.
THEOREM FailuresAlwaysCounted == Spec => []FailuresCounted
<1>1. Spec => []FailInv
  BY FailInit, FailNext, TypeAlways, PTL DEF Spec
<1>2. FailInv => FailuresCounted
  BY DEF FailInv, FailRow, FailuresCounted
<1>3. QED BY <1>1, <1>2, PTL

-----------------------------------------------------------------------------
(* What a claim or a link has checked stays true as long as its phone is calm. *)

QuietInv ==
  /\ \A p \in bounced : ~calm[p]
  /\ \A c \in Caller : h[c].pc = "register" /\ calm[h[c].phone]
       => names[h[c].label] \in {None, h[c].phone}
  /\ \A c \in Caller : h[c].pc = "link" /\ calm[h[c].phone]
       => \A t \in Chat : links[t] # h[c].phone

\* A command of a calm phone is not refused by an index.
LEMMA QuietBounce ==
  ASSUME TypeInv, MeetInv, QuietInv, NEW c \in Caller, Step(c)
  PROVE  \A p \in bounced' : ~calm[p]
<1>1. h[c].phone \in Phone
  BY StepMoves
<1>2. CASE Register(c)
  <2>1. h[c].pc = "register"
    BY <1>2 DEF Register, At
  <2>2. CASE UNCHANGED bounced
    BY <2>2 DEF QuietInv
  <2>3. CASE bounced' = bounced \cup {h[c].phone}
             /\ (names[h[c].label] \notin {None, h[c].phone} \/ Collides(c))
    <3>1. ~calm[h[c].phone]
      BY <1>1, <2>1, <2>3 DEF QuietInv, Collides, Busy, MeetInv
    <3>2. QED BY <2>3, <3>1 DEF QuietInv
  <2>4. QED BY <1>2, <2>2, <2>3 DEF Register
<1>3. CASE Link(c)
  <2>1. h[c].pc = "link"
    BY <1>3 DEF Link, At
  <2>2. CASE UNCHANGED bounced
    BY <2>2 DEF QuietInv
  <2>3. CASE bounced' = bounced \cup {h[c].phone} /\ \E s \in Chat : links[s] = h[c].phone
    <3>1. ~calm[h[c].phone]
      BY <2>1, <2>3 DEF QuietInv
    <3>2. QED BY <2>3, <3>1 DEF QuietInv
  <2>4. QED BY <1>3, <2>2, <2>3 DEF Link
<1>4. CASE ~Register(c) /\ ~Link(c)
  <2>1. bounced' = bounced
    BY <1>4 DEF Step, Meet, Mint, Upsert, Greet, SetUserName, ReadBack, Clear, Store, Forgive,
           CountFailure, MarkFailure, Recheck, Challenge, DropCode, CoolDown, Park, Look,
           Unlink, Reread, Grade, Lookup, Attested, Refused, ghosts, counts
  <2>2. QED BY <2>1 DEF QuietInv
<1>5. QED BY <1>2, <1>3, <1>4

\* A name that a calm phone found free stays free for it.
LEMMA QuietNames ==
  ASSUME TypeInv, MeetInv, QuietInv, NEW c \in Caller, Step(c), NEW d \in Caller,
         h'[d].pc = "register", calm[h'[d].phone]
  PROVE  names'[h'[d].label] \in {None, h'[d].phone}
<1>1. CASE d = c
  <2>1. Look(c)
    BY <1>1, Arrives
  <2>2. names' = names /\ h[c].pc # "idle" /\ h[c].does = "claim_name"
        /\ h \in [Caller -> Work] /\ h[c] \in Work
    <3>1. h[c].pc = "look"
      BY <2>1 DEF Look, At
    <3>2. h[c].does = "claim_name"
      BY <3>1, AtWork, PlanSays
    <3>3. QED BY <2>1, <3>1, <3>2 DEF Look, tables, TypeInv
  <2>3. CASE Leave(c)
    BY <1>1, <2>2, <2>3, IdleTyped DEF Leave
  <2>4. CASE names[h[c].label] \in {None, h[c].phone} /\ Go(c, "register")
    <3>1. h'[c].label = h[c].label /\ h'[c].phone = h[c].phone
      BY <2>2, <2>4 DEF Go, Work
    <3>2. QED BY <1>1, <2>2, <2>4, <3>1
  <2>5. QED BY <2>1, <2>3, <2>4 DEF Look
<1>2. CASE d # c
  <2>1. h'[d] = h[d] /\ h[d].pc = "register"
    BY <1>2, StepMoves DEF Moves
  <2>2. names[h[d].label] \in {None, h[d].phone}
    BY <2>1 DEF QuietInv
  <2>3. h[d].does = "claim_name"
    BY <2>1, AtWork, PlanSays
  <2>4. CASE Register(c)
    <3>1. h[c].pc = "register"
      BY <2>4 DEF Register, At
    <3>2. h[c].does = "claim_name"
      BY <3>1, AtWork, PlanSays
    <3>3. ~calm[h[d].phone]
      BY <1>2, <2>3, <3>2 DEF MeetInv
    <3>4. QED BY <2>1, <3>3
  <2>5. CASE ~Register(c)
    <3>1. names' = names
      BY <2>5 DEF Step, Meet, Mint, Upsert, Greet, SetUserName, ReadBack, Clear, Store, Forgive,
           CountFailure, MarkFailure, Recheck, Challenge, DropCode, CoolDown, Park, Look,
           Unlink, Link, Reread, Grade, Lookup, Attested, Refused, tables
    <3>2. QED BY <2>1, <2>2, <3>1
  <2>6. QED BY <2>4, <2>5
<1>3. QED BY <1>1, <1>2

\* A calm phone whose chat was dropped has none until its link is made.
LEMMA QuietLinks ==
  ASSUME TypeInv, MeetInv, QuietInv, NEW c \in Caller, Step(c), NEW d \in Caller,
         h'[d].pc = "link", calm[h'[d].phone], NEW t \in Chat
  PROVE  links'[t] # h'[d].phone
<1>1. links \in [Chat -> Phone \cup {None}] /\ None \notin Phone /\ h \in [Caller -> Work]
      /\ h[c] \in Work /\ h[c].phone \in Phone
  BY AccountsAssumption, StepMoves DEF TypeInv, RestOK
<1>2. CASE d = c
  <2>1. Unlink(c)
    BY <1>2, Arrives
  <2>2. h'[c].phone = h[c].phone
    BY <1>1, <2>1 DEF Unlink, Go, Work
  <2>3. links'[t] # h[c].phone
    BY <1>1, <2>1 DEF Unlink
  <2>4. QED BY <1>2, <2>2, <2>3
<1>3. CASE d # c
  <2>1. h'[d] = h[d] /\ h[d].pc = "link"
    BY <1>3, StepMoves DEF Moves
  <2>2. h[d].phone \in Phone /\ links[t] # h[d].phone
    BY <2>1, AtWork DEF QuietInv
  <2>3. CASE Link(c)
    <3>1. h[c].phone # h[d].phone
      BY <1>3, <2>1, <2>2 DEF MeetInv
    <3>2. links'[t] \in {links[t], h[c].phone}
      BY <1>1, <2>3 DEF Link
    <3>3. QED BY <2>1, <2>2, <3>1, <3>2
  <2>4. CASE Unlink(c)
    <3>1. links'[t] \in {links[t], None}
      BY <1>1, <2>4 DEF Unlink
    <3>2. QED BY <1>1, <2>1, <2>2, <3>1
  <2>5. CASE ~Link(c) /\ ~Unlink(c)
    <3>1. links' = links
      BY <2>5 DEF Step, Meet, Mint, Upsert, Greet, SetUserName, ReadBack, Clear, Store, Forgive,
           CountFailure, MarkFailure, Recheck, Challenge, DropCode, CoolDown, Park, Look,
           Register, Reread, Grade, Lookup, Attested, Refused, tables
    <3>2. QED BY <2>1, <2>2, <3>1
  <2>6. QED BY <2>3, <2>4, <2>5
<1>4. QED BY <1>2, <1>3

\* It is kept by every step.
LEMMA QuietNext == TypeInv /\ MeetInv /\ QuietInv /\ [Next]_vars => QuietInv'
<1> SUFFICES ASSUME TypeInv, MeetInv, QuietInv, [Next]_vars PROVE QuietInv'
  OBVIOUS
<1>1. /\ h \in [Caller -> Work] /\ bounced \subseteq Phone
      /\ \A d \in Caller : h[d].pc \in {"register", "link"} => h[d].phone \in Phone
  BY AtWork DEF TypeInv, RestOK
<1>2. CASE UNCHANGED <<h, calm, names, links, bounced>>
  BY <1>2 DEF QuietInv
<1>3. ASSUME NEW c \in Caller, Step(c)
      PROVE  QuietInv'
  <2>1. calm' = calm
    BY <1>3, StepMoves
  <2>2. \A p \in bounced' : ~calm[p]
    BY <1>3, QuietBounce
  <2>3. \A d \in Caller : h'[d].pc = "register" /\ calm[h'[d].phone]
          => names'[h'[d].label] \in {None, h'[d].phone}
    BY <1>3, QuietNames
  <2>4. \A d \in Caller : h'[d].pc = "link" /\ calm[h'[d].phone]
          => \A t \in Chat : links'[t] # h'[d].phone
    BY <1>3, QuietLinks
  <2>5. QED BY <2>1, <2>2, <2>3, <2>4 DEF QuietInv
<1>4. ASSUME NEW c \in Caller, \A d \in Caller \ {c} : h'[d] = h[d],
             h'[c].pc \in {"idle", "meet"}, \A p \in Phone : calm'[p] => calm[p],
             UNCHANGED <<names, links, bounced>>
      PROVE  QuietInv'
  <2>1. \A d \in Caller : h'[d].pc \in {"register", "link"} => h'[d] = h[d] /\ h[d].phone \in Phone
    BY <1>1, <1>4
  <2>2. \A p \in bounced' : ~calm'[p]
    BY <1>1, <1>4 DEF QuietInv
  <2>3. QED BY <1>4, <2>1, <2>2 DEF QuietInv
<1>5. ASSUME NEW c \in Caller, Command(c)
      PROVE  QuietInv'
  <2>1. PICK task \in Work : Start(c, task) /\ TaskOK([task EXCEPT !.pc = "meet"], codes)
    BY <1>5, CommandStarts
  <2>2. /\ h'[c].pc = "meet" /\ (\A p \in Phone : calm'[p] => calm[p])
        /\ \A d \in Caller \ {c} : h'[d] = h[d]
    BY <1>1, <2>1, MeetStart DEF Start
  <2>3. UNCHANGED <<names, links, bounced>>
    BY <2>1 DEF Start, tables, ghosts, counts
  <2>4. QED BY <1>4, <2>2, <2>3
<1>6. ASSUME NEW c \in Caller, Crash(c)
      PROVE  QuietInv'
  <2>1. /\ h'[c] = Idle /\ \A d \in Caller \ {c} : h'[d] = h[d]
        /\ \A p \in Phone : calm'[p] => calm[p]
    BY <1>1, <1>6 DEF Crash, Leave, TypeInv, RestOK
  <2>2. UNCHANGED <<names, links, bounced>>
    BY <1>6 DEF Crash, tables, ghosts, counts
  <2>3. QED BY <1>4, <2>1, <2>2, IdleTyped
<1>7. ASSUME NEW p \in Phone, LockPasses(p) \/ CodeAges(p)
      PROVE  QuietInv'
  BY <1>2, <1>7 DEF LockPasses, CodeAges, ghosts, counts
<1>8. CASE UNCHANGED vars
  BY <1>2, <1>8 DEF vars, tables, ghosts, counts
<1>9. QED BY <1>3, <1>5, <1>6, <1>7, <1>8 DEF Next

\* A claim that found its name free, and a link that dropped the phone's chat,
\* are refused by an index only when another command came in between.
THEOREM RefusalsComeOfOverlap == Spec => []RefusedOnlyOverlapped
<1>1. Init => QuietInv
  BY IdleTyped DEF Init, QuietInv
<1>2. QuietInv => RefusedOnlyOverlapped
  BY DEF QuietInv, RefusedOnlyOverlapped
<1>3. QED BY <1>1, <1>2, QuietNext, MeetAlways, TypeAlways, PTL DEF Spec

-----------------------------------------------------------------------------
(* Codes of the user rows. *)

\* A row holds a code.
Live(us, p, i) == us[p].known /\ us[p].code = i

\* But for a challenge and a drop, no step of a command touches a code.
LEMMA CodesSame ==
  ASSUME TypeInv, NEW c \in Caller, Step(c), ~Challenge(c), ~DropCode(c),
         NEW p \in Phone, NEW i \in Nat \ {0}
  PROVE  Live(users', p, i) <=> Live(users, p, i)
<1>1. /\ h[c].phone \in Phone /\ h[c].pc # "idle"
      /\ \A q \in Phone \ {h[c].phone} : users'[q] = users[q]
  BY StepMoves DEF Keeps
<1>2. users \in [Phone -> User \cup {NoUser}] /\ WorkOK(h[c], users, minted, codes)
      /\ h[c] \in Work
  BY DEF TypeInv, UsersOK
<1>3. CASE p # h[c].phone
  BY <1>1, <1>3 DEF Live
<1>4. CASE p = h[c].phone
  <2>1. CASE Upsert(c)
    <3>1. h[c].pc = "upsert"
      BY <2>1 DEF Upsert, At
    <3>2. CASE users[p].known
      <4>1. users[p] \in User /\ h[c].user \in User
        BY <1>2, <3>1, <3>2, AtWork, KnownIsUser
      <4>2. users'[p] = Upserted(users[p], h[c].user)
        BY <1>2, <1>4, <2>1, <3>2 DEF Upsert
      <4>3. Upserted(users[p], h[c].user).code = users[p].code
            /\ Upserted(users[p], h[c].user).known
        BY <4>1 DEF Upserted, User
      <4>4. QED BY <3>2, <4>2, <4>3 DEF Live
    <3>3. CASE ~users[p].known
      <4>1. users'[p] = h[c].user
        BY <1>2, <1>4, <2>1, <3>3 DEF Upsert
      <4>2. h[c].user.code = 0
        BY <1>2, <1>4, <3>1, <3>3 DEF WorkOK
      <4>3. QED BY <3>3, <4>1, <4>2 DEF Live
    <3>4. QED BY <3>2, <3>3
  <2>2. CASE Meet(c) \/ Mint(c) \/ Greet(c) \/ ReadBack(c) \/ Clear(c) \/ CountFailure(c)
             \/ Recheck(c) \/ Park(c) \/ Look(c) \/ Unlink(c) \/ Link(c) \/ Reread(c)
    BY <2>2 DEF Meet, Mint, Greet, ReadBack, Clear, CountFailure, Recheck, Park, Look, Unlink,
                Link, Reread, tables, Live
  <2>3. ASSUME h[c].pc \notin {"idle", "meet", "mint", "upsert"}
        PROVE  users[p] \in User /\ users[p].known
    BY <1>4, <2>3, AtWork
  <2>4. CASE SetUserName(c) \/ CoolDown(c)
    <3>1. users[p] \in User
      BY <2>3, <2>4 DEF SetUserName, CoolDown, At
    <3>2. CASE SetUserName(c)
      BY <1>2, <1>4, <3>1, <3>2 DEF SetUserName, Live, User
    <3>3. CASE CoolDown(c)
      BY <1>2, <1>4, <3>1, <3>3 DEF CoolDown, Live, User
    <3>4. QED BY <2>4, <3>2, <3>3
  <2>5. CASE Store(c) \/ Forgive(c)
    <3>1. users[p] \in User
      BY <2>3, <2>5 DEF Store, Forgive, At
    <3>2. Unfailed(users[p]) \in User /\ Unfailed(users[p]).code = users[p].code
      BY <3>1 DEF Unfailed, User
    <3>3. users'[p] = Unfailed(users[p]) \/ users'[p] = [Unfailed(users[p]) EXCEPT !.pin = h[c].pin]
      BY <1>2, <1>4, <2>5 DEF Store, Forgive
    <3>4. users'[p].known /\ users'[p].code = users[p].code /\ users[p].known
      BY <3>1, <3>2, <3>3 DEF User
    <3>5. QED BY <3>4 DEF Live
  <2>6. CASE MarkFailure(c)
    <3>1. users[p] \in User
      BY <2>3, <2>6 DEF MarkFailure, At
    <3>2. QED BY <1>2, <1>4, <2>6, <3>1 DEF MarkFailure, Live, User
  <2>7. CASE Register(c)
    <3>1. users[p] \in User
      BY <1>4, <2>7, AtRegister
    <3>2. CASE users' = users
      BY <3>2
    <3>3. CASE users' = [users EXCEPT ![h[c].phone].label = h[c].label]
      BY <1>2, <1>4, <3>1, <3>3 DEF Live, User
    <3>4. QED BY <2>7, <3>2, <3>3 DEF Register
  <2>8. CASE Grade(c)
    <3>1. users[p] \in User
      BY <2>3, <2>8 DEF Grade, At
    <3>2. QED BY <1>2, <1>4, <2>8, <3>1 DEF Grade, Live, User
  <2>9. CASE Lookup(c) \/ Refused(c)
    <3>1. users[p] \in User
      BY <2>3, <2>9 DEF Lookup, Refused, At
    <3>2. CASE Lookup(c)
      BY <1>2, <1>4, <3>1, <3>2 DEF Lookup, Live, User
    <3>3. CASE Refused(c)
      BY <1>2, <1>4, <3>1, <3>3 DEF Refused, Live, User
    <3>4. QED BY <2>9, <3>2, <3>3
  <2>10. CASE Attested(c)
    <3>1. users[p] \in User
      BY <2>3, <2>10 DEF Attested, At
    <3>2. QED BY <1>2, <1>4, <2>10, <3>1 DEF Attested, Live, User
  <2>11. QED BY <2>1, <2>2, <2>4, <2>5, <2>6, <2>7, <2>8, <2>9, <2>10 DEF Step
<1>5. QED BY <1>3, <1>4

-----------------------------------------------------------------------------
(* Who is about to spend a code, and who has spent it and is to drop it. *)

Spends(t, i) ==
  /\ t.does = "recover_confirm" /\ t.code = i
  /\ t.pc = "store" \/ (t.pc = "drop" /\ ~t.user.aged)

\* What a command that has just read its row spends is in that row, in time.
LEMMA RouteSpends ==
  ASSUME NEW t \in Work, NEW u \in User, NEW i \in Nat \ {0},
         Spends([t EXCEPT !.user = u, !.pc = Route(t, u)], i)
  PROVE  Route(t, u) = "store" /\ ~u.aged /\ u.code = i
<1> DEFINE s == [t EXCEPT !.user = u, !.pc = Route(t, u)]
<1>1. s.does = t.does /\ s.code = t.code /\ s.pc = Route(t, u) /\ s.user = u
  BY DEF Work
<1>2. t.does = "recover_confirm" /\ t.code = i
      /\ (Route(t, u) = "store" \/ (Route(t, u) = "drop" /\ ~u.aged))
  BY <1>1 DEF Spends
<1>3. Route(t, u) = IF u.code # 0 /\ u.aged THEN "drop"
                    ELSE IF u.code # 0 /\ u.code = t.code THEN "store" ELSE "idle"
  BY <1>2 DEF Route
<1>4. QED BY <1>2, <1>3

\* Whoever comes to spend a code has just read it in the row of his phone.
LEMMA ComesToSpend ==
  ASSUME TypeInv, NEW c \in Caller, Step(c), ~Store(c), ~DropCode(c),
         NEW i \in Nat \ {0}, Spends(h'[c], i)
  PROVE  h'[c].pc = "store" /\ ~h'[c].user.aged /\ Live(users, h[c].phone, i)
<1>1. h \in [Caller -> Work] /\ h[c] \in Work /\ h[c].does # "none" /\ h[c].phone \in Phone
  BY StepMoves DEF TypeInv
<1>2. ~Spends(Idle, i)
  BY DEF Spends, Idle
<1>3. ASSUME NEW pc \in Steps, pc \notin {"store", "drop"}, Go(c, pc)
      PROVE  FALSE
  <2>1. h'[c].pc = pc
    BY <1>1, <1>3 DEF Go, Work
  <2>2. QED BY <1>3, <2>1 DEF Spends
<1>4. ASSUME Leave(c)
      PROVE  FALSE
  BY <1>1, <1>2, <1>4 DEF Leave
<1>5. ASSUME NEW u, NEW pc \in Steps, pc \notin {"store", "drop"},
             h' = [h EXCEPT ![c].user = u, ![c].pc = pc]
      PROVE  FALSE
  <2>1. h'[c].pc = pc
    BY <1>1, <1>5 DEF Work
  <2>2. QED BY <1>5, <2>1 DEF Spends
<1>6. ASSUME NEW u \in User, Proceed(c, u)
      PROVE  h'[c].pc = "store" /\ ~h'[c].user.aged /\ u.code = i
  <2>1. h' = [h EXCEPT ![c].user = u, ![c].pc = Route(h[c], u)]
    BY <1>4, <1>6 DEF Proceed
  <2>2. h'[c] = [h[c] EXCEPT !.user = u, !.pc = Route(h[c], u)]
    BY <1>1, <2>1
  <2>3. Spends([h[c] EXCEPT !.user = u, !.pc = Route(h[c], u)], i)
    BY <2>2
  <2>4. Route(h[c], u) = "store" /\ ~u.aged /\ u.code = i
    BY <1>1, <2>3, RouteSpends
  <2>5. h'[c].pc = Route(h[c], u) /\ h'[c].user = u
    BY <1>1, <2>2 DEF Work
  <2>6. QED BY <2>4, <2>5
<1>7. users[h[c].phone] \in User \cup {NoUser}
  BY <1>1 DEF TypeInv, UsersOK
<1>8. CASE Meet(c)
  <2>1. \/ Go(c, "mint")
        \/ users[h[c].phone].known /\ Proceed(c, users[h[c].phone])
        \/ \E u : h' = [h EXCEPT ![c].user = u, ![c].pc = "upsert"]
    BY <1>8 DEF Meet
  <2>2. users[h[c].phone].known /\ Proceed(c, users[h[c].phone])
    BY <2>1, <1>3, <1>5 DEF Steps
  <2>3. users[h[c].phone] \in User
    BY <1>7, <2>2, KnownIsUser
  <2>4. QED BY <1>6, <2>2, <2>3 DEF Live
<1>9. CASE Upsert(c)
  <2>1. h[c].pc = "upsert" /\ h[c].user \in User
    BY <1>9, AtWork DEF Upsert, At
  <2>2. CASE users[h[c].phone].known
    <3>1. users[h[c].phone] \in User
      BY <1>7, <2>2, KnownIsUser
    <3>2. Proceed(c, Upserted(users[h[c].phone], h[c].user))
      BY <1>9, <2>2 DEF Upsert
    <3>3. Upserted(users[h[c].phone], h[c].user) \in User
      BY <2>1, <3>1, UpsertedTyped
    <3>4. Upserted(users[h[c].phone], h[c].user).code = users[h[c].phone].code
      BY <3>1 DEF Upserted, User
    <3>5. QED BY <1>6, <2>2, <3>2, <3>3, <3>4 DEF Live
  <2>3. CASE ~users[h[c].phone].known
    <3>1. Proceed(c, h[c].user)
      BY <1>9, <2>3 DEF Upsert
    <3>2. h[c].user.code = 0
      BY <2>1, <2>3 DEF TypeInv, WorkOK
    <3>3. QED BY <1>6, <2>1, <3>1, <3>2
  <2>4. QED BY <2>2, <2>3
<1>10. CASE Mint(c)
  <2>1. Leave(c) \/ \E u : h' = [h EXCEPT ![c].user = u, ![c].pc = "upsert"]
    BY <1>10 DEF Mint
  <2>2. QED BY <1>4, <1>5, <2>1 DEF Steps
<1>11. CASE CountFailure(c)
  <2>1. h'[c].pc = "mark"
    BY <1>1, <1>11 DEF CountFailure, Work
  <2>2. QED BY <2>1 DEF Spends
<1>12. CASE ReadBack(c) \/ Reread(c)
  <2>1. \E u : \E pc \in {"clear", "grade"} : h' = [h EXCEPT ![c].user = u, ![c].pc = pc]
    BY <1>12 DEF ReadBack, Reread
  <2>2. QED BY <1>5, <2>1 DEF Steps
<1>13. CASE Link(c)
  <2>1. CASE h' = [h EXCEPT ![c] = [Task("call", h[c].phone) EXCEPT !.pc = "meet"]]
    <3>1. h'[c].pc = "meet"
      BY <1>1, <2>1 DEF Task, Idle
    <3>2. QED BY <3>1 DEF Spends
  <2>2. QED BY <1>4, <1>13, <2>1 DEF Link
<1>14. CASE Forgive(c) \/ Recheck(c) \/ SetUserName(c) \/ Look(c) \/ Unlink(c)
            \/ MarkFailure(c) \/ Lookup(c)
  <2>1. Leave(c) \/ \E pc \in {"cool", "clear", "register", "link", "recheck", "attested", "refused"} :
                        Go(c, pc)
    BY <1>14 DEF Forgive, Recheck, SetUserName, Look, Unlink, MarkFailure, Lookup
  <2>2. QED BY <1>3, <1>4, <2>1 DEF Steps
<1>15. CASE Greet(c) \/ Clear(c) \/ Challenge(c) \/ CoolDown(c) \/ Park(c) \/ Register(c)
            \/ Grade(c) \/ Attested(c) \/ Refused(c)
  <2>1. Leave(c)
    BY <1>15 DEF Greet, Clear, Challenge, CoolDown, Park, Register, Grade, Attested, Refused
  <2>2. QED BY <1>4, <2>1
<1>16. QED BY <1>8, <1>9, <1>10, <1>11, <1>12, <1>13, <1>14, <1>15 DEF Step

-----------------------------------------------------------------------------
(* The count. *)

Storing(i)  == {c \in Caller : Spends(h[c], i) /\ h[c].pc = "store"}
Dropping(i) == {c \in Caller : Spends(h[c], i) /\ h[c].pc = "drop"}

\* Whom a code belongs to: whose row holds it, and who is to spend or drop it.
Owners(i) == {p \in Phone : Live(users, p, i)}
             \cup {h[c].phone : c \in {d \in Caller : Spends(h[d], i)}}

\* A code has one owner.
OneOwner(i) == \A p, q \in Owners(i) : p = q

\* While a code is in a row, it was used by commands that are to drop it, or
\* that were cut off before they could.
LiveUses(i) == (\E p \in Phone : Live(users, p, i)) => uses[i] <= Cardinality(Dropping(i)) + crashes

\* Uses, made and coming.
AllUses(i) == uses[i] + Cardinality(Storing(i)) <= Cardinality(Caller) + crashes

CodeOK(i) == OneOwner(i) /\ LiveUses(i) /\ AllUses(i) /\ (i > codes => uses[i] = 0)

CodeInv ==
  /\ \A i \in DOMAIN uses : CodeOK(i)
  /\ \A c \in Caller : h[c].pc = "store" /\ h[c].does = "recover_confirm" => ~h[c].user.aged

\* Storing and dropping commands are some of the callers, and not the same.
LEMMA Crowd ==
  ASSUME NEW i
  PROVE  /\ IsFiniteSet(Storing(i)) /\ IsFiniteSet(Dropping(i))
         /\ Cardinality(Storing(i)) \in Nat /\ Cardinality(Dropping(i)) \in Nat
         /\ Cardinality(Caller) \in Nat
         /\ Cardinality(Storing(i)) + Cardinality(Dropping(i)) <= Cardinality(Caller)
<1>1. Storing(i) \subseteq Caller /\ Dropping(i) \subseteq Caller
      /\ Storing(i) \cap Dropping(i) = {}
  BY DEF Storing, Dropping
<1>2. IsFiniteSet(Caller)
  BY AccountsAssumption
<1>3. /\ IsFiniteSet(Storing(i)) /\ IsFiniteSet(Dropping(i))
      /\ Cardinality(Storing(i)) \in Nat /\ Cardinality(Dropping(i)) \in Nat
      /\ Cardinality(Caller) \in Nat
  BY <1>1, <1>2, FS_Subset, FS_CardinalityType
<1>4. Storing(i) \cup Dropping(i) \subseteq Caller
  BY <1>1
<1>5. Cardinality(Storing(i) \cup Dropping(i)) <= Cardinality(Caller)
  BY <1>2, <1>4, FS_Subset
<1>6. Cardinality(Storing(i) \cup Dropping(i))
        = Cardinality(Storing(i)) + Cardinality(Dropping(i)) - Cardinality({})
  BY <1>1, <1>3, FS_Union
<1>7. QED BY <1>3, <1>5, <1>6, FS_EmptySet

\* A set with one more, with one less, and with others.
LEMMA OneMore ==
  ASSUME NEW S, IsFiniteSet(S), NEW T, NEW c
  PROVE  /\ T \subseteq S => Cardinality(T) \in Nat /\ Cardinality(T) <= Cardinality(S)
         /\ T \subseteq S \cup {c} => Cardinality(T) <= Cardinality(S) + 1
         /\ c \notin S /\ T = S \cup {c} => Cardinality(T) = Cardinality(S) + 1
         /\ c \in S /\ T = S \ {c} => Cardinality(T) = Cardinality(S) - 1
         /\ S \ {c} \subseteq T /\ IsFiniteSet(T) => Cardinality(S) <= Cardinality(T) + 1
<1>1. Cardinality(S) \in Nat
  BY FS_CardinalityType
<1>2. T \subseteq S => Cardinality(T) \in Nat /\ Cardinality(T) <= Cardinality(S)
  BY FS_Subset, FS_CardinalityType
<1>3. c \notin S /\ T = S \cup {c} => Cardinality(T) = Cardinality(S) + 1
  BY FS_AddElement
<1>4. c \in S /\ T = S \ {c} => Cardinality(T) = Cardinality(S) - 1
  BY FS_RemoveElement
<1>5. IsFiniteSet(S \cup {c}) /\ Cardinality(S \cup {c}) \in {Cardinality(S), Cardinality(S) + 1}
  <2>1. CASE c \in S
    <3>1. S \cup {c} = S
      BY <2>1
    <3>2. QED BY <3>1
  <2>2. CASE c \notin S
    BY <2>2, FS_AddElement
  <2>3. QED BY <2>1, <2>2
<1>6. T \subseteq S \cup {c} => Cardinality(T) <= Cardinality(S) + 1
  <2> HAVE T \subseteq S \cup {c}
  <2>1. Cardinality(T) <= Cardinality(S \cup {c}) /\ Cardinality(T) \in Nat
    BY <1>5, FS_Subset, FS_CardinalityType
  <2>2. QED BY <1>1, <1>5, <2>1
<1>7. S \ {c} \subseteq T /\ IsFiniteSet(T) => Cardinality(S) <= Cardinality(T) + 1
  <2> HAVE S \ {c} \subseteq T /\ IsFiniteSet(T)
  <2>1. Cardinality(S \ {c}) <= Cardinality(T) /\ Cardinality(T) \in Nat
    BY FS_Subset, FS_CardinalityType
  <2>2. Cardinality(S \ {c}) \in {Cardinality(S), Cardinality(S) - 1}
    <3>1. CASE c \in S
      BY <3>1, FS_RemoveElement
    <3>2. CASE c \notin S
      <4>1. S \ {c} = S
        BY <3>2
      <4>2. QED BY <4>1
    <3>3. QED BY <3>1, <3>2
  <2>3. QED BY <1>1, <2>1, <2>2
<1>8. QED BY <1>2, <1>3, <1>4, <1>6, <1>7

\* Codes have numbers the table of uses has a place for.
LEMMA Numbered ==
  ASSUME TypeInv, CountInv
  PROVE  /\ menu.commands \in Nat /\ DOMAIN uses = 1 .. menu.commands
         /\ codes \in Nat /\ codes <= menu.commands /\ crashes \in Nat
         /\ \A i \in DOMAIN uses : uses[i] \in Nat /\ i \in Nat \ {0}
         /\ \A c \in Caller : h[c].pc \in {"store", "drop"} /\ h[c].does = "recover_confirm"
              => h[c].code \in 1 .. codes /\ h[c].code \in DOMAIN uses
<1>1. menu.commands \in Nat /\ begun \in 0 .. menu.commands /\ codes \in Nat /\ MaxCrash \in Nat
      /\ uses \in [1 .. menu.commands -> Nat] /\ crashes \in 0 .. MaxCrash
  BY MenusAssumption, AccountsAssumption DEF TypeInv, RestOK
<1>2. codes <= begun
  BY <1>1, WorkingCount DEF CountInv
<1>3. \A c \in Caller : h[c].pc \in {"store", "drop"} /\ h[c].does = "recover_confirm"
        => h[c].code \in 1 .. codes
  BY AtWork
<1>4. QED BY <1>1, <1>2, <1>3

\* Nothing that counts has changed.
LEMMA KeptCode ==
  ASSUME NEW i, CodeOK(i), Owners(i)' \subseteq Owners(i),
         \A p \in Phone : Live(users, p, i)' => Live(users, p, i),
         Storing(i)' = Storing(i), Dropping(i)' = Dropping(i),
         uses'[i] = uses[i], crashes' = crashes, codes' = codes \/ codes' = codes + 1,
         codes \in Nat, i \in Nat
  PROVE  CodeOK(i)'
<1>1. OneOwner(i)'
  BY DEF CodeOK, OneOwner
<1>2. LiveUses(i)'
  BY DEF CodeOK, LiveUses
<1>3. AllUses(i)'
  BY DEF CodeOK, AllUses
<1>4. i > codes' => uses'[i] = 0
  BY DEF CodeOK
<1>5. QED BY <1>1, <1>2, <1>3, <1>4 DEF CodeOK

\* A step that neither stores a PIN nor touches a code.
LEMMA OtherKeeps ==
  ASSUME TypeInv, CountInv, CodeInv, NEW c \in Caller, Step(c),
         ~Store(c), ~DropCode(c), ~Challenge(c), NEW i \in DOMAIN uses
  PROVE  CodeOK(i)'
<1>1. /\ h[c].phone \in Phone /\ \A d \in Caller \ {c} : h'[d] = h[d]
      /\ h'[c] = Idle \/ h'[c].phone = h[c].phone
  BY StepMoves DEF Moves
<1>2. h[c].pc \notin {"store", "drop"} /\ uses' = uses /\ crashes' = crashes /\ codes' = codes
  BY DEF Step, Meet, Mint, Upsert, Greet, SetUserName, ReadBack, Clear, Forgive,
         CountFailure, MarkFailure, Recheck, CoolDown, Park, Look, Register,
         Unlink, Link, Reread, Grade, Lookup, Attested, Refused, ghosts, counts, At
<1>3. i \in Nat \ {0} /\ uses[i] \in Nat /\ crashes \in Nat /\ codes \in Nat /\ CodeOK(i)
  BY Numbered DEF CodeInv
<1>4. \A p \in Phone : Live(users', p, i) <=> Live(users, p, i)
  BY <1>3, CodesSame
<1>5. ~Spends(h[c], i)
  BY <1>2 DEF Spends
<1>6. CASE ~Spends(h'[c], i)
  <2>1. Storing(i)' = Storing(i) /\ Dropping(i)' = Dropping(i)
    BY <1>1, <1>5, <1>6 DEF Storing, Dropping
  <2>2. Owners(i)' \subseteq Owners(i)
    BY <1>1, <1>4, <1>6 DEF Owners
  <2>3. \A p \in Phone : Live(users, p, i)' => Live(users, p, i)
    BY <1>4 DEF Live
  <2>4. QED BY <1>2, <1>3, <2>1, <2>2, <2>3, KeptCode
<1>7. CASE Spends(h'[c], i)
  <2>1. h'[c].pc = "store" /\ Live(users, h[c].phone, i)
    BY <1>3, <1>7, ComesToSpend
  <2>2. Storing(i)' = Storing(i) \cup {c} /\ Dropping(i)' = Dropping(i) /\ c \notin Storing(i)
    BY <1>1, <1>5, <1>7, <2>1 DEF Storing, Dropping
  <2>3. h'[c].phone = h[c].phone
    BY <1>1, <1>7 DEF Spends, Idle
  <2>4. Owners(i)' \subseteq Owners(i)
    BY <1>1, <1>4, <2>1, <2>3 DEF Owners
  <2>5. uses[i] <= Cardinality(Dropping(i)) + crashes
    BY <1>1, <1>3, <2>1 DEF CodeOK, LiveUses
  <2>6. Cardinality(Storing(i)') = Cardinality(Storing(i)) + 1
    BY <2>2, Crowd, OneMore
  <2>7. Cardinality(Storing(i)') + Cardinality(Dropping(i)) <= Cardinality(Caller)
        /\ Cardinality(Dropping(i)) \in Nat /\ Cardinality(Storing(i)) \in Nat
        /\ Cardinality(Caller) \in Nat
    <3>1. Storing(i)' \cap Dropping(i) = {} /\ Storing(i)' \subseteq Caller
          /\ Dropping(i) \subseteq Caller
      BY <1>5, <2>2 DEF Storing, Dropping
    <3>2. IsFiniteSet(Caller)
      BY AccountsAssumption
    <3>3. IsFiniteSet(Storing(i)') /\ IsFiniteSet(Dropping(i))
      BY <3>1, <3>2, FS_Subset
    <3>4. Cardinality(Storing(i)' \cup Dropping(i))
            = Cardinality(Storing(i)') + Cardinality(Dropping(i)) - Cardinality({})
      BY <3>1, <3>3, FS_Union
    <3>5. Cardinality(Storing(i)' \cup Dropping(i)) <= Cardinality(Caller)
      BY <3>1, <3>2, FS_Subset
    <3>6. QED BY <2>6, <3>4, <3>5, FS_EmptySet, Crowd
  <2>8. OneOwner(i)'
    BY <1>3, <2>4 DEF CodeOK, OneOwner
  <2>9. LiveUses(i)'
    BY <1>2, <2>2, <2>5 DEF LiveUses
  <2>10. AllUses(i)'
    BY <1>2, <1>3, <2>5, <2>6, <2>7 DEF AllUses
  <2>11. i > codes' => uses'[i] = 0
    BY <1>2, <1>3 DEF CodeOK
  <2>12. QED BY <2>8, <2>9, <2>10, <2>11 DEF CodeOK
<1>8. QED BY <1>6, <1>7

\* A new code has not been used, and the one it replaces is gone.
LEMMA ChallengeKeeps ==
  ASSUME TypeInv, CountInv, CodeInv, NEW c \in Caller, Challenge(c), NEW i \in DOMAIN uses
  PROVE  CodeOK(i)'
<1>1. h[c].pc = "challenge" /\ codes' = codes + 1 /\ uses' = uses /\ crashes' = crashes
      /\ users' = [users EXCEPT ![h[c].phone].code = codes', ![h[c].phone].aged = FALSE]
      /\ h' = [h EXCEPT ![c] = Idle]
  BY DEF Challenge, At, Leave, ghosts, counts
<1>2. h \in [Caller -> Work] /\ users \in [Phone -> User \cup {NoUser}]
      /\ h[c].phone \in Phone /\ users[h[c].phone] \in User
  BY <1>1, AtWork DEF TypeInv, UsersOK
<1>3. i \in Nat \ {0} /\ uses[i] \in Nat /\ crashes \in Nat /\ codes \in Nat /\ CodeOK(i)
  BY Numbered DEF CodeInv
<1>4. h'[c] = Idle /\ ~Spends(h'[c], i) /\ ~Spends(h[c], i) /\ \A d \in Caller \ {c} : h'[d] = h[d]
  BY <1>1, <1>2 DEF Spends, Idle
<1>5. Storing(i)' = Storing(i) /\ Dropping(i)' = Dropping(i)
  BY <1>4 DEF Storing, Dropping
<1>6. /\ \A p \in Phone \ {h[c].phone} : users'[p] = users[p]
      /\ users'[h[c].phone].code = codes + 1
  BY <1>1, <1>2 DEF User
<1>7. CASE i # codes + 1
  <2>1. \A p \in Phone : Live(users, p, i)' => Live(users, p, i)
    BY <1>6, <1>7 DEF Live
  <2>2. Owners(i)' \subseteq Owners(i)
    BY <1>4, <2>1 DEF Owners
  <2>3. QED BY <1>1, <1>3, <1>5, <2>1, <2>2, KeptCode
<1>8. CASE i = codes + 1
  <2>1. \A d \in Caller : ~Spends(h[d], i)
    BY <1>3, <1>8, Numbered DEF Spends
  <2>2. \A d \in Caller : ~Spends(h'[d], i)
    BY <1>4, <2>1
  <2>3. \A p \in Phone \ {h[c].phone} : ~Live(users, p, i)'
    <3>1. \A p \in Phone : users[p].known => users[p].code \in 0 .. codes
      BY DEF TypeInv, UsersOK
    <3>2. QED BY <1>3, <1>6, <1>8, <3>1 DEF Live
  <2>4. Owners(i)' \subseteq {h[c].phone}
    BY <2>2, <2>3 DEF Owners
  <2>5. uses'[i] = 0
    BY <1>1, <1>3, <1>8 DEF CodeOK
  <2>6. Cardinality(Storing(i)) <= Cardinality(Caller) /\ Cardinality(Storing(i)) \in Nat
        /\ Cardinality(Dropping(i)) \in Nat /\ Cardinality(Caller) \in Nat
    BY Crowd
  <2>7. OneOwner(i)' /\ LiveUses(i)' /\ AllUses(i)'
    BY <1>1, <1>3, <1>5, <2>4, <2>5, <2>6 DEF OneOwner, LiveUses, AllUses
  <2>8. QED BY <2>5, <2>7 DEF CodeOK
<1>9. QED BY <1>7, <1>8

\* Whoever drops a code he used drops it from the one row it can be in.
LEMMA DropKeeps ==
  ASSUME TypeInv, CountInv, CodeInv, NEW c \in Caller, DropCode(c), NEW i \in DOMAIN uses
  PROVE  CodeOK(i)'
<1>1. h[c].pc = "drop" /\ codes' = codes /\ uses' = uses /\ crashes' = crashes
      /\ users' = [users EXCEPT ![h[c].phone].code = 0, ![h[c].phone].aged = FALSE]
      /\ (Leave(c) \/ Go(c, "forgive"))
  BY DEF DropCode, At, ghosts, counts
<1>2. h \in [Caller -> Work] /\ users \in [Phone -> User \cup {NoUser}]
      /\ h[c].phone \in Phone /\ users[h[c].phone] \in User
  BY <1>1, AtWork DEF TypeInv, UsersOK
<1>3. i \in Nat \ {0} /\ uses[i] \in Nat /\ crashes \in Nat /\ codes \in Nat /\ CodeOK(i)
  BY Numbered DEF CodeInv
<1>4. ~Spends(h'[c], i) /\ \A d \in Caller \ {c} : h'[d] = h[d]
  <2>1. CASE Leave(c)
    BY <1>2, <2>1 DEF Leave, Spends, Idle
  <2>2. CASE Go(c, "forgive")
    <3>1. h'[c].pc = "forgive"
      BY <1>2, <2>2 DEF Go, Work
    <3>2. QED BY <1>2, <2>2, <3>1 DEF Go, Spends
  <2>3. QED BY <1>1, <2>1, <2>2
<1>5. /\ \A p \in Phone \ {h[c].phone} : users'[p] = users[p]
      /\ users'[h[c].phone].code = 0
  BY <1>1, <1>2 DEF User
<1>6. \A p \in Phone : Live(users, p, i)' => Live(users, p, i) /\ p # h[c].phone
  BY <1>3, <1>5 DEF Live
<1>7. Storing(i)' = Storing(i)
  BY <1>1, <1>4 DEF Storing
<1>8. Owners(i)' \subseteq Owners(i)
  BY <1>4, <1>6 DEF Owners
<1>9. CASE ~Spends(h[c], i)
  <2>1. Dropping(i)' = Dropping(i)
    BY <1>4, <1>9 DEF Dropping
  <2>2. QED BY <1>1, <1>3, <1>6, <1>7, <1>8, <2>1, KeptCode
<1>10. CASE Spends(h[c], i)
  <2>1. \A p \in Phone : Live(users, p, i) => p = h[c].phone
    BY <1>2, <1>3, <1>10 DEF CodeOK, OneOwner, Owners
  <2>2. ~\E p \in Phone : Live(users, p, i)'
    BY <1>6, <2>1
  <2>3. OneOwner(i)'
    BY <1>3, <1>8 DEF CodeOK, OneOwner
  <2>4. LiveUses(i)'
    BY <2>2 DEF LiveUses
  <2>5. AllUses(i)'
    BY <1>1, <1>3, <1>7 DEF CodeOK, AllUses
  <2>6. QED BY <1>1, <1>3, <2>3, <2>4, <2>5 DEF CodeOK
<1>11. QED BY <1>9, <1>10

\* A PIN that is stored with a code is one more use of it, and a drop to come.
LEMMA StoreKeeps ==
  ASSUME TypeInv, CountInv, CodeInv, NEW c \in Caller, Store(c), NEW i \in DOMAIN uses
  PROVE  CodeOK(i)'
<1>1. h[c].pc = "store" /\ codes' = codes /\ crashes' = crashes /\ Step(c)
      /\ uses' = (IF h[c].does = "recover_confirm" THEN [uses EXCEPT ![h[c].code] = @ + 1] ELSE uses)
      /\ Go(c, CASE h[c].does = "set_pin"    -> "readback"
                 [] h[c].does = "change_pin" -> "forgive"
                 [] OTHER                    -> "drop")
  BY DEF Store, At, Step
<1>2. h \in [Caller -> Work] /\ h[c].phone \in Phone
      /\ h[c].does \in {"set_pin", "change_pin", "recover_confirm"}
  BY <1>1, AtWork, PlanSays DEF TypeInv
<1>3. i \in Nat \ {0} /\ uses[i] \in Nat /\ crashes \in Nat /\ codes \in Nat /\ CodeOK(i)
  BY Numbered DEF CodeInv
<1>4. \A p \in Phone : Live(users, p, i)' <=> Live(users, p, i)
  <2>1. ~Challenge(c) /\ ~DropCode(c)
    BY <1>1 DEF Challenge, DropCode, At
  <2>2. \A p \in Phone : Live(users', p, i) <=> Live(users, p, i)
    BY <1>1, <1>3, <2>1, CodesSame
  <2>3. QED BY <2>2 DEF Live
<1>5. \A d \in Caller \ {c} : h'[d] = h[d]
  BY <1>1, <1>2 DEF Go
<1>6. CASE h[c].does # "recover_confirm"
  <2>1. h'[c].does = h[c].does /\ uses' = uses
    BY <1>1, <1>2, <1>6 DEF Go, Work
  <2>2. ~Spends(h[c], i) /\ ~Spends(h'[c], i)
    BY <1>6, <2>1 DEF Spends
  <2>3. Storing(i)' = Storing(i) /\ Dropping(i)' = Dropping(i)
    BY <1>5, <2>2 DEF Storing, Dropping
  <2>4. Owners(i)' \subseteq Owners(i)
    BY <1>4, <1>5, <2>2 DEF Owners
  <2>5. QED BY <1>1, <1>3, <1>4, <2>1, <2>3, <2>4, KeptCode
<1>7. CASE h[c].does = "recover_confirm"
  <2>1. Go(c, "drop")
    BY <1>1, <1>7
  <2>2. /\ h'[c].does = h[c].does /\ h'[c].pc = "drop" /\ h'[c].code = h[c].code
        /\ h'[c].user = h[c].user /\ h'[c].phone = h[c].phone
    BY <1>2, <2>1 DEF Go, Work
  <2>3. h[c].code \in DOMAIN uses /\ uses' = [uses EXCEPT ![h[c].code] = uses[h[c].code] + 1]
    BY <1>1, <1>7, Numbered
  <2>4. ~h[c].user.aged
    BY <1>1, <1>7 DEF CodeInv
  <2>5. Spends(h'[c], i) <=> Spends(h[c], i)
    BY <1>1, <1>7, <2>2, <2>4 DEF Spends
  <2>6. Owners(i)' \subseteq Owners(i)
    BY <1>4, <1>5, <2>2, <2>5 DEF Owners
  <2>7. CASE h[c].code # i
    <3>1. ~Spends(h[c], i)
      BY <2>7 DEF Spends
    <3>2. Storing(i)' = Storing(i) /\ Dropping(i)' = Dropping(i)
      BY <1>5, <2>5, <3>1 DEF Storing, Dropping
    <3>3. uses'[i] = uses[i]
      BY <2>3, <2>7
    <3>4. QED BY <1>1, <1>3, <1>4, <2>6, <3>2, <3>3, KeptCode
  <2>8. CASE h[c].code = i
    <3>1. Spends(h[c], i)
      BY <1>1, <1>7, <2>8 DEF Spends
    <3>2. /\ c \in Storing(i) /\ Storing(i)' = Storing(i) \ {c}
          /\ c \notin Dropping(i) /\ Dropping(i)' = Dropping(i) \cup {c}
      BY <1>1, <1>5, <2>2, <2>5, <3>1 DEF Storing, Dropping
    <3>3. Cardinality(Storing(i)') = Cardinality(Storing(i)) - 1
          /\ Cardinality(Dropping(i)') = Cardinality(Dropping(i)) + 1
      BY <3>2, Crowd, OneMore
    <3>4. uses'[i] = uses[i] + 1
      BY <2>3, <2>8
    <3>5. Cardinality(Storing(i)) \in Nat /\ Cardinality(Dropping(i)) \in Nat
          /\ Cardinality(Caller) \in Nat
      BY Crowd
    <3>6. OneOwner(i)'
      BY <1>3, <2>6 DEF CodeOK, OneOwner
    <3>7. LiveUses(i)'
      <4> SUFFICES ASSUME \E p \in Phone : Live(users, p, i)'
                   PROVE  uses'[i] <= Cardinality(Dropping(i)') + crashes'
        BY DEF LiveUses
      <4>1. uses[i] <= Cardinality(Dropping(i)) + crashes
        BY <1>3, <1>4 DEF CodeOK, LiveUses
      <4>2. QED BY <1>1, <1>3, <3>3, <3>4, <3>5, <4>1
    <3>8. AllUses(i)'
      BY <1>1, <1>3, <3>3, <3>4, <3>5 DEF CodeOK, AllUses
    <3>9. ~(i > codes')
      BY <1>1, <1>3, <1>7, <2>8, Numbered
    <3>10. QED BY <3>6, <3>7, <3>8, <3>9 DEF CodeOK
  <2>9. QED BY <2>7, <2>8
<1>8. QED BY <1>2, <1>6, <1>7

\* A crash is one use more that may be followed by another.
LEMMA CrashKeeps ==
  ASSUME TypeInv, CountInv, CodeInv, NEW c \in Caller, Crash(c), NEW i \in DOMAIN uses
  PROVE  CodeOK(i)'
<1>1. h' = [h EXCEPT ![c] = Idle] /\ uses' = uses /\ crashes' = crashes + 1 /\ users' = users
      /\ codes' = codes
  BY DEF Crash, Leave, tables, ghosts, counts
<1>2. h \in [Caller -> Work]
  BY DEF TypeInv
<1>3. i \in Nat \ {0} /\ uses[i] \in Nat /\ crashes \in Nat /\ codes \in Nat /\ CodeOK(i)
  BY Numbered DEF CodeInv
<1>4. ~Spends(h'[c], i) /\ \A d \in Caller \ {c} : h'[d] = h[d]
  BY <1>1, <1>2 DEF Spends, Idle
<1>5. Storing(i)' \subseteq Storing(i) /\ Dropping(i) \ {c} \subseteq Dropping(i)'
      /\ Dropping(i)' \subseteq Dropping(i)
  BY <1>4 DEF Storing, Dropping
<1>6. IsFiniteSet(Storing(i)) /\ IsFiniteSet(Dropping(i)) /\ Cardinality(Dropping(i)) \in Nat
      /\ Cardinality(Storing(i)) \in Nat /\ Cardinality(Caller) \in Nat
  BY Crowd
<1>7. IsFiniteSet(Dropping(i)') /\ Cardinality(Dropping(i)') \in Nat
  BY <1>5, <1>6, FS_Subset, FS_CardinalityType
<1>8. Cardinality(Storing(i)') \in Nat /\ Cardinality(Storing(i)') <= Cardinality(Storing(i))
  BY <1>5, <1>6, OneMore
<1>9. Cardinality(Dropping(i)) <= Cardinality(Dropping(i)') + 1
  BY <1>5, <1>6, <1>7, OneMore
<1>10. Owners(i)' \subseteq Owners(i)
  BY <1>1, <1>4 DEF Owners, Live
<1>11. OneOwner(i)'
  BY <1>3, <1>10 DEF CodeOK, OneOwner
<1>12. LiveUses(i)'
  <2> SUFFICES ASSUME \E p \in Phone : Live(users, p, i)'
               PROVE  uses'[i] <= Cardinality(Dropping(i)') + crashes'
    BY DEF LiveUses
  <2>1. uses[i] <= Cardinality(Dropping(i)) + crashes
    BY <1>1, <1>3 DEF CodeOK, LiveUses, Live
  <2>2. QED BY <1>1, <1>3, <1>6, <1>7, <1>9, <2>1
<1>13. AllUses(i)'
  BY <1>1, <1>3, <1>6, <1>8 DEF CodeOK, AllUses
<1>14. i > codes' => uses'[i] = 0
  BY <1>1, <1>3 DEF CodeOK
<1>15. QED BY <1>11, <1>12, <1>13, <1>14 DEF CodeOK

\* Whoever has not begun to spend, and rows that keep their codes.
LEMMA BesideKeeps ==
  ASSUME TypeInv, CountInv, CodeInv, NEW i \in DOMAIN uses,
         \A c \in Caller : h'[c] = h[c] \/ (h[c].pc = "idle" /\ h'[c].pc = "meet"),
         \A p \in Phone : Live(users, p, i)' => Live(users, p, i),
         UNCHANGED <<uses, crashes, codes>>
  PROVE  CodeOK(i)'
<1>1. \A c \in Caller : h'[c] = h[c] \/ (~Spends(h'[c], i) /\ ~Spends(h[c], i))
  BY DEF Spends
<1>2. Storing(i)' = Storing(i) /\ Dropping(i)' = Dropping(i)
  BY <1>1 DEF Storing, Dropping
<1>3. Owners(i)' \subseteq Owners(i)
  BY <1>1 DEF Owners
<1>4. i \in Nat /\ codes \in Nat /\ CodeOK(i)
  BY Numbered DEF CodeInv
<1>5. QED BY <1>2, <1>3, <1>4, KeptCode

\* A code that is to be used was in time when it was read.
LEMMA StoresInTime ==
  ASSUME TypeInv, CodeInv, TypeInv', [Next]_vars, NEW d \in Caller,
         h'[d].pc = "store", h'[d].does = "recover_confirm"
  PROVE  ~h'[d].user.aged
<1>1. h'[d].code \in Nat \ {0}
  <2>1. TaskOK(h'[d], codes') /\ codes' \in Nat
    BY DEF TypeInv, WorkOK, RestOK
  <2>2. QED BY <2>1 DEF TaskOK
<1>2. CASE h'[d] = h[d]
  BY <1>2 DEF CodeInv
<1>3. ASSUME Step(d)
      PROVE  ~h'[d].user.aged
  <2>1. Spends(h'[d], h'[d].code)
    BY DEF Spends
  <2>2. h \in [Caller -> Work]
    BY DEF TypeInv
  <2>3. CASE Store(d) \/ DropCode(d)
    <3>1. Leave(d) \/ \E pc \in {"readback", "forgive", "drop"} : Go(d, pc)
      BY <2>3 DEF Store, DropCode
    <3>2. h'[d].pc # "store"
      BY <2>2, <3>1 DEF Leave, Go, Idle, Work
    <3>3. QED BY <3>2
  <2>4. CASE ~Store(d) /\ ~DropCode(d)
    BY <1>1, <1>3, <2>1, <2>4, ComesToSpend
  <2>5. QED BY <2>3, <2>4
<1>4. ASSUME NEW c \in Caller, Step(c)
      PROVE  ~h'[d].user.aged
  <2>1. CASE c = d
    BY <1>3, <1>4, <2>1
  <2>2. CASE c # d
    <3>1. h'[d] = h[d]
      BY <1>4, <2>2, StepMoves DEF Moves
    <3>2. QED BY <1>2, <3>1
  <2>3. QED BY <2>1, <2>2
<1>5. ASSUME NEW c \in Caller, Command(c)
      PROVE  ~h'[d].user.aged
  <2>1. PICK task \in Work : Start(c, task)
    BY <1>5, CommandStarts
  <2>2. h \in [Caller -> Work] /\ h' = [h EXCEPT ![c] = [task EXCEPT !.pc = "meet"]]
    BY <2>1 DEF Start, TypeInv
  <2>3. c # d
    <3>1. h'[c].pc = "meet"
      BY <2>1, <2>2 DEF Work
    <3>2. QED BY <3>1
  <2>4. h'[d] = h[d]
    BY <2>2, <2>3
  <2>5. QED BY <1>2, <2>4
<1>6. ASSUME NEW c \in Caller, Crash(c)
      PROVE  ~h'[d].user.aged
  <2>1. h \in [Caller -> Work] /\ h' = [h EXCEPT ![c] = Idle]
    BY <1>6 DEF Crash, Leave, TypeInv
  <2>2. c # d
    BY <2>1 DEF Idle
  <2>3. h'[d] = h[d]
    BY <2>1, <2>2
  <2>4. QED BY <1>2, <2>3
<1>7. CASE UNCHANGED h
  BY <1>2, <1>7
<1>8. ASSUME NEW p \in Phone, LockPasses(p) \/ CodeAges(p)
      PROVE  ~h'[d].user.aged
  BY <1>7, <1>8 DEF LockPasses, CodeAges
<1>9. CASE UNCHANGED vars
  BY <1>7, <1>9 DEF vars
<1>10. QED BY <1>4, <1>5, <1>6, <1>8, <1>9 DEF Next

\* Every step keeps the count.
LEMMA CodeNext == TypeInv /\ CountInv /\ CodeInv /\ [Next]_vars /\ TypeInv' => CodeInv'
<1> SUFFICES ASSUME TypeInv, CountInv, CodeInv, [Next]_vars, TypeInv'
             PROVE  CodeInv'
  OBVIOUS
<1>1. DOMAIN uses' = DOMAIN uses
  <2>1. menu' = menu
    <3>1. ASSUME NEW c \in Caller, Step(c)
          PROVE  menu' = menu
      BY <3>1 DEF Step, Meet, Mint, Upsert, Greet, SetUserName, ReadBack, Clear, Store, Forgive,
         CountFailure, MarkFailure, Recheck, Challenge, DropCode, CoolDown, Park, Look, Register,
         Unlink, Link, Reread, Grade, Lookup, Attested, Refused
    <3>2. ASSUME NEW c \in Caller, Command(c)
          PROVE  menu' = menu
      BY <3>2, CommandStarts DEF Start
    <3>3. ASSUME NEW c \in Caller, Crash(c)
          PROVE  menu' = menu
      BY <3>3 DEF Crash
    <3>4. ASSUME NEW p \in Phone, LockPasses(p) \/ CodeAges(p)
          PROVE  menu' = menu
      BY <3>4 DEF LockPasses, CodeAges
    <3>5. CASE UNCHANGED vars
      BY <3>5 DEF vars
    <3>6. QED BY <3>1, <3>2, <3>3, <3>4, <3>5 DEF Next
  <2>2. DOMAIN uses = 1 .. menu.commands /\ DOMAIN uses' = 1 .. menu'.commands
    BY DEF TypeInv, RestOK
  <2>3. QED BY <2>1, <2>2
<1>2. ASSUME NEW i \in DOMAIN uses
      PROVE  CodeOK(i)'
  <2>1. ASSUME NEW c \in Caller, Step(c)
        PROVE  CodeOK(i)'
    BY <2>1, OtherKeeps, ChallengeKeeps, DropKeeps, StoreKeeps
  <2>2. ASSUME NEW c \in Caller, Command(c)
        PROVE  CodeOK(i)'
    <3>1. PICK task \in Work : Start(c, task)
      BY <2>2, CommandStarts
    <3>2. h \in [Caller -> Work] /\ h' = [h EXCEPT ![c] = [task EXCEPT !.pc = "meet"]]
          /\ h[c].pc = "idle" /\ users' = users /\ UNCHANGED <<uses, crashes, codes>>
      BY <3>1 DEF Start, TypeInv, tables, ghosts, counts
    <3>3. \A d \in Caller : h'[d] = h[d] \/ (h[d].pc = "idle" /\ h'[d].pc = "meet")
      BY <3>1, <3>2 DEF Work
    <3>4. \A p \in Phone : Live(users, p, i)' => Live(users, p, i)
      BY <3>2 DEF Live
    <3>5. QED BY <3>2, <3>3, <3>4, BesideKeeps
  <2>3. ASSUME NEW p \in Phone, LockPasses(p) \/ CodeAges(p)
        PROVE  CodeOK(i)'
    <3>1. UNCHANGED <<h, uses, crashes, codes>> /\ users[p].known
          /\ users \in [Phone -> User \cup {NoUser}]
      BY <2>3 DEF LockPasses, CodeAges, ghosts, counts, TypeInv, UsersOK
    <3>2. users[p] \in User
      BY <3>1, KnownIsUser
    <3>3. users'[p].known /\ users'[p].code = users[p].code
      <4>1. CASE LockPasses(p)
        BY <3>1, <3>2, <4>1 DEF LockPasses, User
      <4>2. CASE CodeAges(p)
        BY <3>1, <3>2, <4>2 DEF CodeAges, User
      <4>3. QED BY <2>3, <4>1, <4>2
    <3>4. \A q \in Phone \ {p} : users'[q] = users[q]
      BY <2>3, <3>1 DEF LockPasses, CodeAges
    <3>5. \A q \in Phone : Live(users, q, i)' => Live(users, q, i)
      BY <3>1, <3>3, <3>4 DEF Live
    <3>6. QED BY <3>1, <3>5, BesideKeeps
  <2>4. CASE UNCHANGED vars
    <3>1. UNCHANGED <<h, users, uses, crashes, codes>>
      BY <2>4 DEF vars, tables, ghosts, counts
    <3>2. \A p \in Phone : Live(users, p, i)' => Live(users, p, i)
      BY <3>1 DEF Live
    <3>3. QED BY <3>1, <3>2, BesideKeeps
  <2>5. QED BY <2>1, <2>2, <2>3, <2>4, CrashKeeps DEF Next
<1>3. \A i \in DOMAIN uses' : CodeOK(i)'
  BY <1>1, <1>2
<1>4. \A c \in Caller : h'[c].pc = "store" /\ h'[c].does = "recover_confirm" => ~h'[c].user.aged
  BY StoresInTime
<1>5. QED BY <1>3, <1>4 DEF CodeInv

\* No code has been handed out.
LEMMA CodeInit == Init => CodeInv
<1> SUFFICES ASSUME Init PROVE CodeInv
  OBVIOUS
<1>1. TypeInv
  BY TypeInit
<1>2. codes = 0 /\ crashes = 0 /\ \A c \in Caller : h[c] = Idle
  BY DEF Init
<1>3. ASSUME NEW i \in DOMAIN uses
      PROVE  CodeOK(i)
  <2>1. i \in Nat \ {0} /\ uses[i] = 0
    BY <1>1, CountInit, Numbered DEF Init
  <2>2. \A p \in Phone : ~Live(users, p, i)
    <3>1. \A p \in Phone : users[p].known => users[p].code \in 0 .. codes
      BY <1>1 DEF TypeInv, UsersOK
    <3>2. QED BY <1>2, <2>1, <3>1 DEF Live
  <2>3. \A c \in Caller : ~Spends(h[c], i)
    BY <1>2 DEF Spends, Idle
  <2>4. Owners(i) = {}
    BY <2>2, <2>3 DEF Owners
  <2>5. Cardinality(Storing(i)) <= Cardinality(Caller) /\ Cardinality(Storing(i)) \in Nat
        /\ Cardinality(Dropping(i)) \in Nat /\ Cardinality(Caller) \in Nat
    BY Crowd
  <2>6. QED BY <1>2, <2>1, <2>4, <2>5 DEF CodeOK, OneOwner, LiveUses, AllUses
<1>4. QED BY <1>2, <1>3 DEF CodeInv, Idle

\* A recovery code resets the PIN once, or once per command that read it before
\* it was dropped, or once more after a crash between the two (pipeline.ts:431-437).
THEOREM CodesAreSpentOnce == Spec => []CodeSpentOnce
<1>1. ASSUME TypeInv, CountInv, CodeInv
      PROVE  CodeSpentOnce
  <2> SUFFICES ASSUME NEW i \in DOMAIN uses
               PROVE  uses[i] <= Cardinality(Caller) + crashes
    BY DEF CodeSpentOnce
  <2>1. AllUses(i)
    BY <1>1 DEF CodeInv, CodeOK
  <2>2. uses[i] \in Nat /\ crashes \in Nat
    BY <1>1, Numbered
  <2>3. QED BY <2>1, <2>2, Crowd DEF AllUses
<1>2. QED BY <1>1, TypeInit, TypeNext, CountInit, CountNext, CodeInit, CodeNext, PTL DEF Spec
=============================================================================
