---------------------------- MODULE IngressProofs ----------------------------
(***************************************************************************)
(* Ingress, for any mails, workers and accounts: a call or an agent's      *)
(* delivery confirms what it asked for unless it met another in the        *)
(* session; airtime that was delivered is paid for; an intention is paid   *)
(* for at most once for each post of its mail; the rate limit holds in     *)
(* every window; and the types.                                            *)
(***************************************************************************)
EXTENDS Ingress, SumProofs, SequenceTheorems

Label == {"idle", "greet", "next", "answer", "send", "topup", "memo", "note", "confirm",
          "cancel", "claim", "transfer", "charge", "detect", "provide", "refund", "clear"}

Req   == [op : {"none", "send", "topup"}, id : Id \cup {None}, key : Nat]
Work  == [pc : Label, mail : Mails \cup {None}, at : Nat \ {0}, req : Req, pins : Nat]

\* A worker is idle, or at a step of a mail; what it says next is a command of it.
WorkOK(x) ==
  \/ x = Idle
  \/ /\ x \in Work /\ x.mail # None /\ x.pc # "idle"
     /\ x.pc \in {"send", "topup", "confirm", "cancel"} => x.at \in Nat
     /\ x.pc \in {"send", "topup"} =>
            x.at \in DOMAIN x.mail.cmds /\ x.mail.cmds[x.at].op = x.pc

WorkInv ==
  /\ menu \in Menus /\ parked \in Nat
  /\ sess \in [Account -> Req]
  /\ DOMAIN w = Worker /\ w = [c \in Worker |-> w[c]]
  /\ \A c \in Worker : WorkOK(w[c])

\* Who works in a session beside another has met him.
MeetInv ==
  \A c, d \in Worker :
    c # d /\ w[c].mail # None /\ w[d].mail # None /\ w[c].mail.account = w[d].mail.account
      => w[c].mail.account \in met

Asks(x) == {x.mail.cmds[i].id : i \in DOMAIN x.mail.cmds} \ {None}

\* What a call or a delivery finds before it has asked, or does no more, is not its own.
Aside(x) ==
  \/ x.pc \in {"greet", "answer"}
  \/ x.mail.via = "agent" /\ x.at = 1 /\ x.pc \in {"next", "send", "topup"}

\* From then on what is parked, and what it will park again, is what it asked for.
OwnIn(x, s) ==
  x.mail # None /\ x.mail.via # "chat" /\ x.mail.account \notin met /\ ~Aside(x) =>
    /\ s[x.mail.account] = NoReq \/ s[x.mail.account].id \in Asks(x)
    /\ x.pc = "note" => x.req.id \in Asks(x)

OwnInv == \A c \in Worker : OwnIn(w[c], sess)

IInv == WorkInv /\ MeetInv /\ OwnInv /\ ConfirmsItsOwn

\* No mail is None, and an idle worker has none.
LEMMA Posted ==
  /\ \A m \in Menus : \A x \in m.mails : IsMail(x) /\ x # None
  /\ NoReq \in Req /\ Idle.mail = None /\ Idle.pc = "idle" /\ Idle.req = NoReq
  /\ Idle.at = 0 /\ Idle.pins = 0
  BY MailsAssumption DEF IsMail, NoReq, Req, Idle

\* The parts of a worker that has a mail.
LEMMA AtWork ==
  ASSUME WorkInv, NEW c \in Worker, w[c] # Idle
  PROVE  /\ w[c] \in Work /\ w[c].mail \in Mails /\ w[c].mail # None /\ w[c].pc # "idle"
         /\ Session(c) \in Account /\ IsMail(Mail(c)) /\ w[c].at \in Nat \ {0}
         /\ w[c].req \in Req /\ w[c].pins \in Nat /\ w[c].pc \in Label
<1>1. w[c] \in Work /\ w[c].mail # None /\ w[c].pc # "idle"
  BY DEF WorkInv, WorkOK
<1>2. w[c].mail \in Mails \cup {None}
  BY <1>1 DEF Work
<1>3. w[c].mail \in Mails
  BY <1>1, <1>2
<1>4. menu \in Menus
  BY DEF WorkInv
<1>5. IsMail(w[c].mail)
  BY <1>3, <1>4, Posted DEF Mails
<1>6. QED
  BY <1>1, <1>3, <1>5 DEF Mail, Session, IsMail, Work

\* The start.
LEMMA IInvInit == Init => IInv
<1> SUFFICES ASSUME Init PROVE IInv
  OBVIOUS
<1> USE Posted DEF Init
<1>1. WorkInv
  <2>1. sess \in [Account -> Req]
    OBVIOUS
  <2>2. \A c \in Worker : w[c] = Idle
    OBVIOUS
  <2>3. QED
    BY <2>1, <2>2 DEF WorkInv, WorkOK
<1>2. \A c \in Worker : w[c].mail = None
  OBVIOUS
<1>3. MeetInv /\ OwnInv
  BY <1>2 DEF MeetInv, OwnInv, OwnIn
<1>4. ConfirmsItsOwn
  BY DEF ConfirmsItsOwn
<1>5. QED
  BY <1>1, <1>3, <1>4 DEF IInv

\* A step of a mail is about its worker and its session.
Moves(c, x) ==
  /\ w' = [w EXCEPT ![c] = x]
  /\ x = Idle \/ x.mail = w[c].mail
  /\ WorkOK(x)
  /\ menu' = menu /\ met' = met /\ parked' \in Nat
  /\ sess' \in [Account -> Req]
  /\ \A a \in Account \ {Session(c)} : sess'[a] = sess[a]

\* A step whose worker keeps to its own keeps the invariants.
LEMMA MoveKeeps ==
  ASSUME IInv, NEW c \in Worker, w[c] # Idle, NEW x, Moves(c, x), OwnIn(x, sess'),
         strayed' \subseteq strayed \cup met
  PROVE  IInv'
<1> USE DEF Moves
<1>1. w'[c] = x /\ \A d \in Worker \ {c} : w'[d] = w[d]
  BY DEF IInv, WorkInv
<1>2. WorkInv'
  <2>1. w' = [d \in Worker |-> w'[d]] /\ DOMAIN w' = Worker
    BY DEF IInv, WorkInv
  <2>2. \A d \in Worker : WorkOK(w'[d])
    BY <1>1 DEF IInv, WorkInv
  <2>3. \A d \in Worker : WorkOK(w[d])'
    BY <2>2 DEF WorkOK, Work, Mails
  <2>4. QED
    BY <2>1, <2>3 DEF WorkInv, IInv
<1>3. \A d \in Worker : w'[d].mail = w[d].mail \/ w'[d].mail = None
  BY <1>1, Posted
<1>4. MeetInv'
  BY <1>3 DEF IInv, MeetInv
<1>5. OwnInv'
  <2> SUFFICES ASSUME NEW d \in Worker PROVE OwnIn(w[d], sess)'
    BY DEF OwnInv
  <2>s. OwnIn(w[d], sess)' <=> OwnIn(w'[d], sess')
    BY DEF OwnIn, Aside, Asks
  <2>1. CASE d = c
    <3>1. OwnIn(x, sess')
      OBVIOUS
    <3>2. w'[d] = x
      BY <1>1, <2>1
    <3>3. QED
      BY <2>s, <3>1, <3>2
  <2>2. CASE d # c
    <3>1. w'[d] = w[d]
      BY <1>1, <2>2
    <3>2. OwnIn(w[d], sess)
      BY DEF IInv, OwnInv
    <3>3. CASE w[d].mail = None
      BY <3>1, <3>3 DEF OwnIn
    <3>4. CASE w[d].mail # None /\ w[d].mail.account = Session(c)
      <4>1. w[c].mail # None
        BY AtWork DEF IInv
      <4>2. w[d].mail.account \in met
        BY <2>2, <3>4, <4>1 DEF IInv, MeetInv, Session, Mail
      <4>3. QED
        BY <3>1, <4>2 DEF OwnIn
    <3>5. CASE w[d].mail # None /\ w[d].mail.account # Session(c)
      <4>1. w[d] # Idle
        BY <3>5, Posted
      <4>2. w[d].mail.account \in Account
        BY <4>1, AtWork DEF IInv, Session, Mail
      <4>3. sess'[w[d].mail.account] = sess[w[d].mail.account]
        BY <3>5, <4>2
      <4>4. OwnIn(w[d], sess')
        BY <3>2, <4>3 DEF OwnIn
      <4>5. QED
        BY <2>s, <3>1, <4>4
    <3>6. QED
      BY <3>3, <3>4, <3>5
  <2>3. QED
    BY <2>1, <2>2
<1>6. ConfirmsItsOwn'
  BY DEF IInv, ConfirmsItsOwn
<1>7. QED
  BY <1>2, <1>4, <1>5, <1>6 DEF IInv

\* What a step leaves to the session, and to the rest.
Rest(c) ==
  /\ sess' = sess \/ sess' = [sess EXCEPT ![Session(c)] = NoReq]
  /\ UNCHANGED <<menu, parked, met>>
  /\ strayed' \subseteq strayed \cup met

\* A worker that has asked, or is a chat's, goes on with what it has.
LEMMA Carried ==
  ASSUME IInv, NEW c \in Worker, w[c] # Idle, Rest(c), NEW x,
         w' = [w EXCEPT ![c] = x], WorkOK(x), x = Idle \/ x.mail = w[c].mail,
         x = Idle \/ x.pc # "note",
         \/ x = Idle \/ Aside(x) \/ x.mail.via = "chat" \/ ~Aside(w[c])
         \/ sess'[Session(c)] = NoReq
  PROVE  IInv'
<1>1. Session(c) \in Account
  BY AtWork DEF IInv
<1>2. sess' \in [Account -> Req] /\ \A a \in Account \ {Session(c)} : sess'[a] = sess[a]
  BY <1>1, Posted DEF Rest, IInv, WorkInv
<1>3. sess'[Session(c)] \in {sess[Session(c)], NoReq}
  BY <1>1 DEF Rest, IInv, WorkInv
<1>4. Moves(c, x)
  BY <1>2 DEF Moves, Rest, IInv, WorkInv
<1>5. OwnIn(x, sess')
  <2>1. CASE x = Idle
    BY <2>1, Posted DEF OwnIn
  <2>2. CASE x # Idle
    <3>1. x.mail = w[c].mail /\ x.pc # "note" /\ Asks(x) = Asks(w[c])
      BY <2>2 DEF Asks
    <3>2. CASE Aside(x) \/ x.mail.via = "chat"
      BY <3>2 DEF OwnIn
    <3>3. CASE sess'[Session(c)] = NoReq
      BY <3>1, <3>3 DEF OwnIn, Session, Mail
    <3>4. CASE ~Aside(w[c])
      <4>1. OwnIn(w[c], sess)
        BY DEF IInv, OwnInv
      <4>2. QED
        BY <3>1, <3>4, <4>1, <1>3 DEF OwnIn, Session, Mail
    <3>5. QED
      BY <2>2, <3>2, <3>3, <3>4
  <2>3. QED
    BY <2>1, <2>2
<1>6. QED
  BY <1>4, <1>5, MoveKeeps DEF Rest

\* The worker is done, or its post is refused.
LEMMA Left ==
  ASSUME IInv, NEW c \in Worker, w[c] # Idle, Rest(c), Leave(c)
  PROVE  IInv'
<1>1. w' = [w EXCEPT ![c] = Idle]
  BY DEF Leave
<1>2. WorkOK(Idle)
  BY DEF WorkOK
<1>3. QED
  BY <1>1, <1>2, Carried

Later == Label \ {"idle", "greet", "send", "topup", "note"}

\* On to another step of the same command.
LEMMA Turned ==
  ASSUME IInv, NEW c \in Worker, w[c] # Idle, Rest(c), NEW pc \in Later, Go(c, pc),
         pc = "answer" \/ w[c].mail.via = "chat" \/ ~Aside(w[c])
  PROVE  IInv'
<1> DEFINE x == [w[c] EXCEPT !.pc = pc]
<1>1. w' = [w EXCEPT ![c] = x]
  BY DEF Go
<1>2. x \in Work /\ x.mail = w[c].mail /\ x.pc = pc /\ x.at = w[c].at
  BY AtWork DEF IInv, Work, Later
<1>3. pc \notin {"idle", "note", "greet", "send", "topup"}
  BY DEF Later
<1>4. WorkOK(x)
  BY <1>2, <1>3, AtWork DEF WorkOK, IInv, Work
<1>5. Aside(x) \/ x.mail.via = "chat" \/ ~Aside(w[c])
  BY <1>2 DEF Aside
<1> HIDE DEF x
<1>6. QED
  BY <1>1, <1>2, <1>3, <1>4, <1>5, Carried

\* On to the next command.
LEMMA Onwards ==
  ASSUME IInv, NEW c \in Worker, w[c] # Idle, Rest(c), Onward(c)
  PROVE  w[c].mail.via = "chat" \/ ~Aside(w[c]) => IInv'
<1> DEFINE x == [w[c] EXCEPT !.at = w[c].at + 1, !.pc = "next", !.req = NoReq]
<1> HAVE w[c].mail.via = "chat" \/ ~Aside(w[c])
<1>1. w' = [w EXCEPT ![c] = x]
  BY DEF Onward
<1>2. w[c] \in Work /\ w[c].mail # None /\ NoReq \in Req /\ "next" \in Label
  BY AtWork, Posted DEF IInv, Label
<1>3. w[c].at + 1 \in Nat \ {0}
  BY <1>2 DEF Work
<1>4. x \in Work /\ x.mail = w[c].mail /\ x.pc = "next"
  BY <1>2, <1>3 DEF Work
<1>5. WorkOK(x)
  BY <1>2, <1>4, AtWork DEF WorkOK, IInv, Work
<1> HIDE DEF x
<1>6. QED
  BY <1>1, <1>4, <1>5, Carried

\* What a sequence holds at one of its places is of its kind.
LEMMA Element == ASSUME NEW S, NEW q \in Seq(S), NEW i \in DOMAIN q PROVE q[i] \in S
  OBVIOUS

Commands == [op : {"send", "topup", "confirm", "cancel"}, id : Id \cup {None}]

\* A request is what the mail says here, and one it asks for.
LEMMA Asked ==
  ASSUME WorkInv, NEW c \in Worker, w[c].pc \in {"send", "topup"}
  PROVE  /\ Command(c).op = w[c].pc /\ Command(c).id \in Id /\ Command(c).id \in Asks(w[c])
         /\ w[c] # Idle
<1>1. w[c] # Idle
  BY Posted
<1>2. w[c].at \in DOMAIN w[c].mail.cmds /\ w[c].mail.cmds[w[c].at].op = w[c].pc
  BY <1>1 DEF WorkInv, WorkOK
<1>3. IsMail(w[c].mail)
  BY <1>1, AtWork DEF Mail
<1>4. w[c].mail.cmds[w[c].at] \in Commands
  <2>1. w[c].mail.cmds \in Seq(Commands)
    BY <1>3 DEF IsMail, Commands
  <2>2. QED
    BY <2>1, <1>2, Element
<1>5. \A i \in DOMAIN w[c].mail.cmds :
          w[c].mail.cmds[i].op \in {"send", "topup"} => w[c].mail.cmds[i].id # None
  BY <1>3 DEF IsMail
<1>6. w[c].mail.cmds[w[c].at].id # None
  BY <1>2, <1>5
<1>7. QED
  BY <1>1, <1>2, <1>4, <1>6 DEF Command, Mail, Asks, Commands

\* A request is parked, or refused.
LEMMA AskKeeps == ASSUME IInv, NEW c \in Worker, Ask(c) PROVE IInv'
<1>1. w[c].pc \in {"send", "topup"} /\ w[c] # Idle /\ WorkInv
  BY Posted DEF Ask, IInv
<1>2. /\ Command(c).op = w[c].pc /\ Command(c).id \in Id /\ Command(c).id \in Asks(w[c])
      /\ w[c] \in Work /\ w[c].mail # None /\ Session(c) \in Account /\ w[c].at \in Nat \ {0}
      /\ w[c].mail = Mail(c) /\ parked \in Nat
  BY <1>1, Asked, AtWork DEF Mail, WorkInv
<1>3. CASE UNCHANGED <<parked, sess>>
  <2>1. Rest(c)
    BY <1>3 DEF Ask, Rest
  <2>2. CASE Mail(c).via = "chat" /\ Onward(c)
    BY <2>1, <2>2, <1>1, <1>2, Onwards
  <2>3. CASE Mail(c).via # "chat" /\ Finish(c)
    <3> DEFINE x == [w[c] EXCEPT !.pc = "answer", !.req = NoReq]
    <3>1. w' = [w EXCEPT ![c] = x]
      BY <2>3 DEF Finish
    <3>2. x \in Work /\ x.mail = w[c].mail /\ x.pc = "answer"
      BY <1>2, Posted DEF Work, Label
    <3>3. WorkOK(x) /\ Aside(x)
      BY <3>2, <1>2 DEF WorkOK, Aside
    <3> HIDE DEF x
    <3>4. QED
      BY <3>1, <3>2, <3>3, <2>1, <1>1, Carried
  <2>4. QED
    BY <1>3, <2>2, <2>3, <1>2 DEF Ask, WorkInv
<1>4. CASE /\ parked' = parked + 1
           /\ sess' = [sess EXCEPT ![Session(c)] =
                  [op |-> Command(c).op, id |-> Command(c).id, key |-> parked']]
           /\ IF Mail(c).via = "call" /\ At(c, "send") THEN Go(c, "memo") ELSE Onward(c)
  <2> DEFINE r == [op |-> Command(c).op, id |-> Command(c).id, key |-> parked']
             y == [w[c] EXCEPT !.pc = "memo"]
             z == [w[c] EXCEPT !.at = w[c].at + 1, !.pc = "next", !.req = NoReq]
  <2>1. r \in Req /\ r.id \in Asks(w[c]) /\ parked' \in Nat
    BY <1>1, <1>2, <1>4 DEF Req
  <2>2. w' = [w EXCEPT ![c] = y] \/ w' = [w EXCEPT ![c] = z]
    BY <1>4 DEF Go, Onward
  <2>3. y \in Work /\ y.mail = w[c].mail /\ y.pc = "memo"
    BY <1>2 DEF Work, Label
  <2>4. w[c].at + 1 \in Nat \ {0} /\ NoReq \in Req /\ "next" \in Label
    BY <1>2, Posted DEF Label
  <2>5. z \in Work /\ z.mail = w[c].mail /\ z.pc = "next"
    BY <1>2, <2>4 DEF Work
  <2>6. sess' = [sess EXCEPT ![Session(c)] = r]
    BY <1>4
  <2> HIDE DEF r, y, z
  <2>7. PICK x \in {y, z} : w' = [w EXCEPT ![c] = x]
    BY <2>2
  <2>8. x \in Work /\ x.mail = w[c].mail /\ x.pc \in {"memo", "next"} /\ Asks(x) = Asks(w[c])
    BY <2>3, <2>5 DEF Asks
  <2>9. WorkOK(x)
    BY <2>8, <1>2 DEF WorkOK
  <2>10. sess' \in [Account -> Req] /\ \A a \in Account \ {Session(c)} : sess'[a] = sess[a]
    BY <2>1, <2>6, <1>1, <1>2 DEF WorkInv
  <2>11. Moves(c, x)
    BY <2>1, <2>7, <2>8, <2>9, <2>10 DEF Moves, Ask
  <2>12. sess'[Session(c)].id \in Asks(x)
    BY <2>1, <2>6, <2>8, <1>1, <1>2 DEF WorkInv
  <2>13. OwnIn(x, sess')
    BY <2>8, <2>12 DEF OwnIn, Session, Mail
  <2>14. QED
    BY <2>11, <2>13, <1>1, MoveKeeps DEF Ask
<1>5. QED
  BY <1>3, <1>4 DEF Ask

\* What the mail asks for is what its own requests are.
LEMMA OwnAsks == \A c \in Worker : Own(c) = Asks(w[c])
  BY DEF Own, Asks, Mail

\* The next command is taken up, or the post is refused.
LEMMA AdmitKeeps == ASSUME IInv, NEW c \in Worker, Admit(c) PROVE IInv'
<1>1. w[c].pc = "next" /\ w[c] # Idle /\ Rest(c) /\ w[c].at <= Len(Mail(c).cmds)
  BY Posted DEF Admit, At, Rest
<1>2. /\ w[c] \in Work /\ w[c].mail # None /\ w[c].at \in Nat \ {0} /\ IsMail(Mail(c))
      /\ w[c].mail = Mail(c)
  BY <1>1, AtWork DEF IInv, Mail
<1>3. CASE Leave(c)
  BY <1>1, <1>3, Left
<1>4. CASE Go(c, Command(c).op)
  <2> DEFINE op == Command(c).op
             x  == [w[c] EXCEPT !.pc = op]
  <2>1. Mail(c).cmds \in Seq(Commands)
    BY <1>2 DEF IsMail, Commands
  <2>2. w[c].at \in DOMAIN Mail(c).cmds
    BY <1>1, <1>2, <2>1
  <2>3. Mail(c).cmds[w[c].at] \in Commands
    BY <2>1, <2>2, Element
  <2>4. op \in {"send", "topup", "confirm", "cancel"} /\ op = Mail(c).cmds[w[c].at].op
    BY <2>3 DEF Command, Commands
  <2>5. op \in Label
    BY <2>4 DEF Label
  <2>6. w' = [w EXCEPT ![c] = x]
    BY <1>4 DEF Go
  <2> HIDE DEF op
  <2>7. x \in Work /\ x.mail = w[c].mail /\ x.pc = op /\ x.at = w[c].at
    BY <1>2, <2>5 DEF Work
  <2> HIDE DEF x
  <2>8. WorkOK(x)
    BY <2>2, <2>4, <2>7, <1>2 DEF WorkOK
  <2>9. Aside(x) \/ ~Aside(w[c])
    <3>1. CASE w[c].mail.via = "agent" /\ w[c].at = 1
      <4>1. Mail(c).cmds # <<>>
        BY <2>1, <2>2
      <4>2. Mail(c).cmds[1].op \in {"send", "topup"}
        BY <4>1, <3>1, <1>2 DEF IsMail
      <4>3. QED
        BY <4>2, <3>1, <2>4, <2>7, <1>2 DEF Aside
    <3>2. CASE ~(w[c].mail.via = "agent" /\ w[c].at = 1)
      BY <3>2, <1>1 DEF Aside
    <3>3. QED
      BY <3>1, <3>2
  <2>10. x.pc # "note"
    BY <2>4, <2>7
  <2>11. QED
    BY <1>1, <2>6, <2>7, <2>8, <2>9, <2>10, Carried
<1>5. QED
  BY <1>3, <1>4 DEF Admit

\* The memo is read with the parked request, and written back with it.
LEMMA MemoKeeps == ASSUME IInv, NEW c \in Worker, Memo(c) PROVE IInv'
<1>1. w[c].pc = "memo" /\ w[c] # Idle /\ Rest(c) /\ ~Aside(w[c])
  BY Posted DEF Memo, At, Rest, Aside
<1>2. CASE Onward(c)
  BY <1>1, <1>2, Onwards
<1>3. CASE w' = [w EXCEPT ![c].req = sess[Session(c)], ![c].pc = "note"]
           /\ sess[Session(c)].op = "send"
  <2> DEFINE r == sess[Session(c)]
             x == [w[c] EXCEPT !.req = r, !.pc = "note"]
  <2>1. w' = [w EXCEPT ![c] = x]
    BY <1>3
  <2>2. w[c] \in Work /\ w[c].mail # None /\ Session(c) \in Account
    BY <1>1, AtWork DEF IInv
  <2>3. r \in Req /\ "note" \in Label /\ r # NoReq
    BY <1>3, <2>2 DEF IInv, WorkInv, Label, NoReq
  <2> HIDE DEF r
  <2>4. x \in Work /\ x.mail = w[c].mail /\ x.pc = "note" /\ x.req = r
    BY <2>2, <2>3 DEF Work
  <2> HIDE DEF x
  <2>5. WorkOK(x) /\ Asks(x) = Asks(w[c])
    BY <2>2, <2>4 DEF WorkOK, Asks
  <2>6. Moves(c, x)
    BY <2>1, <2>4, <2>5 DEF Moves, Memo, IInv, WorkInv
  <2>7. OwnIn(w[c], sess)
    BY DEF IInv, OwnInv
  <2>8. OwnIn(x, sess')
    BY <1>1, <2>3, <2>4, <2>5, <2>7 DEF OwnIn, Memo, Session, Mail, r
  <2>9. QED
    BY <2>6, <2>8, <1>1, MoveKeeps DEF Memo
<1>4. QED
  BY <1>2, <1>3 DEF Memo

\* The request with its memo is one that the mail asked for.
LEMMA NoteKeeps == ASSUME IInv, NEW c \in Worker, Note(c) PROVE IInv'
<1> DEFINE x == [w[c] EXCEPT !.at = w[c].at + 1, !.pc = "next", !.req = NoReq]
<1>1. w[c].pc = "note" /\ w[c] # Idle /\ ~Aside(w[c])
  BY Posted DEF Note, At, Aside
<1>2. w' = [w EXCEPT ![c] = x]
  BY DEF Note, Onward
<1>3. /\ w[c] \in Work /\ w[c].mail # None /\ Session(c) \in Account /\ w[c].req \in Req
      /\ w[c].at \in Nat \ {0} /\ NoReq \in Req /\ "next" \in Label
  BY <1>1, AtWork, Posted DEF IInv, Label
<1>4. w[c].at + 1 \in Nat \ {0}
  BY <1>3
<1>5. x \in Work /\ x.mail = w[c].mail /\ x.pc = "next"
  BY <1>3, <1>4 DEF Work
<1> HIDE DEF x
<1>6. WorkOK(x) /\ Asks(x) = Asks(w[c])
  BY <1>3, <1>5 DEF WorkOK, Asks
<1>7. sess' = [sess EXCEPT ![Session(c)] = w[c].req]
  BY DEF Note
<1>8. /\ sess' \in [Account -> Req] /\ sess'[Session(c)] = w[c].req
      /\ \A a \in Account \ {Session(c)} : sess'[a] = sess[a]
  BY <1>3, <1>7 DEF IInv, WorkInv
<1>9. Moves(c, x)
  BY <1>2, <1>5, <1>6, <1>8 DEF Moves, Note, IInv, WorkInv
<1>10. OwnIn(w[c], sess)
  BY DEF IInv, OwnInv
<1>11. OwnIn(x, sess')
  BY <1>1, <1>5, <1>6, <1>8, <1>10 DEF OwnIn, Session, Mail
<1>12. QED
  BY <1>1, <1>9, <1>11, MoveKeeps DEF Note

\* A call or a delivery that has met nobody finds its own request, or none.
LEMMA ConfirmKeeps == ASSUME IInv, NEW c \in Worker, Confirm(c) PROVE IInv'
<1>1. w[c].pc = "confirm" /\ w[c] # Idle /\ ~Aside(w[c])
  BY Posted DEF Confirm, At, Aside
<1>2. /\ w[c] \in Work /\ w[c].mail # None /\ Session(c) \in Account
      /\ Session(c) = w[c].mail.account
  BY <1>1, AtWork DEF IInv, Session, Mail
<1>3. strayed' \subseteq strayed \cup met
  <2>1. CASE strayed' = strayed
    BY <2>1
  <2>2. CASE /\ sess[Session(c)] # NoReq /\ Mail(c).via # "chat"
             /\ sess[Session(c)].id \notin Own(c) /\ strayed' = strayed \cup {Session(c)}
    <3>1. OwnIn(w[c], sess)
      BY DEF IInv, OwnInv
    <3>2. Session(c) \in met
      BY <3>1, <2>2, <1>1, <1>2, OwnAsks DEF OwnIn, Mail
    <3>3. QED
      BY <3>2, <2>2
  <2>3. QED
    BY <2>1, <2>2 DEF Confirm
<1>4. Rest(c)
  BY <1>3 DEF Confirm, Rest
<1>5. CASE Onward(c)
  BY <1>1, <1>4, <1>5, Onwards
<1>6. CASE w' = [w EXCEPT ![c].req = sess[Session(c)], ![c].pc = "claim"]
  <2> DEFINE r == sess[Session(c)]
             x == [w[c] EXCEPT !.req = r, !.pc = "claim"]
  <2>1. w' = [w EXCEPT ![c] = x]
    BY <1>6
  <2>2. r \in Req /\ "claim" \in Label
    BY <1>2 DEF IInv, WorkInv, Label
  <2> HIDE DEF r
  <2>3. x \in Work /\ x.mail = w[c].mail /\ x.pc = "claim"
    BY <1>2, <2>2 DEF Work
  <2> HIDE DEF x
  <2>4. WorkOK(x)
    BY <2>3, <1>2 DEF WorkOK
  <2>5. QED
    BY <1>1, <1>4, <2>1, <2>3, <2>4, Carried
<1>7. QED
  BY <1>5, <1>6 DEF Confirm

\* A wrong PIN, or none: once more, on to the next command, or the request is dropped.
LEMMA WrongPinKeeps == ASSUME IInv, NEW c \in Worker, WrongPin(c) PROVE IInv'
<1>1. w[c].pc = "confirm" /\ w[c] # Idle /\ ~Aside(w[c]) /\ Rest(c)
  BY Posted DEF WrongPin, At, Aside, Rest
<1>2. CASE Onward(c)
  BY <1>1, <1>2, Onwards
<1>3. CASE w' = [w EXCEPT ![c].pins = @ + 1,
                          ![c].pc = IF w[c].pins = 0 THEN "confirm" ELSE "cancel"]
  <2> DEFINE pc == IF w[c].pins = 0 THEN "confirm" ELSE "cancel"
             x == [w[c] EXCEPT !.pins = w[c].pins + 1, !.pc = pc]
  <2>1. w' = [w EXCEPT ![c] = x]
    BY <1>3
  <2>2. w[c] \in Work /\ w[c].mail # None /\ w[c].pins \in Nat
    BY <1>1, AtWork DEF IInv
  <2>3. pc \in Label /\ pc \in {"confirm", "cancel"} /\ w[c].pins + 1 \in Nat
    BY <2>2 DEF Label
  <2> HIDE DEF pc
  <2>4. x \in Work /\ x.mail = w[c].mail /\ x.pc = pc /\ x.at = w[c].at
    BY <2>2, <2>3 DEF Work
  <2> HIDE DEF x
  <2>5. WorkOK(x)
    BY <2>2, <2>3, <2>4 DEF WorkOK, Work
  <2>6. QED
    BY <1>1, <2>1, <2>3, <2>4, <2>5, Carried
<1>4. QED
  BY <1>2, <1>3 DEF WrongPin

\* The steps up to a payment.
LEMMA RequestKeeps == ASSUME IInv, NEW c \in Worker, Request(c) PROVE IInv'
<1>1. CASE NoDigits(c)
  <2>1. w[c] # Idle /\ ~Aside(w[c]) /\ Rest(c) /\ Go(c, "cancel") /\ "cancel" \in Later
    BY <1>1, Posted DEF NoDigits, At, Aside, Rest, Later, Label
  <2>2. QED
    BY <2>1, Turned
<1>2. CASE Cancel(c)
  <2>1. w[c] # Idle /\ ~Aside(w[c]) /\ Rest(c) /\ Onward(c)
    BY <1>2, Posted DEF Cancel, At, Aside, Rest
  <2>2. QED
    BY <2>1, Onwards
<1>3. QED
  BY <1>1, <1>2, AskKeeps, MemoKeeps, NoteKeeps, ConfirmKeeps, WrongPinKeeps DEF Request

\* Where a payment is made nobody stands aside.
LEMMA AtExecute ==
  ASSUME NEW c \in Worker,
         w[c].pc \in {"claim", "transfer", "charge", "detect", "provide", "refund", "clear"}
  PROVE  w[c] # Idle /\ ~Aside(w[c])
  BY Posted DEF Aside

\* The steps of a payment.
LEMMA ExecuteKeeps == ASSUME IInv, NEW c \in Worker, Execute(c) PROVE IInv'
<1>1. w[c].pc \in {"claim", "transfer", "charge", "detect", "provide", "refund", "clear"}
  BY DEF Execute, ClaimKey, Transfer, Charge, GetToken, Detect, Provide, Refund, Clear, At
<1>2. w[c] # Idle /\ ~Aside(w[c])
  BY <1>1, AtExecute
<1>3. Rest(c)
  BY DEF Execute, ClaimKey, Transfer, Charge, GetToken, Detect, Provide, Refund, Clear, Rest
<1>4. CASE Onward(c)
  BY <1>2, <1>3, <1>4, Onwards
<1>5. CASE \E pc \in {"charge", "transfer", "clear", "detect", "refund", "provide"} : Go(c, pc)
  <2>1. PICK pc \in {"charge", "transfer", "clear", "detect", "refund", "provide"} : Go(c, pc)
    BY <1>5
  <2>2. pc \in Later
    BY DEF Later, Label
  <2>3. QED
    BY <2>1, <2>2, <1>2, <1>3, Turned
<1>6. CASE UNCHANGED w
  <2> DEFINE x == w[c]
  <2>1. w' = [w EXCEPT ![c] = x] /\ WorkOK(x)
    BY <1>6 DEF IInv, WorkInv
  <2>2. x.pc # "note" /\ ~Aside(w[c])
    BY <1>1, <1>2
  <2> HIDE DEF x
  <2>3. x.mail = w[c].mail
    BY DEF x
  <2>4. QED
    BY <2>1, <2>2, <2>3, <1>2, <1>3, Carried
<1>7. Onward(c) \/ UNCHANGED w \/ \E pc \in {"charge", "transfer", "clear", "detect", "refund", "provide"} : Go(c, pc)
  <2>1. CASE ClaimKey(c)
    BY <2>1 DEF ClaimKey
  <2>2. CASE Transfer(c)
    BY <2>2 DEF Transfer
  <2>3. CASE Charge(c)
    BY <2>3 DEF Charge
  <2>4. CASE GetToken(c)
    BY <2>4 DEF GetToken
  <2>5. CASE Detect(c)
    BY <2>5 DEF Detect
  <2>6. CASE Provide(c)
    BY <2>6 DEF Provide
  <2>7. CASE Refund(c) \/ Clear(c)
    BY <2>7 DEF Refund, Clear
  <2>8. QED
    BY <2>1, <2>2, <2>3, <2>4, <2>5, <2>6, <2>7 DEF Execute
<1>8. QED
  BY <1>4, <1>5, <1>6, <1>7

\* A mail begins at its first command, with nothing asked for.
LEMMA BeginDoes ==
  ASSUME NEW c \in Worker, NEW m, NEW pc, Begin(c, m, pc)
  PROVE  /\ w[c].pc = "idle"
         /\ w' = [w EXCEPT ![c] = [pc |-> pc, mail |-> m, at |-> 1, req |-> NoReq, pins |-> 0]]
<1> DEFINE x == [pc |-> pc, mail |-> m, at |-> 1, req |-> NoReq, pins |-> 0]
           y == [Idle EXCEPT !.pc = pc]
           z == [y EXCEPT !.mail = m]
<1>1. y = [pc |-> pc, mail |-> None, at |-> 0, req |-> NoReq, pins |-> 0]
  BY DEF Idle
<1> HIDE DEF y
<1>2. z = [pc |-> pc, mail |-> m, at |-> 0, req |-> NoReq, pins |-> 0]
  BY <1>1
<1> HIDE DEF z
<1>3. [z EXCEPT !.at = 1] = x
  BY <1>2
<1> HIDE DEF x
<1>4. w' = [w EXCEPT ![c] = [z EXCEPT !.at = 1]] /\ w[c].pc = "idle"
  BY DEF Begin, At, y, z
<1>5. w' = [w EXCEPT ![c] = x] /\ w[c].pc = "idle"
  BY <1>3, <1>4
<1>6. QED
  BY <1>5 DEF x

\* A mail begins: what it has not asked for yet is nobody's.
LEMMA BeginKeeps ==
  ASSUME IInv, NEW c \in Worker, NEW m \in Mails,
         NEW pc \in {"next", "greet"}, m.via = "call" => pc = "greet", Begin(c, m, pc)
  PROVE  IInv'
<1> DEFINE x == [pc |-> pc, mail |-> m, at |-> 1, req |-> NoReq, pins |-> 0]
<1>1. w' = [w EXCEPT ![c] = x] /\ w[c].pc = "idle"
  BY BeginDoes
<1>2. menu \in Menus /\ IsMail(m) /\ m # None
  BY Posted DEF IInv, WorkInv, Mails
<1>3. /\ x \in Work /\ x.mail = m /\ x.pc = pc /\ x.at = 1
  BY <1>2, Posted DEF Work, Label
<1> HIDE DEF x
<1>4. WorkOK(x)
  BY <1>2, <1>3 DEF WorkOK
<1>5. w[c] = Idle /\ w[c].mail = None
  BY <1>1, Posted DEF IInv, WorkInv, WorkOK
<1>6. w'[c] = x /\ \A d \in Worker \ {c} : w'[d] = w[d]
  BY <1>1 DEF IInv, WorkInv
<1>7. WorkInv'
  <2>1. w' = [d \in Worker |-> w'[d]] /\ DOMAIN w' = Worker
    BY <1>1 DEF IInv, WorkInv
  <2>2. \A d \in Worker : WorkOK(w'[d])
    BY <1>4, <1>6 DEF IInv, WorkInv
  <2>3. menu' = menu
    BY DEF Begin
  <2>4. \A d \in Worker : WorkOK(w[d])'
    BY <2>2, <2>3 DEF WorkOK, Work, Mails
  <2>5. QED
    BY <2>1, <2>4 DEF WorkInv, IInv, Begin
<1>8. met \subseteq met' /\ strayed' = strayed
  BY DEF Begin
<1>9. MeetInv'
  <2> SUFFICES ASSUME NEW a \in Worker, NEW b \in Worker, a # b,
                      w'[a].mail # None, w'[b].mail # None, w'[a].mail.account = w'[b].mail.account
               PROVE  w'[a].mail.account \in met'
    BY DEF MeetInv
  <2>1. CASE a # c /\ b # c
    BY <2>1, <1>6, <1>8 DEF IInv, MeetInv
  <2>2. CASE a = c \/ b = c
    <3>1. \E d \in Worker \ {c} : w[d].mail # None /\ w[d].mail.account = m.account
      BY <2>2, <1>3, <1>6
    <3>2. m.account \in met'
      BY <3>1 DEF Begin
    <3>3. QED
      BY <2>2, <3>2, <1>3, <1>6
  <2>3. QED
    BY <2>1, <2>2
<1>10. OwnInv'
  <2> SUFFICES ASSUME NEW d \in Worker PROVE OwnIn(w[d], sess)'
    BY DEF OwnInv
  <2>1. CASE d = c
    <3>1. m.via = "chat" \/ m.via = "agent" \/ m.via = "call"
      BY <1>2 DEF IsMail
    <3>2. Aside(x) \/ x.mail.via = "chat"
      BY <3>1, <1>3 DEF Aside
    <3>3. w'[d] = x
      BY <2>1, <1>6
    <3>4. QED
      BY <3>2, <3>3 DEF OwnIn, Aside
  <2>2. CASE d # c
    <3>1. w'[d] = w[d] /\ sess' = sess
      BY <2>2, <1>6 DEF Begin
    <3>2. OwnIn(w[d], sess)
      BY DEF IInv, OwnInv
    <3>3. QED
      BY <3>1, <3>2, <1>8 DEF OwnIn, Aside, Asks
  <2>3. QED
    BY <2>1, <2>2
<1>11. ConfirmsItsOwn'
  BY <1>8 DEF IInv, ConfirmsItsOwn
<1>12. QED
  BY <1>7, <1>9, <1>10, <1>11 DEF IInv

\* What changes no worker and no session changes nothing here.
LEMMA QuietKeeps ==
  ASSUME IInv, UNCHANGED <<menu, w, sess, parked, met, strayed>> PROVE IInv'
<1>1. WorkInv'
  BY DEF IInv, WorkInv, WorkOK, Work, Mails
<1>2. MeetInv' /\ ConfirmsItsOwn'
  BY DEF IInv, MeetInv, ConfirmsItsOwn
<1>3. OwnInv'
  BY DEF IInv, OwnInv, OwnIn, Aside, Asks
<1>4. QED
  BY <1>1, <1>2, <1>3 DEF IInv

\* Every step keeps the invariant.
LEMMA IInvStep == IInv /\ [Next]_vars => IInv'
<1> SUFFICES ASSUME IInv, [Next]_vars PROVE IInv'
  OBVIOUS
<1>1. CASE UNCHANGED vars
  BY <1>1, QuietKeeps DEF vars
<1>2. CASE Tick \/ TokenEnds
  BY <1>2, QuietKeeps DEF Tick, TokenEnds
<1>3. CASE Crash
  <2>1. w' = [c \in Worker |-> Idle]
    BY <1>3 DEF Crash
  <2>2. \A c \in Worker : w'[c] = Idle /\ w'[c].mail = None
    BY <2>1, Posted
  <2>3. WorkInv'
    <3>1. DOMAIN w' = Worker /\ w' = [c \in Worker |-> w'[c]]
      BY <2>1
    <3>2. \A c \in Worker : WorkOK(w[c])'
      BY <2>2 DEF WorkOK
    <3>3. QED
      BY <3>1, <3>2, <1>3 DEF IInv, WorkInv, Crash
  <2>4. MeetInv' /\ OwnInv' /\ ConfirmsItsOwn'
    BY <2>2, <1>3 DEF MeetInv, OwnInv, OwnIn, IInv, ConfirmsItsOwn, Crash
  <2>5. QED
    BY <2>3, <2>4 DEF IInv
<1>4. ASSUME NEW c \in Worker, NEW m \in Mails, Post(c, m) \/ Call(c, m) PROVE IInv'
  <2>1. CASE Post(c, m)
    <3>1. Begin(c, m, "next") /\ m.via # "call"
      BY <2>1 DEF Post
    <3>2. QED
      BY <3>1, BeginKeeps
  <2>2. CASE Call(c, m)
    <3>1. Begin(c, m, "greet")
      BY <2>2 DEF Call
    <3>2. QED
      BY <3>1, BeginKeeps
  <2>3. QED
    BY <1>4, <2>1, <2>2
<1>5. ASSUME NEW c \in Worker, Greet(c) PROVE IInv'
  <2> DEFINE x == [w[c] EXCEPT !.pc = "next"]
  <2>1. w[c].pc = "greet" /\ w[c] # Idle /\ Rest(c) /\ w' = [w EXCEPT ![c] = x]
    BY <1>5, Posted DEF Greet, At, Rest, Go
  <2>2. w[c] \in Work /\ w[c].mail # None /\ Session(c) \in Account
    BY <2>1, AtWork DEF IInv
  <2>3. x \in Work /\ x.mail = w[c].mail /\ x.pc = "next"
    BY <2>2 DEF Work, Label
  <2> HIDE DEF x
  <2>4. WorkOK(x)
    BY <2>2, <2>3 DEF WorkOK
  <2>5. sess'[Session(c)] = NoReq
    BY <1>5, <2>2 DEF Greet, IInv, WorkInv
  <2>6. QED
    BY <2>1, <2>3, <2>4, <2>5, Carried
<1>6. ASSUME NEW c \in Worker, Answer(c) PROVE IInv'
  <2>1. w[c] # Idle /\ Rest(c) /\ Leave(c)
    BY <1>6, Posted DEF Answer, At, Rest
  <2>2. QED
    BY <2>1, Left
<1>7. ASSUME NEW c \in Worker, Admit(c) \/ Request(c) \/ Execute(c) PROVE IInv'
  BY <1>7, AdmitKeeps, RequestKeeps, ExecuteKeeps
<1>8. QED
  BY <1>1, <1>2, <1>3, <1>4, <1>5, <1>6, <1>7 DEF Next

\* A call or an agent's delivery confirms the request it made, unless another
\* worked in the same session beside it (x402.ts:392-395, agi/server.ts).
THEOREM OwnIsConfirmed == Spec => []ConfirmsItsOwn
<1>1. IInv => ConfirmsItsOwn
  BY DEF IInv
<1>2. QED
  BY IInvInit, IInvStep, <1>1, PTL DEF Spec

-----------------------------------------------------------------------------
(* What the steps do with a worker's work, for the money.                   *)

\* A worker that goes on keeps its mail, its place in it and its request.
LEMMA GoDoes ==
  ASSUME WorkInv, NEW c \in Worker, w[c] # Idle, NEW pc, Go(c, pc)
  PROVE  /\ \A d \in Worker \ {c} : w'[d] = w[d]
         /\ w'[c].pc = pc /\ w'[c].mail = w[c].mail /\ w'[c].at = w[c].at /\ w'[c].req = w[c].req
<1>1. w[c] \in Work
  BY AtWork
<1>2. w' = [w EXCEPT ![c] = [w[c] EXCEPT !.pc = pc]]
  BY DEF Go
<1>3. w'[c] = [w[c] EXCEPT !.pc = pc] /\ \A d \in Worker \ {c} : w'[d] = w[d]
  BY <1>2 DEF WorkInv
<1>4. QED
  BY <1>1, <1>3 DEF Work

\* The next command begins without a request.
LEMMA OnwardDoes ==
  ASSUME WorkInv, NEW c \in Worker, w[c] # Idle, Onward(c)
  PROVE  /\ \A d \in Worker \ {c} : w'[d] = w[d]
         /\ w'[c].pc = "next" /\ w'[c].mail = w[c].mail /\ w'[c].at = w[c].at + 1
         /\ w'[c].req = NoReq
<1>1. w[c] \in Work
  BY AtWork
<1>2. w' = [w EXCEPT ![c] = [w[c] EXCEPT !.at = w[c].at + 1, !.pc = "next", !.req = NoReq]]
  BY DEF Onward
<1>3. /\ w'[c] = [w[c] EXCEPT !.at = w[c].at + 1, !.pc = "next", !.req = NoReq]
      /\ \A d \in Worker \ {c} : w'[d] = w[d]
  BY <1>2 DEF WorkInv
<1>4. QED
  BY <1>1, <1>3 DEF Work

\* The work that is at its end has no request.
LEMMA FinishDoes ==
  ASSUME WorkInv, NEW c \in Worker, w[c] # Idle, Finish(c)
  PROVE  /\ \A d \in Worker \ {c} : w'[d] = w[d]
         /\ w'[c].pc = "answer" /\ w'[c].mail = w[c].mail /\ w'[c].at = w[c].at
         /\ w'[c].req = NoReq
<1>1. w[c] \in Work
  BY AtWork
<1>2. w' = [w EXCEPT ![c] = [w[c] EXCEPT !.pc = "answer", !.req = NoReq]]
  BY DEF Finish
<1>3. /\ w'[c] = [w[c] EXCEPT !.pc = "answer", !.req = NoReq]
      /\ \A d \in Worker \ {c} : w'[d] = w[d]
  BY <1>2 DEF WorkInv
<1>4. QED
  BY <1>1, <1>3 DEF Work

\* A caller who is asked for the PIN once more keeps everything else.
LEMMA PinDoes ==
  ASSUME WorkInv, NEW c \in Worker, w[c] # Idle, NEW n, NEW pc,
         w' = [w EXCEPT ![c] = [w[c] EXCEPT !.pins = n, !.pc = pc]]
  PROVE  /\ \A d \in Worker \ {c} : w'[d] = w[d]
         /\ w'[c].pc = pc /\ w'[c].mail = w[c].mail /\ w'[c].at = w[c].at /\ w'[c].req = w[c].req
<1>1. w[c] \in Work
  BY AtWork
<1>2. /\ w'[c] = [w[c] EXCEPT !.pins = n, !.pc = pc]
      /\ \A d \in Worker \ {c} : w'[d] = w[d]
  BY DEF WorkInv
<1>3. ASSUME NEW x \in Work, NEW y, y = [x EXCEPT !.pins = n, !.pc = pc]
      PROVE  y.pc = pc /\ y.mail = x.mail /\ y.at = x.at /\ y.req = x.req
  <2>1. DOMAIN x = {"pc", "mail", "at", "req", "pins"}
    BY DEF Work
  <2>2. QED
    BY <1>3, <2>1
<1>4. QED
  BY <1>1, <1>2, <1>3

\* Who leaves is idle.
LEMMA LeaveDoes ==
  ASSUME WorkInv, NEW c \in Worker, Leave(c)
  PROVE  w'[c] = Idle /\ \A d \in Worker \ {c} : w'[d] = w[d]
  BY DEF Leave, WorkInv

Carrying == {"claim", "transfer", "charge", "detect", "provide", "refund"}
Serving  == {"detect", "provide", "refund"}
Asking   == {"greet", "next", "send", "topup"}

\* What most steps of worker c have in common: no request is made and no key taken, a
\* session keeps what is parked or loses it or has its memo added, and the worker
\* goes on with the request that it has, takes up the parked one, or has none.
Still(c) ==
  /\ UNCHANGED <<menu, parked, claimed, tries>>
  /\ \A d \in Worker \ {c} : w'[d] = w[d]
  /\ sess' \in [Account -> Req]
  /\ \A a \in Account : \/ sess'[a] = sess[a]
                        \/ sess'[a] = NoReq
                        \/ w[c].pc = "note" /\ sess'[a] = w[c].req
  /\ \/ w'[c] = Idle
     \/ /\ w'[c].mail = w[c].mail
        /\ w'[c].pc \notin {"transfer", "charge"}
        /\ \/ w'[c].at = w[c].at + 1
           \/ w'[c].at = w[c].at /\ (w'[c].pc \in Asking => w[c].pc \in Asking)
        /\ \/ w'[c].req = NoReq /\ w'[c].pc \notin Carrying
           \/ w'[c].req = sess[Session(c)] /\ w'[c].req # NoReq /\ w'[c].pc \in {"note", "claim"}
           \/ /\ w'[c].req = w[c].req /\ w'[c].pc \notin {"note", "claim"}
              /\ w'[c].pc \in Serving => w[c].pc \in Serving \cup {"charge"}

\* A session that is left alone or cleared keeps its type.
LEMMA SessionKept ==
  ASSUME WorkInv, NEW c \in Worker, w[c] # Idle,
         sess' = sess \/ sess' = [sess EXCEPT ![Session(c)] = NoReq]
  PROVE  /\ sess' \in [Account -> Req]
         /\ \A a \in Account : sess'[a] = sess[a] \/ sess'[a] = NoReq
<1>1. NoReq \in Req /\ sess \in [Account -> Req]
  BY Posted DEF WorkInv
<1>2. QED
  BY <1>1

\* The ways in which a worker may turn to a step without taking a request up.
Turns(c) ==
  \/ Leave(c) \/ Onward(c) \/ Finish(c)
  \/ \E pc \in Label \ {"note", "claim", "transfer", "charge"} :
        /\ Go(c, pc)
        /\ pc \in Asking => w[c].pc \in Asking
        /\ pc \in Serving => w[c].pc \in Serving \cup {"charge"}

\* A worker that turns so is still.
LEMMA TurnsStill ==
  ASSUME WorkInv, NEW c \in Worker, w[c] # Idle, Turns(c),
         sess' = sess \/ sess' = [sess EXCEPT ![Session(c)] = NoReq],
         UNCHANGED <<menu, parked, claimed, tries>>
  PROVE  Still(c)
<1>1. /\ sess' \in [Account -> Req]
      /\ \A a \in Account : sess'[a] = sess[a] \/ sess'[a] = NoReq
  BY SessionKept
<1>2. CASE Leave(c)
  BY <1>1, <1>2, LeaveDoes DEF Still
<1>3. CASE Onward(c)
  <2>1. "next" \notin Carrying /\ "next" \notin {"transfer", "charge"}
    BY DEF Carrying
  <2>2. QED
    BY <1>1, <1>3, <2>1, OnwardDoes DEF Still
<1>4. CASE Finish(c)
  <2>1. "answer" \notin Carrying /\ "answer" \notin {"transfer", "charge"} /\ "answer" \notin Asking
    BY DEF Carrying, Asking
  <2>2. QED
    BY <1>1, <1>4, <2>1, FinishDoes DEF Still
<1>5. ASSUME NEW pc \in Label \ {"note", "claim", "transfer", "charge"}, Go(c, pc),
             pc \in Asking => w[c].pc \in Asking,
             pc \in Serving => w[c].pc \in Serving \cup {"charge"}
      PROVE  Still(c)
  BY <1>1, <1>5, GoDoes DEF Still
<1>6. QED
  BY <1>2, <1>3, <1>4, <1>5 DEF Turns

\* So is one that takes up the request that is parked.
LEMMA TakesStill ==
  ASSUME WorkInv, NEW c \in Worker, w[c] # Idle, NEW pc \in {"note", "claim"},
         sess[Session(c)] # NoReq,
         w' = [w EXCEPT ![c].req = sess[Session(c)], ![c].pc = pc],
         sess' = sess, UNCHANGED <<menu, parked, claimed, tries>>
  PROVE  Still(c)
<1> DEFINE r == sess[Session(c)]
<1>1. w[c] \in Work /\ w' = [w EXCEPT ![c] = [w[c] EXCEPT !.req = r, !.pc = pc]]
  BY AtWork
<1>2. sess' \in [Account -> Req] /\ r # NoReq
  BY DEF WorkInv
<1> HIDE DEF r
<1>3. /\ w'[c] = [w[c] EXCEPT !.req = r, !.pc = pc]
      /\ \A d \in Worker \ {c} : w'[d] = w[d]
  BY <1>1 DEF WorkInv
<1>4. w'[c].pc = pc /\ w'[c].mail = w[c].mail /\ w'[c].at = w[c].at /\ w'[c].req = r
  BY <1>1, <1>3 DEF Work
<1>5. pc \notin {"transfer", "charge"} /\ pc \notin Asking
  BY DEF Asking
<1>6. QED
  BY <1>2, <1>3, <1>4, <1>5 DEF Still, r

\* The steps up to a payment are still, but for a request that is parked.
LEMMA StillRequest ==
  ASSUME WorkInv, NEW c \in Worker,
         \/ Greet(c) \/ Admit(c) \/ Answer(c) \/ Memo(c) \/ Note(c) \/ Confirm(c)
         \/ WrongPin(c) \/ NoDigits(c) \/ Cancel(c)
         \/ Ask(c) /\ UNCHANGED <<parked, sess>>
  PROVE  Still(c) /\ w[c] # Idle
<1>1. w[c] # Idle
  BY Posted DEF Greet, Admit, Answer, Memo, Note, Confirm, WrongPin, NoDigits, Cancel, Ask, At
<1>2. UNCHANGED <<menu, claimed, tries>>
  BY DEF Greet, Admit, Answer, Memo, Note, Confirm, WrongPin, NoDigits, Cancel, Ask
<1>3. CASE Greet(c)
  <2>1. Go(c, "next") /\ w[c].pc \in Asking /\ parked' = parked
        /\ sess' = [sess EXCEPT ![Session(c)] = NoReq]
    BY <1>3 DEF Greet, At, Asking
  <2>2. "next" \in Label \ {"note", "claim", "transfer", "charge"} /\ "next" \notin Serving
    BY DEF Label, Serving
  <2>3. Turns(c)
    BY <2>1, <2>2 DEF Turns
  <2>4. QED
    BY <1>1, <1>2, <2>1, <2>3, TurnsStill
<1>4. CASE Admit(c)
  <2>1. /\ Go(c, Command(c).op) \/ Leave(c)
        /\ w[c].pc = "next" /\ UNCHANGED <<parked, sess>> /\ w[c].at <= Len(Mail(c).cmds)
    BY <1>4 DEF Admit, At
  <2>2. Command(c) \in Commands
    <3>1. IsMail(Mail(c)) /\ w[c].at \in Nat \ {0}
      BY <1>1, AtWork
    <3>2. Mail(c).cmds \in Seq(Commands)
      BY <3>1 DEF IsMail, Commands
    <3>3. w[c].at \in DOMAIN Mail(c).cmds
      BY <2>1, <3>1, <3>2
    <3>4. QED
      BY <3>2, <3>3, Element DEF Command
  <2>3. /\ Command(c).op \in Label \ {"note", "claim", "transfer", "charge"}
        /\ Command(c).op \notin Serving
    BY <2>2 DEF Commands, Label, Serving
  <2>4. Turns(c)
    BY <2>1, <2>3 DEF Turns, Asking
  <2>5. QED
    BY <1>1, <1>2, <2>1, <2>4, TurnsStill
<1>5. CASE Answer(c)
  <2>1. Turns(c) /\ UNCHANGED <<parked, sess>>
    BY <1>5 DEF Answer, Turns
  <2>2. QED
    BY <1>1, <1>2, <2>1, TurnsStill
<1>6. CASE Memo(c)
  <2>1. UNCHANGED <<parked, sess>>
    BY <1>6 DEF Memo
  <2>2. CASE Onward(c)
    BY <1>1, <1>2, <2>1, <2>2, TurnsStill DEF Turns
  <2>3. CASE /\ sess[Session(c)].op = "send"
             /\ w' = [w EXCEPT ![c].req = sess[Session(c)], ![c].pc = "note"]
    <3>1. sess[Session(c)] # NoReq
      BY <2>3 DEF NoReq
    <3>2. QED
      BY <1>1, <1>2, <2>1, <2>3, <3>1, TakesStill
  <2>4. QED
    BY <1>6, <2>2, <2>3 DEF Memo
<1>7. CASE Note(c)
  <2>1. /\ parked' = parked /\ w[c].pc = "note" /\ Onward(c)
        /\ sess' = [sess EXCEPT ![Session(c)] = w[c].req]
    BY <1>7 DEF Note, At
  <2>2. w[c].req \in Req /\ sess \in [Account -> Req]
    BY <1>1, AtWork DEF WorkInv
  <2>3. /\ sess' \in [Account -> Req]
        /\ \A a \in Account : sess'[a] = sess[a] \/ sess'[a] = w[c].req
    BY <2>1, <2>2
  <2>4. "next" \notin Carrying /\ "next" \notin {"transfer", "charge"}
    BY DEF Carrying
  <2>5. QED
    BY <1>1, <1>2, <2>1, <2>3, <2>4, OnwardDoes DEF Still
<1>8. CASE Confirm(c)
  <2>1. UNCHANGED <<parked, sess>>
    BY <1>8 DEF Confirm
  <2>2. CASE Onward(c)
    BY <1>1, <1>2, <2>1, <2>2, TurnsStill DEF Turns
  <2>3. CASE /\ sess[Session(c)] # NoReq
             /\ w' = [w EXCEPT ![c].req = sess[Session(c)], ![c].pc = "claim"]
    BY <1>1, <1>2, <2>1, <2>3, TakesStill
  <2>4. QED
    BY <1>8, <2>2, <2>3 DEF Confirm
<1>9. CASE WrongPin(c)
  <2>1. /\ parked' = parked
        /\ sess' = sess \/ sess' = [sess EXCEPT ![Session(c)] = NoReq]
    BY <1>9 DEF WrongPin
  <2>2. CASE Onward(c)
    BY <1>1, <1>2, <1>9, <2>1, <2>2, TurnsStill DEF Turns, WrongPin
  <2>3. CASE /\ sess' = sess
             /\ w' = [w EXCEPT ![c].pins = @ + 1,
                               ![c].pc = IF w[c].pins = 0 THEN "confirm" ELSE "cancel"]
    <3> DEFINE pc == IF w[c].pins = 0 THEN "confirm" ELSE "cancel"
               n == w[c].pins + 1
    <3>1. pc \notin Carrying \cup Asking \cup Serving \cup {"transfer", "charge", "note", "claim"}
      BY DEF Carrying, Asking, Serving
    <3>2. w' = [w EXCEPT ![c] = [w[c] EXCEPT !.pins = n, !.pc = pc]] /\ w[c] \in Work
      BY <1>1, <2>3, AtWork
    <3> HIDE DEF pc, n
    <3>3. /\ \A d \in Worker \ {c} : w'[d] = w[d]
          /\ w'[c].pc = pc /\ w'[c].mail = w[c].mail /\ w'[c].at = w[c].at /\ w'[c].req = w[c].req
      BY <1>1, <3>2, PinDoes
    <3>4. sess' \in [Account -> Req] /\ \A a \in Account : sess'[a] = sess[a]
      BY <2>3 DEF WorkInv
    <3>5. parked' = parked
      BY <2>1
    <3>6. QED
      BY <1>1, <1>2, <3>1, <3>3, <3>4, <3>5 DEF Still
  <2>4. QED
    BY <1>9, <2>2, <2>3 DEF WrongPin
<1>10. CASE NoDigits(c) \/ Cancel(c)
  <2>1. /\ parked' = parked
        /\ sess' = sess \/ sess' = [sess EXCEPT ![Session(c)] = NoReq]
    BY <1>10 DEF NoDigits, Cancel
  <2>2. Go(c, "cancel") \/ Onward(c)
    BY <1>10 DEF NoDigits, Cancel
  <2>3. /\ "cancel" \in Label \ {"note", "claim", "transfer", "charge"}
        /\ "cancel" \notin Asking /\ "cancel" \notin Serving
    BY DEF Label, Asking, Serving
  <2>4. Turns(c)
    BY <2>2, <2>3 DEF Turns
  <2>5. QED
    BY <1>1, <1>2, <1>10, <2>1, <2>4, TurnsStill DEF NoDigits, Cancel
<1>11. CASE Ask(c) /\ UNCHANGED <<parked, sess>>
  <2>1. parked \in Nat
    BY DEF WorkInv
  <2>2. Onward(c) \/ Finish(c)
    BY <1>11, <2>1 DEF Ask
  <2>3. QED
    BY <1>1, <1>2, <1>11, <2>2, TurnsStill DEF Turns
<1>12. QED
  BY <1>1, <1>3, <1>4, <1>5, <1>6, <1>7, <1>8, <1>9, <1>10, <1>11

\* So are the steps of a payment, but for the one that takes the key.
LEMMA StillExecute ==
  ASSUME WorkInv, NEW c \in Worker,
         \/ ClaimKey(c) /\ w[c].req.key \in claimed
         \/ Transfer(c) \/ Charge(c) \/ GetToken(c) \/ Detect(c) \/ Provide(c)
         \/ Refund(c) \/ Clear(c)
  PROVE  Still(c) /\ w[c] # Idle
<1>1. w[c] # Idle
  BY Posted DEF ClaimKey, Transfer, Charge, GetToken, Detect, Provide, Refund, Clear, At
<1>2. /\ UNCHANGED <<menu, parked, tries>>
      /\ sess' = sess \/ sess' = [sess EXCEPT ![Session(c)] = NoReq]
  BY DEF ClaimKey, Transfer, Charge, GetToken, Detect, Provide, Refund, Clear
<1>3. claimed' = claimed
  BY DEF ClaimKey, Transfer, Charge, GetToken, Detect, Provide, Refund, Clear
<1>4. CASE Turns(c)
  BY <1>1, <1>2, <1>3, <1>4, TurnsStill
<1>5. CASE GetToken(c) /\ UNCHANGED w
  <2>1. w[c].pc \in {"detect", "provide"} /\ \A d \in Worker : w'[d] = w[d]
    BY <1>5 DEF GetToken
  <2>2. w[c].pc \notin {"transfer", "charge", "note", "claim"} /\ w[c].pc \in Serving
    BY <2>1 DEF Serving
  <2>3. /\ sess' \in [Account -> Req]
        /\ \A a \in Account : sess'[a] = sess[a] \/ sess'[a] = NoReq
    BY <1>1, <1>2, SessionKept
  <2>4. QED
    BY <1>1, <1>2, <1>3, <2>1, <2>2, <2>3 DEF Still
<1>6. Turns(c) \/ (GetToken(c) /\ UNCHANGED w)
  <2>1. /\ {"clear", "detect", "refund", "provide"} \subseteq Label \ {"note", "claim", "transfer", "charge"}
        /\ "clear" \notin Asking \cup Serving
        /\ {"detect", "refund", "provide"} \cap Asking = {}
    BY DEF Label, Asking, Serving
  <2>2. CASE ClaimKey(c) /\ w[c].req.key \in claimed
    BY <2>2 DEF ClaimKey, Turns
  <2>3. CASE Transfer(c)
    <3>1. Go(c, "clear") \/ Onward(c)
      BY <2>3 DEF Transfer
    <3>2. QED
      BY <2>1, <3>1 DEF Turns
  <2>4. CASE Charge(c)
    <3>1. Go(c, "detect") \/ Onward(c)
      BY <2>4 DEF Charge
    <3>2. w[c].pc \in Serving \cup {"charge"}
      BY <2>4 DEF Charge, At
    <3>3. QED
      BY <2>1, <3>1, <3>2 DEF Turns
  <2>5. CASE GetToken(c)
    <3>1. UNCHANGED w \/ Go(c, "refund")
      BY <2>5 DEF GetToken
    <3>2. w[c].pc \in Serving \cup {"charge"}
      BY <2>5 DEF GetToken, Serving
    <3>3. QED
      BY <2>1, <2>5, <3>1, <3>2 DEF Turns
  <2>6. CASE Detect(c)
    <3>1. Go(c, "provide") \/ Go(c, "refund")
      BY <2>6 DEF Detect
    <3>2. w[c].pc \in Serving \cup {"charge"}
      BY <2>6 DEF Detect, At, Serving
    <3>3. QED
      BY <2>1, <3>1, <3>2 DEF Turns
  <2>7. CASE Provide(c)
    <3>1. Go(c, "clear") \/ Go(c, "refund")
      BY <2>7 DEF Provide
    <3>2. w[c].pc \in Serving \cup {"charge"}
      BY <2>7 DEF Provide, At, Serving
    <3>3. QED
      BY <2>1, <3>1, <3>2 DEF Turns
  <2>8. CASE Refund(c) \/ Clear(c)
    BY <2>8 DEF Refund, Clear, Turns
  <2>9. QED
    BY <2>2, <2>3, <2>4, <2>5, <2>6, <2>7, <2>8
<1>7. QED
  BY <1>1, <1>4, <1>5, <1>6

-----------------------------------------------------------------------------
(* Requests and keys.                                                       *)

\* A request has one of the keys given out, and names what a mail asks for.
ReqOK(r, given, airtime) ==
  /\ r = NoReq \/ (r.op \in {"send", "topup"} /\ r.id \in Id /\ r.key \in 1 .. given)
  /\ r.op = "topup" => r.id \in airtime

HandOK(x, given, airtime) ==
  /\ ReqOK(x.req, given, airtime)
  /\ x.pc \in Carrying => x.req # NoReq
  /\ x.pc \in Serving \cup {"charge"} => x.req.op = "topup"

KeyInv ==
  /\ claimed \subseteq 1 .. parked
  /\ \A a \in Account : ReqOK(sess[a], parked, Airtime)
  /\ \A c \in Worker : HandOK(w[c], parked, Airtime)

\* Nothing to do, and nothing parked, are well formed.
LEMMA IdleHand ==
  ASSUME NEW n, NEW s
  PROVE  ReqOK(NoReq, n, s) /\ HandOK(Idle, n, s) /\ NoReq.id = None /\ NoReq.op = "none"
<1>1. NoReq.op = "none" /\ NoReq.id = None
  BY DEF NoReq
<1>2. Idle.pc \notin Carrying \cup Serving \cup {"charge"}
  BY Posted DEF Carrying, Serving
<1>3. QED
  BY <1>1, <1>2, Posted DEF ReqOK, HandOK

\* More keys do no harm.
LEMMA MoreKeys ==
  ASSUME NEW n \in Nat, NEW m \in Nat, n <= m, NEW s
  PROVE  /\ \A r : ReqOK(r, n, s) => ReqOK(r, m, s)
         /\ \A x : HandOK(x, n, s) => HandOK(x, m, s)
  BY DEF ReqOK, HandOK

\* A still step keeps the keys.
LEMMA KeyStill ==
  ASSUME WorkInv, KeyInv, NEW c \in Worker, w[c] # Idle, Still(c)
  PROVE  KeyInv'
<1>1. parked' = parked /\ claimed' = claimed /\ Airtime' = Airtime
  BY DEF Still, Airtime, Mails
<1>2. \A d \in Worker : HandOK(w[d], parked, Airtime)
  BY DEF KeyInv
<1>3. \A a \in Account : ReqOK(sess'[a], parked, Airtime)
  <2>1. ReqOK(w[c].req, parked, Airtime)
    BY <1>2 DEF HandOK
  <2>2. \A a \in Account : ReqOK(sess[a], parked, Airtime)
    BY DEF KeyInv
  <2>3. QED
    BY <2>1, <2>2, IdleHand DEF Still
<1>4. HandOK(w'[c], parked, Airtime)
  <2>1. CASE w'[c] = Idle
    BY <2>1, IdleHand
  <2>2. CASE w'[c].req = NoReq /\ w'[c].pc \notin Carrying
    <3>1. w'[c].pc \notin Serving \cup {"charge"}
      BY <2>2 DEF Carrying, Serving
    <3>2. QED
      BY <2>2, <3>1, IdleHand DEF HandOK
  <2>3. CASE /\ w'[c].req = sess[Session(c)] /\ w'[c].req # NoReq
             /\ w'[c].pc \in {"note", "claim"}
    <3>1. ReqOK(sess[Session(c)], parked, Airtime)
      BY AtWork DEF KeyInv
    <3>2. w'[c].pc \notin Serving \cup {"charge"}
      BY <2>3 DEF Serving
    <3>3. QED
      BY <2>3, <3>1, <3>2 DEF HandOK
  <2>4. CASE /\ w'[c].req = w[c].req /\ w'[c].pc \notin {"note", "claim", "transfer", "charge"}
             /\ w'[c].pc \in Serving => w[c].pc \in Serving \cup {"charge"}
    <3>1. w'[c].pc \in Carrying => w'[c].pc \in Serving
      BY <2>4 DEF Carrying, Serving
    <3>2. w[c].pc \in Serving \cup {"charge"} => w[c].pc \in Carrying
      BY DEF Carrying, Serving
    <3>3. QED
      BY <1>2, <2>4, <3>1, <3>2 DEF HandOK
  <2>5. QED
    BY <2>1, <2>2, <2>3, <2>4 DEF Still
<1>5. \A d \in Worker : HandOK(w'[d], parked, Airtime)
  BY <1>2, <1>4 DEF Still
<1>6. QED
  BY <1>1, <1>3, <1>5 DEF KeyInv

\* A request that is parked has the next key, and its worker has asked for it.
LEMMA AskDoes ==
  ASSUME WorkInv, NEW c \in Worker, Ask(c), ~UNCHANGED <<parked, sess>>
  PROVE  /\ parked' = parked + 1 /\ w[c] # Idle
         /\ w[c].pc \in {"send", "topup"} /\ Command(c).op = w[c].pc /\ Command(c).id \in Id
         /\ sess' = [sess EXCEPT ![Session(c)] =
                       [op |-> w[c].pc, id |-> Command(c).id, key |-> parked + 1]]
         /\ \A d \in Worker \ {c} : w'[d] = w[d]
         /\ w'[c].mail = w[c].mail
         /\ \/ w'[c].pc = "memo" /\ w'[c].at = w[c].at /\ w'[c].req = w[c].req
            \/ w'[c].pc = "next" /\ w'[c].at = w[c].at + 1 /\ w'[c].req = NoReq
<1>1. w[c].pc \in {"send", "topup"}
  BY DEF Ask
<1>2. w[c] # Idle /\ Command(c).op = w[c].pc /\ Command(c).id \in Id
  BY <1>1, Asked
<1>3. /\ parked' = parked + 1
      /\ sess' = [sess EXCEPT ![Session(c)] =
                    [op |-> Command(c).op, id |-> Command(c).id, key |-> parked']]
      /\ Go(c, "memo") \/ Onward(c)
  BY DEF Ask
<1>4. /\ \A d \in Worker \ {c} : w'[d] = w[d]
      /\ w'[c].mail = w[c].mail
      /\ \/ w'[c].pc = "memo" /\ w'[c].at = w[c].at /\ w'[c].req = w[c].req
         \/ w'[c].pc = "next" /\ w'[c].at = w[c].at + 1 /\ w'[c].req = NoReq
  BY <1>2, <1>3, GoDoes, OnwardDoes
<1>5. QED
  BY <1>1, <1>2, <1>3, <1>4

\* A key that is taken has its request paid next.
LEMMA ClaimDoes ==
  ASSUME WorkInv, NEW c \in Worker, ClaimKey(c), w[c].req.key \notin claimed
  PROVE  /\ w[c] # Idle /\ w[c].pc = "claim" /\ claimed' = claimed \cup {w[c].req.key}
         /\ UNCHANGED <<menu, parked, sess, tries, paid>>
         /\ \A d \in Worker \ {c} : w'[d] = w[d]
         /\ w'[c].mail = w[c].mail /\ w'[c].at = w[c].at /\ w'[c].req = w[c].req
         /\ w'[c].pc = IF w[c].req.op = "topup" THEN "charge" ELSE "transfer"
<1>1. w[c] # Idle /\ w[c].pc = "claim"
  BY Posted DEF ClaimKey, At
<1>2. Go(c, IF w[c].req.op = "topup" THEN "charge" ELSE "transfer")
  BY DEF ClaimKey
<1>3. UNCHANGED <<menu, parked, sess, tries, paid>> /\ claimed' = claimed \cup {w[c].req.key}
  BY DEF ClaimKey, money
<1>4. QED
  BY <1>1, <1>2, <1>3, GoDoes

\* The start.
LEMMA KeyInit == Init => KeyInv
<1> SUFFICES ASSUME Init PROVE KeyInv
  OBVIOUS
<1>1. \A a \in Account : ReqOK(sess[a], parked, Airtime)
  BY IdleHand DEF Init
<1>2. \A c \in Worker : HandOK(w[c], parked, Airtime)
  BY IdleHand DEF Init
<1>3. QED
  BY <1>1, <1>2 DEF KeyInv, Init

\* What a mail asks airtime for is airtime.
LEMMA AsksAirtime ==
  ASSUME WorkInv, NEW c \in Worker, w[c].pc = "topup"
  PROVE  Command(c).id \in Airtime
<1>1. Command(c).op = "topup" /\ Command(c).id \in Id /\ w[c] # Idle
  BY Asked
<1>2. w[c].mail \in Mails /\ IsMail(Mail(c)) /\ Mail(c) = w[c].mail
  BY <1>1, AtWork DEF Mail
<1>3. w[c].at \in DOMAIN Mail(c).cmds /\ Mail(c).cmds \in Seq(Commands)
  BY <1>1, <1>2 DEF WorkInv, WorkOK, IsMail, Commands
<1>4. Command(c) \in Commands
  BY <1>3, Element DEF Command
<1>5. Command(c) = [op |-> "topup", id |-> Command(c).id]
  BY <1>1, <1>4 DEF Commands
<1>6. Command(c) \in Range(Mail(c).cmds)
  BY <1>3 DEF Command, Range
<1>7. QED
  BY <1>1, <1>2, <1>5, <1>6 DEF Airtime

\* A request that is parked keeps the keys.
LEMMA KeyAsk ==
  ASSUME WorkInv, KeyInv, NEW c \in Worker, Ask(c), ~UNCHANGED <<parked, sess>>
  PROVE  KeyInv'
<1> DEFINE r == [op |-> w[c].pc, id |-> Command(c).id, key |-> parked + 1]
<1>1. /\ parked' = parked + 1 /\ w[c] # Idle /\ w[c].pc \in {"send", "topup"}
      /\ Command(c).id \in Id /\ sess' = [sess EXCEPT ![Session(c)] = r]
      /\ \A d \in Worker \ {c} : w'[d] = w[d]
      /\ \/ w'[c].pc = "memo" /\ w'[c].req = w[c].req
         \/ w'[c].pc = "next" /\ w'[c].req = NoReq
  BY AskDoes
<1>2. claimed' = claimed /\ Airtime' = Airtime
  BY DEF Ask, Airtime, Mails
<1>3. parked \in Nat /\ sess \in [Account -> Req]
  BY DEF WorkInv
<1>4. w[c].pc = "topup" => Command(c).id \in Airtime
  BY AsksAirtime
<1>5. ReqOK(r, parked + 1, Airtime)
  BY <1>1, <1>3, <1>4 DEF ReqOK
<1> HIDE DEF r
<1>6. \A a \in Account : sess'[a] = sess[a] \/ sess'[a] = r
  BY <1>1, <1>3
<1>7. \A a \in Account : ReqOK(sess[a], parked + 1, Airtime)
  BY <1>3, MoreKeys DEF KeyInv
<1>8. \A d \in Worker : HandOK(w[d], parked + 1, Airtime)
  BY <1>3, MoreKeys DEF KeyInv
<1>9. HandOK(w'[c], parked + 1, Airtime)
  <2>1. w'[c].pc \notin Carrying \cup Serving \cup {"charge"}
    BY <1>1 DEF Carrying, Serving
  <2>2. ReqOK(w'[c].req, parked + 1, Airtime)
    BY <1>1, <1>8, IdleHand DEF HandOK
  <2>3. QED
    BY <2>1, <2>2 DEF HandOK
<1>10. \A a \in Account : ReqOK(sess'[a], parked', Airtime)
  BY <1>1, <1>5, <1>6, <1>7
<1>11. \A d \in Worker : HandOK(w'[d], parked', Airtime)
  BY <1>1, <1>8, <1>9
<1>12. claimed' \subseteq 1 .. parked'
  BY <1>1, <1>2, <1>3 DEF KeyInv
<1>13. QED
  BY <1>2, <1>10, <1>11, <1>12 DEF KeyInv

\* A key that is taken was given out.
LEMMA KeyClaim ==
  ASSUME WorkInv, KeyInv, NEW c \in Worker, ClaimKey(c), w[c].req.key \notin claimed
  PROVE  KeyInv'
<1>1. /\ w[c].pc = "claim" /\ claimed' = claimed \cup {w[c].req.key}
      /\ UNCHANGED <<menu, parked, sess>>
      /\ \A d \in Worker \ {c} : w'[d] = w[d]
      /\ w'[c].req = w[c].req
      /\ w'[c].pc = IF w[c].req.op = "topup" THEN "charge" ELSE "transfer"
  BY ClaimDoes
<1>2. HandOK(w[c], parked, Airtime) /\ Airtime' = Airtime
  BY <1>1 DEF KeyInv, Airtime, Mails
<1>3. w[c].req # NoReq /\ w[c].req.key \in 1 .. parked
  BY <1>1, <1>2 DEF HandOK, Carrying, ReqOK
<1>4. HandOK(w'[c], parked, Airtime)
  <2>1. w'[c].pc \in Serving \cup {"charge"} => w'[c].req.op = "topup"
    BY <1>1 DEF Serving
  <2>2. QED
    BY <1>1, <1>2, <1>3, <2>1 DEF HandOK
<1>5. \A d \in Worker : HandOK(w'[d], parked, Airtime)
  BY <1>1, <1>4 DEF KeyInv
<1>6. QED
  BY <1>1, <1>2, <1>3, <1>5 DEF KeyInv

\* A mail that begins: its worker had nothing, and has no request yet.
LEMMA BeginsAnew ==
  ASSUME WorkInv, NEW c \in Worker, NEW m \in Mails, NEW pc \in {"next", "greet"},
         Begin(c, m, pc)
  PROVE  /\ w[c] = Idle /\ \A d \in Worker \ {c} : w'[d] = w[d]
         /\ w'[c].pc = pc /\ w'[c].mail = m /\ w'[c].at = 1 /\ w'[c].req = NoReq
         /\ UNCHANGED <<menu, sess, parked, claimed, paid, aired, till, unheard, token>>
         /\ tries' = [tries EXCEPT ![m] = @ + 1]
<1>1. /\ w[c].pc = "idle"
      /\ w' = [w EXCEPT ![c] = [pc |-> pc, mail |-> m, at |-> 1, req |-> NoReq, pins |-> 0]]
  BY BeginDoes
<1>2. w[c] = Idle
  BY <1>1, Posted DEF WorkInv, WorkOK
<1>3. /\ w'[c] = [pc |-> pc, mail |-> m, at |-> 1, req |-> NoReq, pins |-> 0]
      /\ \A d \in Worker \ {c} : w'[d] = w[d]
  BY <1>1 DEF WorkInv
<1>4. /\ UNCHANGED <<menu, sess, parked, claimed, paid, aired, till, unheard, token>>
      /\ tries' = [tries EXCEPT ![m] = @ + 1]
  BY DEF Begin, money
<1>5. QED
  BY <1>2, <1>3, <1>4

\* What a step can be, for the requests, the keys and the money.
LEMMA Kinds ==
  ASSUME [Next]_vars
  PROVE  \/ UNCHANGED <<menu, w, sess, parked, claimed, paid, aired, till, unheard, tries>>
         \/ Crash
         \/ \E c \in Worker, m \in Mails : Post(c, m) \/ Call(c, m)
         \/ \E c \in Worker : \/ Greet(c) \/ Admit(c) \/ Answer(c) \/ Memo(c) \/ Note(c)
                              \/ Confirm(c) \/ WrongPin(c) \/ NoDigits(c) \/ Cancel(c)
                              \/ Ask(c) \/ ClaimKey(c) \/ Transfer(c) \/ Charge(c)
                              \/ GetToken(c) \/ Detect(c) \/ Provide(c) \/ Refund(c) \/ Clear(c)
<1>1. CASE UNCHANGED vars
  BY <1>1 DEF vars, money
<1>2. CASE Tick \/ TokenEnds
  BY <1>2 DEF Tick, TokenEnds, money
<1>3. CASE Next /\ ~Tick /\ ~TokenEnds
  BY <1>3 DEF Next, Request, Execute
<1>4. QED
  BY <1>1, <1>2, <1>3

\* Every step keeps the keys.
LEMMA KeyStep ==
  ASSUME WorkInv, KeyInv, [Next]_vars
  PROVE  KeyInv'
<1>1. CASE UNCHANGED <<menu, w, sess, parked, claimed, paid, aired, till, unheard, tries>>
  BY <1>1 DEF KeyInv, Airtime, Mails
<1>2. CASE Crash
  <2>1. UNCHANGED <<menu, sess, parked, claimed>> /\ w' = [c \in Worker |-> Idle]
    BY <1>2 DEF Crash
  <2>2. \A c \in Worker : HandOK(w'[c], parked, Airtime)
    BY <2>1, IdleHand
  <2>3. QED
    BY <2>1, <2>2 DEF KeyInv, Airtime, Mails
<1>3. ASSUME NEW c \in Worker, NEW m \in Mails, Post(c, m) \/ Call(c, m)
      PROVE  KeyInv'
  <2>1. PICK pc \in {"next", "greet"} : Begin(c, m, pc)
    BY <1>3 DEF Post, Call
  <2>2. /\ \A d \in Worker \ {c} : w'[d] = w[d]
        /\ w'[c].pc = pc /\ w'[c].req = NoReq
        /\ UNCHANGED <<menu, sess, parked, claimed>>
    BY <2>1, BeginsAnew
  <2>3. HandOK(w'[c], parked, Airtime)
    <3>1. pc \notin Carrying \cup Serving \cup {"charge"}
      BY DEF Carrying, Serving
    <3>2. QED
      BY <2>2, <3>1, IdleHand DEF HandOK
  <2>4. \A d \in Worker : HandOK(w'[d], parked, Airtime)
    BY <2>2, <2>3 DEF KeyInv
  <2>5. QED
    BY <2>2, <2>4 DEF KeyInv, Airtime, Mails
<1>4. ASSUME NEW c \in Worker,
             \/ Greet(c) \/ Admit(c) \/ Answer(c) \/ Memo(c) \/ Note(c)
             \/ Confirm(c) \/ WrongPin(c) \/ NoDigits(c) \/ Cancel(c)
             \/ Ask(c) /\ UNCHANGED <<parked, sess>>
      PROVE  KeyInv'
  BY <1>4, StillRequest, KeyStill
<1>5. ASSUME NEW c \in Worker,
             \/ ClaimKey(c) /\ w[c].req.key \in claimed
             \/ Transfer(c) \/ Charge(c) \/ GetToken(c) \/ Detect(c) \/ Provide(c)
             \/ Refund(c) \/ Clear(c)
      PROVE  KeyInv'
  BY <1>5, StillExecute, KeyStill
<1>6. QED
  BY <1>1, <1>2, <1>3, <1>4, <1>5, Kinds, KeyAsk, KeyClaim

-----------------------------------------------------------------------------
(* Airtime and what is paid for it.                                         *)

\* Who has airtime to order or to refund, and for which intention.
Servers   == {c \in Worker : w[c].pc \in Serving}
Server(i) == {c \in Worker : w[c].pc \in Serving /\ w[c].req.id = i}

\* An intention for which a worker still has airtime to order or to refund is paid.
ServeInv ==
  /\ paid \in [Id -> Nat]
  /\ \A i \in Id : Cardinality(Server(i)) <= paid[i]

\* So is airtime that was delivered.
AirInv ==
  /\ aired \in Nat /\ unheard \in 0 .. aired /\ till \in Nat
  /\ aired - unheard + Cardinality(Servers) <= SumFunctionOnSet(paid, Airtime)

One(b) == IF b THEN 1 ELSE 0

\* A set in which only c may come or go.
LEMMA CountMoves ==
  ASSUME NEW S, IsFiniteSet(S), NEW T, NEW c, T \ {c} = S \ {c}
  PROVE  /\ IsFiniteSet(T) /\ Cardinality(S) \in Nat /\ Cardinality(T) \in Nat
         /\ Cardinality(T) = Cardinality(S) - One(c \in S) + One(c \in T)
<1>1. IsFiniteSet(S \ {c}) /\ Cardinality(S \ {c}) = Cardinality(S) - One(c \in S)
  <2>1. Cardinality(S) \in Nat
    BY FS_CardinalityType
  <2>2. /\ IsFiniteSet(S \ {c})
        /\ Cardinality(S \ {c}) = IF c \in S THEN Cardinality(S) - 1 ELSE Cardinality(S)
    BY FS_RemoveElement
  <2>3. QED
    BY <2>1, <2>2 DEF One
<1>2. IsFiniteSet(T)
  <2>1. T \subseteq (S \ {c}) \cup {c} /\ IsFiniteSet((S \ {c}) \cup {c})
    BY <1>1, FS_AddElement
  <2>2. QED
    BY <2>1, FS_Subset
<1>3. Cardinality(T \ {c}) = Cardinality(T) - One(c \in T)
  <2>1. Cardinality(T) \in Nat
    BY <1>2, FS_CardinalityType
  <2>2. Cardinality(T \ {c}) = IF c \in T THEN Cardinality(T) - 1 ELSE Cardinality(T)
    BY <1>2, FS_RemoveElement
  <2>3. QED
    BY <2>1, <2>2 DEF One
<1>4. Cardinality(S) \in Nat /\ Cardinality(T) \in Nat
  BY <1>2, FS_CardinalityType
<1>5. QED
  BY <1>1, <1>2, <1>3, <1>4 DEF One

\* They are workers.
LEMMA ServersFinite ==
  /\ IsFiniteSet(Servers) /\ Cardinality(Servers) \in Nat
  /\ \A i : IsFiniteSet(Server(i)) /\ Cardinality(Server(i)) \in Nat
<1>1. IsFiniteSet(Servers) /\ \A i : IsFiniteSet(Server(i))
  BY FS_Subset, IngressAssumption DEF Servers, Server
<1>2. QED
  BY <1>1, FS_CardinalityType

\* What worker c has to do with airtime for i, and with airtime.
On(x, i) == One(x.pc \in Serving /\ x.req.id = i)
Busy(x)  == One(x.pc \in Serving)

\* A step of c counts by what it was and what it is at.
LEMMA ServersMove ==
  ASSUME NEW c \in Worker, \A d \in Worker \ {c} : w'[d] = w[d]
  PROVE  /\ Cardinality(Servers)' \in Nat
         /\ Cardinality(Servers)' = Cardinality(Servers) - Busy(w[c]) + Busy(w'[c])
         /\ \A i : /\ Cardinality(Server(i))' \in Nat
                   /\ Cardinality(Server(i))' = Cardinality(Server(i)) - On(w[c], i) + On(w'[c], i)
<1>1. Servers' \ {c} = Servers \ {c} /\ \A i : Server(i)' \ {c} = Server(i) \ {c}
  BY DEF Servers, Server
<1>2. /\ (c \in Servers <=> w[c].pc \in Serving)
      /\ (c \in Servers' <=> w'[c].pc \in Serving)
      /\ \A i : /\ c \in Server(i) <=> w[c].pc \in Serving /\ w[c].req.id = i
                /\ c \in Server(i)' <=> w'[c].pc \in Serving /\ w'[c].req.id = i
  BY DEF Servers, Server
<1>3. /\ Cardinality(Servers') \in Nat
      /\ Cardinality(Servers') = Cardinality(Servers) - One(c \in Servers) + One(c \in Servers')
  BY <1>1, ServersFinite, CountMoves
<1>4. ASSUME NEW i
      PROVE  /\ Cardinality(Server(i)') \in Nat
             /\ Cardinality(Server(i)') =
                  Cardinality(Server(i)) - One(c \in Server(i)) + One(c \in Server(i)')
  BY <1>1, ServersFinite, CountMoves
<1>5. /\ One(c \in Servers) = Busy(w[c]) /\ One(c \in Servers') = Busy(w'[c])
      /\ \A i : One(c \in Server(i)) = On(w[c], i) /\ One(c \in Server(i)') = On(w'[c], i)
  BY <1>2 DEF Busy, On, One
<1>6. QED
  BY <1>3, <1>4, <1>5

\* An intention is paid again for each worker that comes to have airtime to order.
LEMMA ServeMoves ==
  ASSUME ServeInv, NEW c \in Worker, \A d \in Worker \ {c} : w'[d] = w[d],
         paid' \in [Id -> Int],
         \A i \in Id : On(w'[c], i) - On(w[c], i) <= paid'[i] - paid[i]
  PROVE  ServeInv'
<1>1. ASSUME NEW i \in Id
      PROVE  Cardinality(Server(i))' <= paid'[i] /\ paid'[i] \in Nat
  <2>1. /\ Cardinality(Server(i))' \in Nat /\ Cardinality(Server(i)) \in Nat
        /\ Cardinality(Server(i))' = Cardinality(Server(i)) - On(w[c], i) + On(w'[c], i)
    BY ServersMove, ServersFinite
  <2>2. Cardinality(Server(i)) <= paid[i] /\ paid[i] \in Nat /\ paid'[i] \in Int
    BY DEF ServeInv
  <2>3. On(w'[c], i) \in Int /\ On(w[c], i) \in Int
    BY DEF On, One
  <2>4. QED
    BY <2>1, <2>2, <2>3
<1>2. paid' \in [Id -> Nat]
  BY <1>1
<1>3. QED
  BY <1>1, <1>2 DEF ServeInv

\* What is paid for airtime grows with the airtime and with who has some to order.
LEMMA AirMoves ==
  ASSUME AirInv, NEW c \in Worker, \A d \in Worker \ {c} : w'[d] = w[d],
         aired' \in Nat, unheard' \in 0 .. aired', till' \in Nat,
         SumFunctionOnSet(paid, Airtime) \in Int, SumFunctionOnSet(paid, Airtime)' \in Int,
         (aired' - unheard') - (aired - unheard) + Busy(w'[c]) - Busy(w[c])
           <= SumFunctionOnSet(paid, Airtime)' - SumFunctionOnSet(paid, Airtime)
  PROVE  AirInv'
<1>1. /\ Cardinality(Servers)' \in Nat /\ Cardinality(Servers) \in Nat
      /\ Cardinality(Servers)' = Cardinality(Servers) - Busy(w[c]) + Busy(w'[c])
  BY ServersMove, ServersFinite
<1>2. Busy(w[c]) \in Int /\ Busy(w'[c]) \in Int
  BY DEF Busy, One
<1>3. aired - unheard + Cardinality(Servers) <= SumFunctionOnSet(paid, Airtime)
      /\ aired \in Nat /\ unheard \in Int
  BY DEF AirInv
<1>4. aired' - unheard' + Cardinality(Servers)' <= SumFunctionOnSet(paid, Airtime)'
  BY <1>1, <1>2, <1>3
<1>5. QED
  BY <1>4 DEF AirInv

\* The sum of what is paid for airtime, and where nothing is paid.
LEMMA PaidForAirtime ==
  ASSUME paid \in [Id -> Nat], menu' = menu
  PROVE  /\ SumFunctionOnSet(paid, Airtime) \in Nat
         /\ paid' = paid => SumFunctionOnSet(paid, Airtime)' = SumFunctionOnSet(paid, Airtime)
<1>1. IsFiniteSet(Airtime) /\ Airtime \subseteq Id /\ Airtime' = Airtime
  BY FS_Subset, IngressAssumption DEF Airtime, Mails
<1>2. SumFunctionOnSet(paid, Airtime) \in Nat
  BY <1>1, SumIsNat
<1>3. QED
  BY <1>1, <1>2

\* The sum of what is paid for airtime, when one payment changes.
LEMMA PaymentMoves ==
  ASSUME paid \in [Id -> Nat], menu' = menu, NEW i \in Id, NEW n \in Int,
         paid' = [paid EXCEPT ![i] = @ + n]
  PROVE  /\ paid' \in [Id -> Int] /\ paid'[i] = paid[i] + n
         /\ \A j \in Id \ {i} : paid'[j] = paid[j]
         /\ SumFunctionOnSet(paid, Airtime)' \in Int
         /\ i \in Airtime =>
              SumFunctionOnSet(paid, Airtime)' = SumFunctionOnSet(paid, Airtime) + n
         /\ i \notin Airtime =>
              SumFunctionOnSet(paid, Airtime)' = SumFunctionOnSet(paid, Airtime)
<1>1. IsFiniteSet(Airtime) /\ Airtime \subseteq Id /\ Airtime' = Airtime
  BY FS_Subset, IngressAssumption DEF Airtime, Mails
<1>2. paid \in [Id -> Int] /\ SumFunctionOnSet(paid, Airtime) \in Int
  BY <1>1, PaidForAirtime
<1>3. /\ paid' \in [Id -> Int] /\ paid'[i] = paid[i] + n
      /\ \A j \in Id \ {i} : paid'[j] = paid[j]
  OBVIOUS
<1>4. Moved(Airtime, paid, paid', i, n)
  BY <1>1, <1>2, <1>3 DEF Moved
<1>5. SumFunctionOnSet(paid', Airtime) =
        IF i \in Airtime THEN SumFunctionOnSet(paid, Airtime) + n
        ELSE SumFunctionOnSet(paid, Airtime)
  BY <1>4, SumMoves
<1>6. QED
  BY <1>1, <1>2, <1>3, <1>5

\* Where no money moves nobody comes to have airtime to order.
LEMMA SameMoney ==
  ASSUME ServeInv, AirInv, NEW c \in Worker, \A d \in Worker \ {c} : w'[d] = w[d],
         UNCHANGED <<menu, paid, aired, till, unheard>>,
         w'[c].pc \in Serving => w[c].pc \in Serving /\ w'[c].req = w[c].req
  PROVE  ServeInv' /\ AirInv'
<1>1. \A i : On(w'[c], i) <= On(w[c], i) /\ On(w'[c], i) \in Int /\ On(w[c], i) \in Int
  BY DEF On, One
<1>2. Busy(w'[c]) <= Busy(w[c]) /\ Busy(w'[c]) \in Int /\ Busy(w[c]) \in Int
  BY DEF Busy, One
<1>3. paid \in [Id -> Nat] /\ aired \in Nat /\ unheard \in 0 .. aired /\ till \in Nat
  BY DEF ServeInv, AirInv
<1>4. ServeInv'
  <2>1. paid' \in [Id -> Int] /\ \A i \in Id : On(w'[c], i) - On(w[c], i) <= paid'[i] - paid[i]
    BY <1>1, <1>3
  <2>2. QED
    BY <2>1, ServeMoves
<1>5. AirInv'
  <2>1. /\ SumFunctionOnSet(paid, Airtime) \in Int
        /\ SumFunctionOnSet(paid, Airtime)' = SumFunctionOnSet(paid, Airtime)
    BY <1>3, PaidForAirtime
  <2>2. (aired' - unheard') - (aired - unheard) + Busy(w'[c]) - Busy(w[c])
          <= SumFunctionOnSet(paid, Airtime)' - SumFunctionOnSet(paid, Airtime)
    BY <1>2, <1>3, <2>1
  <2>3. aired' \in Nat /\ unheard' \in 0 .. aired' /\ till' \in Nat
        /\ SumFunctionOnSet(paid, Airtime)' \in Int
    BY <1>3, <2>1
  <2>4. QED
    BY <2>1, <2>2, <2>3, AirMoves
<1>6. QED
  BY <1>4, <1>5

\* Worker c pays n times (a refund is -1) for i, which is what it carries; if it has
\* to do with airtime, that is airtime.
Pays(c, i, n) ==
  /\ \A d \in Worker \ {c} : w'[d] = w[d]
  /\ menu' = menu /\ i \in Id /\ n \in Int
  /\ paid' = [paid EXCEPT ![i] = @ + n]
  /\ w[c].req.id = i
  /\ w'[c].pc \in Serving => w'[c].req.id = i
  /\ Busy(w'[c]) - Busy(w[c]) <= n
  /\ UNCHANGED <<aired, unheard>> /\ till' \in Nat
  /\ i \in Airtime \/ (Busy(w'[c]) = 0 /\ Busy(w[c]) = 0)

\* A payment, or a refund, changes the sums as it should.
LEMMA MoneyMoves ==
  ASSUME ServeInv, AirInv, NEW c \in Worker, NEW i, NEW n, Pays(c, i, n)
  PROVE  ServeInv' /\ AirInv'
<1>0. /\ \A d \in Worker \ {c} : w'[d] = w[d]
      /\ menu' = menu /\ i \in Id /\ n \in Int
      /\ paid' = [paid EXCEPT ![i] = @ + n]
      /\ w[c].req.id = i
      /\ w'[c].pc \in Serving => w'[c].req.id = i
      /\ Busy(w'[c]) - Busy(w[c]) <= n
      /\ UNCHANGED <<aired, unheard>> /\ till' \in Nat
      /\ i \in Airtime \/ (Busy(w'[c]) = 0 /\ Busy(w[c]) = 0)
  BY DEF Pays
<1>1. /\ paid \in [Id -> Nat] /\ aired \in Nat /\ unheard \in 0 .. aired
      /\ Busy(w'[c]) \in Int /\ Busy(w[c]) \in Int
  BY DEF ServeInv, AirInv, Busy, One
<1>2. /\ paid' \in [Id -> Int] /\ paid'[i] = paid[i] + n
      /\ \A j \in Id \ {i} : paid'[j] = paid[j]
      /\ SumFunctionOnSet(paid, Airtime) \in Int /\ SumFunctionOnSet(paid, Airtime)' \in Int
      /\ i \in Airtime => SumFunctionOnSet(paid, Airtime)' = SumFunctionOnSet(paid, Airtime) + n
      /\ i \notin Airtime => SumFunctionOnSet(paid, Airtime)' = SumFunctionOnSet(paid, Airtime)
  <2>1. SumFunctionOnSet(paid, Airtime) \in Int
    BY <1>0, <1>1, PaidForAirtime
  <2>2. QED
    BY <1>0, <1>1, <2>1, PaymentMoves
<1>3. ServeInv'
  <2>1. /\ On(w'[c], i) = Busy(w'[c]) /\ On(w[c], i) = Busy(w[c])
        /\ \A j \in Id \ {i} : On(w'[c], j) = 0 /\ On(w[c], j) = 0
    <3>1. /\ w[c].req.id = i
          /\ w'[c].pc \in Serving => w'[c].req.id = i
      BY <1>0
    <3>2. On(w'[c], i) = Busy(w'[c]) /\ On(w[c], i) = Busy(w[c])
      BY <3>1 DEF On, Busy
    <3>3. \A j \in Id \ {i} : On(w'[c], j) = 0 /\ On(w[c], j) = 0
      BY <3>1 DEF On, One
    <3>4. QED
      BY <3>2, <3>3
  <2>2. paid[i] \in Nat /\ \A j \in Id : paid[j] \in Nat
    BY <1>0, <1>1
  <2>3. On(w'[c], i) - On(w[c], i) <= paid'[i] - paid[i]
    BY <1>0, <1>1, <1>2, <2>1, <2>2
  <2>4. \A j \in Id \ {i} : On(w'[c], j) - On(w[c], j) <= paid'[j] - paid[j]
    BY <1>0, <1>2, <2>1, <2>2
  <2>5. QED
    BY <1>0, <1>2, <2>3, <2>4, ServeMoves
<1>4. AirInv'
  <2>1. (aired' - unheard') - (aired - unheard) + Busy(w'[c]) - Busy(w[c])
          <= SumFunctionOnSet(paid, Airtime)' - SumFunctionOnSet(paid, Airtime)
    <3>1. (aired' - unheard') - (aired - unheard) = 0
      BY <1>0, <1>1
    <3>2. CASE i \in Airtime
      BY <3>1, <3>2, <1>0, <1>1, <1>2
    <3>3. CASE i \notin Airtime
      BY <3>1, <3>3, <1>0, <1>1, <1>2
    <3>4. QED
      BY <3>2, <3>3
  <2>2. aired' \in Nat /\ unheard' \in 0 .. aired' /\ till' \in Nat
    BY <1>0, <1>1
  <2>3. QED
    BY <1>0, <1>2, <2>1, <2>2, AirMoves
<1>5. QED
  BY <1>3, <1>4

\* The start.
LEMMA AirInit == Init => ServeInv /\ AirInv
<1> SUFFICES ASSUME Init PROVE ServeInv /\ AirInv
  OBVIOUS
<1>1. /\ \A c \in Worker : w[c] = Idle
      /\ paid = [i \in Id |-> 0] /\ aired = 0 /\ unheard = 0 /\ till \in Nat
  BY MailsAssumption DEF Init
<1>2. Idle.pc \notin Serving
  BY Posted DEF Serving
<1>3. Servers = {} /\ \A i : Server(i) = {}
  BY <1>1, <1>2 DEF Servers, Server
<1>4. Cardinality(Servers) = 0 /\ \A i : Cardinality(Server(i)) = 0
  BY <1>3, FS_EmptySet
<1>5. SumFunctionOnSet(paid, Airtime) = 0
  <2>1. IsFiniteSet(Airtime) /\ \A i \in Airtime : paid[i] = 0
    BY <1>1, FS_Subset, IngressAssumption DEF Airtime
  <2>2. QED
    BY <2>1, SumOfZeros
<1>6. ServeInv
  BY <1>1, <1>4 DEF ServeInv
<1>7. AirInv
  BY <1>1, <1>4, <1>5 DEF AirInv
<1>8. QED
  BY <1>6, <1>7

\* The parts of a payment: what is paid, and what the worker is left with.
LEMMA TransferAir ==
  ASSUME WorkInv, KeyInv, ServeInv, AirInv, NEW c \in Worker, Transfer(c)
  PROVE  ServeInv' /\ AirInv'
<1>1. w[c].pc = "transfer" /\ w[c] # Idle /\ menu' = menu
      /\ UNCHANGED <<aired, unheard>>
  BY Posted DEF Transfer, At
<1>2. w[c].req # NoReq /\ w[c].req.id \in Id
  BY <1>1 DEF KeyInv, HandOK, ReqOK, Carrying
<1>3. Go(c, "clear") \/ Onward(c)
  BY DEF Transfer
<1>4. /\ \A d \in Worker \ {c} : w'[d] = w[d]
      /\ w'[c].pc \notin Serving /\ w[c].pc \notin Serving
  BY <1>1, <1>3, GoDoes, OnwardDoes DEF Serving
<1>5. CASE UNCHANGED <<paid, till>>
  BY <1>1, <1>4, <1>5, SameMoney
<1>6. CASE /\ Session(c) = Ops => till > 0
           /\ paid' = [paid EXCEPT ![w[c].req.id] = @ + 1]
           /\ till' = IF Session(c) = Ops THEN till - 1 ELSE till
  <2>1. Busy(w'[c]) = 0 /\ Busy(w[c]) = 0
    BY <1>4 DEF Busy, One
  <2>2. till' \in Nat
    BY <1>1, <1>6 DEF AirInv
  <2>3. Pays(c, w[c].req.id, 1)
    BY <1>1, <1>2, <1>4, <1>6, <2>1, <2>2 DEF Pays
  <2>4. QED
    BY <2>3, MoneyMoves
<1>7. QED
  BY <1>5, <1>6 DEF Transfer

\* Airtime is paid for before it is ordered.
LEMMA ChargeAir ==
  ASSUME WorkInv, KeyInv, ServeInv, AirInv, NEW c \in Worker, Charge(c)
  PROVE  ServeInv' /\ AirInv'
<1>1. w[c].pc = "charge" /\ w[c] # Idle /\ menu' = menu
      /\ UNCHANGED <<aired, unheard>>
  BY Posted DEF Charge, At
<1>2. w[c].req # NoReq /\ w[c].req.id \in Id /\ w[c].req.id \in Airtime
  BY <1>1 DEF KeyInv, HandOK, ReqOK, Carrying
<1>3. w[c].pc \notin Serving
  BY <1>1 DEF Serving
<1>4. CASE UNCHANGED <<paid, till>> /\ Onward(c)
  <2>1. \A d \in Worker \ {c} : w'[d] = w[d]
    BY <1>1, <1>4, OnwardDoes
  <2>2. w'[c].pc \notin Serving
    BY <1>1, <1>4, OnwardDoes DEF Serving
  <2>3. QED
    BY <1>1, <1>4, <2>1, <2>2, SameMoney
<1>5. CASE /\ Session(c) = Ops => till > 0
           /\ till' = IF Session(c) = Ops THEN till ELSE till + 1
           /\ paid' = [paid EXCEPT ![w[c].req.id] = @ + 1]
           /\ Go(c, "detect") \/ Onward(c)
  <2>1. /\ \A d \in Worker \ {c} : w'[d] = w[d]
        /\ w'[c].pc \in Serving => w'[c].req.id = w[c].req.id
    BY <1>1, <1>5, GoDoes, OnwardDoes DEF Serving
  <2>2. Busy(w'[c]) - Busy(w[c]) <= 1
    BY <1>3 DEF Busy, One
  <2>3. till' \in Nat
    BY <1>1, <1>5 DEF AirInv
  <2>4. Pays(c, w[c].req.id, 1)
    BY <1>1, <1>2, <1>5, <2>1, <2>2, <2>3 DEF Pays
  <2>5. QED
    BY <2>4, MoneyMoves
<1>6. QED
  BY <1>4, <1>5 DEF Charge

\* An order that is carried out, and heard of, is not refunded.
LEMMA ProvideAir ==
  ASSUME WorkInv, ServeInv, AirInv, NEW c \in Worker, Provide(c)
  PROVE  ServeInv' /\ AirInv'
<1>1. /\ w[c].pc = "provide" /\ w[c] # Idle /\ menu' = menu /\ UNCHANGED <<paid, till>>
      /\ w[c].pc \in Serving
  BY Posted DEF Provide, At, Serving
<1>2. Go(c, "clear") \/ Go(c, "refund")
  BY DEF Provide
<1>3. \A d \in Worker \ {c} : w'[d] = w[d] /\ w'[c].req = w[c].req
  BY <1>1, <1>2, GoDoes
<1>4. w'[c].req = w[c].req
  BY <1>1, <1>2, GoDoes
<1>5. CASE UNCHANGED <<aired, unheard>>
  BY <1>1, <1>3, <1>4, <1>5, SameMoney
<1>6. CASE /\ aired' = aired + 1
           /\ \/ unheard' = unheard /\ Go(c, "clear")
              \/ unheard' = unheard + 1 /\ Go(c, "refund")
  <2>1. /\ aired \in Nat /\ unheard \in 0 .. aired /\ till \in Nat
        /\ paid \in [Id -> Nat]
    BY DEF AirInv, ServeInv
  <2>2. aired' \in Nat /\ unheard' \in 0 .. aired' /\ till' \in Nat
    BY <1>1, <1>6, <2>1
  <2>3. (aired' - unheard') - (aired - unheard) + Busy(w'[c]) - Busy(w[c]) <= 0
    <3>1. Busy(w[c]) = 1
      BY <1>1 DEF Busy, One
    <3>2. CASE unheard' = unheard /\ Go(c, "clear")
      <4>1. Busy(w'[c]) = 0
        BY <3>2, <1>1, GoDoes DEF Busy, One, Serving
      <4>2. QED
        BY <1>6, <2>1, <3>1, <3>2, <4>1
    <3>3. CASE unheard' = unheard + 1
      <4>1. Busy(w'[c]) \in 0 .. 1
        BY DEF Busy, One
      <4>2. QED
        BY <1>6, <2>1, <3>1, <3>3, <4>1
    <3>4. QED
      BY <1>6, <3>2, <3>3
  <2>4. /\ SumFunctionOnSet(paid, Airtime) \in Int
        /\ SumFunctionOnSet(paid, Airtime)' = SumFunctionOnSet(paid, Airtime)
    BY <1>1, <2>1, PaidForAirtime
  <2>5. AirInv'
    <3>1. (aired' - unheard') - (aired - unheard) + Busy(w'[c]) - Busy(w[c])
            <= SumFunctionOnSet(paid, Airtime)' - SumFunctionOnSet(paid, Airtime)
      BY <2>3, <2>4
    <3>2. QED
      BY <1>3, <2>2, <2>4, <3>1, AirMoves
  <2>6. ServeInv'
    <3>1. /\ \A i : On(w'[c], i) <= On(w[c], i)
          /\ \A i : On(w'[c], i) \in Int /\ On(w[c], i) \in Int
      BY <1>1, <1>4 DEF On, One
    <3>2. paid' \in [Id -> Int] /\ \A i \in Id : On(w'[c], i) - On(w[c], i) <= paid'[i] - paid[i]
      BY <1>1, <2>1, <3>1
    <3>3. QED
      BY <1>3, <3>2, ServeMoves
  <2>7. QED
    BY <2>5, <2>6
<1>7. QED
  BY <1>5, <1>6 DEF Provide

\* A refund gives back what its worker had paid.
LEMMA RefundAir ==
  ASSUME WorkInv, KeyInv, ServeInv, AirInv, NEW c \in Worker, Refund(c)
  PROVE  ServeInv' /\ AirInv'
<1>1. w[c].pc = "refund" /\ w[c] # Idle /\ menu' = menu
      /\ UNCHANGED <<aired, unheard>> /\ Onward(c)
  BY Posted DEF Refund, At
<1>2. w[c].pc \in Serving
  BY <1>1 DEF Serving
<1>3. w[c].req # NoReq /\ w[c].req.id \in Id /\ w[c].req.id \in Airtime
  BY <1>1, <1>2 DEF KeyInv, HandOK, ReqOK, Carrying
<1>4. \A d \in Worker \ {c} : w'[d] = w[d]
  BY <1>1, OnwardDoes
<1>5. w'[c].pc \notin Serving
  BY <1>1, OnwardDoes DEF Serving
<1>6. CASE UNCHANGED <<till, paid>>
  BY <1>1, <1>4, <1>5, <1>6, SameMoney
<1>7. CASE /\ till > 0 /\ till' = till - 1
           /\ paid' = [paid EXCEPT ![w[c].req.id] = @ - 1]
  <2>1. Busy(w'[c]) = 0 /\ Busy(w[c]) = 1
    BY <1>2, <1>5 DEF Busy, One
  <2>2. till' \in Nat
    BY <1>1, <1>7 DEF AirInv
  <2>3. paid' = [paid EXCEPT ![w[c].req.id] = @ + (-1)]
    BY <1>3, <1>7 DEF ServeInv
  <2>4. Pays(c, w[c].req.id, -1)
    BY <1>1, <1>3, <1>4, <1>5, <2>1, <2>2, <2>3 DEF Pays
  <2>5. QED
    BY <2>4, MoneyMoves
<1>8. QED
  BY <1>6, <1>7 DEF Refund

\* Steps that neither pay nor order give no one airtime to order.
LEMMA StillServes ==
  ASSUME NEW c \in Worker, Still(c), w[c].pc # "charge"
  PROVE  /\ \A d \in Worker \ {c} : w'[d] = w[d]
         /\ menu' = menu
         /\ w'[c].pc \in Serving => w[c].pc \in Serving /\ w'[c].req = w[c].req
<1>1. Idle.pc \notin Serving
  BY Posted DEF Serving
<1>2. Serving \subseteq Carrying /\ "note" \notin Serving /\ "claim" \notin Serving
  BY DEF Serving, Carrying
<1>3. QED
  BY <1>1, <1>2 DEF Still

\* Every step keeps airtime paid for.
LEMMA AirStep ==
  ASSUME WorkInv, KeyInv, ServeInv, AirInv, [Next]_vars
  PROVE  ServeInv' /\ AirInv'
<1>1. CASE UNCHANGED <<menu, w, sess, parked, claimed, paid, aired, till, unheard, tries>>
  <2>1. UNCHANGED Servers /\ \A i : UNCHANGED Server(i)
    BY <1>1 DEF Servers, Server
  <2>2. ServeInv'
    BY <1>1, <2>1 DEF ServeInv
  <2>3. SumFunctionOnSet(paid, Airtime)' = SumFunctionOnSet(paid, Airtime)
    BY <1>1 DEF Airtime, Mails
  <2>4. AirInv'
    BY <1>1, <2>1, <2>3 DEF AirInv
  <2>5. QED
    BY <2>2, <2>4
<1>2. CASE Crash
  <2>1. UNCHANGED <<menu, paid, aired, till, unheard>> /\ \A c \in Worker : w'[c] = Idle
    BY <1>2 DEF Crash
  <2>2. Idle.pc \notin Serving
    BY Posted DEF Serving
  <2>3. Servers' = {} /\ \A i : Server(i)' = {}
    BY <2>1, <2>2 DEF Servers, Server
  <2>4. Cardinality(Servers)' = 0 /\ \A i : Cardinality(Server(i))' = 0
    BY <2>3, FS_EmptySet
  <2>5. ServeInv'
    BY <2>1, <2>4 DEF ServeInv
  <2>6. /\ SumFunctionOnSet(paid, Airtime) \in Nat
        /\ SumFunctionOnSet(paid, Airtime)' = SumFunctionOnSet(paid, Airtime)
    BY <2>1, PaidForAirtime DEF ServeInv
  <2>7. aired - unheard <= SumFunctionOnSet(paid, Airtime)
    BY <2>6, ServersFinite DEF AirInv
  <2>8. AirInv'
    BY <2>1, <2>4, <2>6, <2>7 DEF AirInv
  <2>9. QED
    BY <2>5, <2>8
<1>3. ASSUME NEW c \in Worker, NEW m \in Mails, Post(c, m) \/ Call(c, m)
      PROVE  ServeInv' /\ AirInv'
  <2>1. PICK pc \in {"next", "greet"} : Begin(c, m, pc)
    BY <1>3 DEF Post, Call
  <2>2. /\ \A d \in Worker \ {c} : w'[d] = w[d]
        /\ w'[c].pc = pc
        /\ UNCHANGED <<menu, paid, aired, till, unheard>>
    BY <2>1, BeginsAnew
  <2>3. w'[c].pc \notin Serving
    BY <2>2 DEF Serving
  <2>4. QED
    BY <2>2, <2>3, SameMoney
<1>4. ASSUME NEW c \in Worker, Still(c), w[c].pc # "charge",
             UNCHANGED <<paid, aired, till, unheard>>
      PROVE  ServeInv' /\ AirInv'
  BY <1>4, StillServes, SameMoney
<1>5. ASSUME NEW c \in Worker,
             \/ Greet(c) \/ Admit(c) \/ Answer(c) \/ Memo(c) \/ Note(c)
             \/ Confirm(c) \/ WrongPin(c) \/ NoDigits(c) \/ Cancel(c)
             \/ Ask(c) /\ UNCHANGED <<parked, sess>>
      PROVE  ServeInv' /\ AirInv'
  <2>1. Still(c)
    BY <1>5, StillRequest
  <2>2. UNCHANGED <<paid, aired, till, unheard>>
    BY <1>5 DEF Greet, Admit, Answer, Memo, Note, Confirm, WrongPin, NoDigits, Cancel, Ask, money
  <2>3. w[c].pc # "charge"
    BY <1>5 DEF Greet, Admit, Answer, Memo, Note, Confirm, WrongPin, NoDigits, Cancel, Ask, At
  <2>4. QED
    BY <1>4, <2>1, <2>2, <2>3
<1>6. ASSUME NEW c \in Worker,
             \/ ClaimKey(c) /\ w[c].req.key \in claimed
             \/ GetToken(c) \/ Detect(c) \/ Clear(c)
      PROVE  ServeInv' /\ AirInv'
  <2>1. Still(c)
    BY <1>6, StillExecute
  <2>2. UNCHANGED <<paid, aired, till, unheard>>
    BY <1>6 DEF ClaimKey, GetToken, Detect, Clear, money
  <2>3. w[c].pc # "charge"
    BY <1>6 DEF ClaimKey, GetToken, Detect, Clear, At
  <2>4. QED
    BY <1>4, <2>1, <2>2, <2>3
<1>7. ASSUME NEW c \in Worker, Ask(c), ~UNCHANGED <<parked, sess>>
      PROVE  ServeInv' /\ AirInv'
  <2>1. /\ \A d \in Worker \ {c} : w'[d] = w[d]
        /\ w'[c].pc \in {"memo", "next"}
    BY <1>7, AskDoes
  <2>2. UNCHANGED <<menu, paid, aired, till, unheard>>
    BY <1>7 DEF Ask, money
  <2>3. w'[c].pc \notin Serving
    BY <2>1 DEF Serving
  <2>4. QED
    BY <2>1, <2>2, <2>3, SameMoney
<1>8. ASSUME NEW c \in Worker, ClaimKey(c), w[c].req.key \notin claimed
      PROVE  ServeInv' /\ AirInv'
  <2>1. /\ \A d \in Worker \ {c} : w'[d] = w[d]
        /\ w'[c].pc \in {"charge", "transfer"}
    BY <1>8, ClaimDoes
  <2>2. UNCHANGED <<menu, paid, aired, till, unheard>>
    BY <1>8 DEF ClaimKey, money
  <2>3. w'[c].pc \notin Serving
    BY <2>1 DEF Serving
  <2>4. QED
    BY <2>1, <2>2, <2>3, SameMoney
<1>9. QED
  BY <1>1, <1>2, <1>3, <1>5, <1>6, <1>7, <1>8, Kinds, TransferAir, ChargeAir, ProvideAir,
     RefundAir

\* Airtime that was delivered is paid for, refunds taken off, unless the provider's
\* answer was lost (airtime.ts:139-172).
THEOREM DeliveredIsPaidFor == Spec => []AirtimeIsPaidFor
<1>1. ServeInv /\ AirInv => AirtimeIsPaidFor
  <2> SUFFICES ASSUME ServeInv, AirInv
               PROVE  AirtimeIsPaidFor
    OBVIOUS
  <2>1. aired - unheard + Cardinality(Servers) <= SumFunctionOnSet(paid, Airtime)
    BY DEF AirInv
  <2>2. aired \in Nat /\ unheard \in Nat /\ Cardinality(Servers) \in Nat
    BY ServersFinite DEF AirInv
  <2>3. SumFunctionOnSet(paid, Airtime) \in Nat
    <3>1. IsFiniteSet(Airtime) /\ \A i \in Airtime : paid[i] \in Nat
      BY FS_Subset, IngressAssumption DEF Airtime, ServeInv
    <3>2. QED
      BY <3>1, SumIsNat
  <2>4. QED
    BY <2>1, <2>2, <2>3 DEF AirtimeIsPaidFor
<1>2. IInv => WorkInv
  BY DEF IInv
<1>3. IInv /\ KeyInv /\ ServeInv /\ AirInv /\ [Next]_vars
        => (IInv /\ KeyInv /\ ServeInv /\ AirInv)'
  BY <1>2, IInvStep, KeyStep, AirStep
<1>4. Init => IInv /\ KeyInv /\ ServeInv /\ AirInv
  BY IInvInit, KeyInit, AirInit
<1>5. QED
  BY <1>1, <1>3, <1>4, PTL DEF Spec

-----------------------------------------------------------------------------
(* Deliveries and what is paid for them.                                    *)

\* The keys under which a request for i can still be claimed.
Live(i) ==
  {k \in (1 .. parked) \ claimed :
     \/ \E a \in Account : sess[a].key = k /\ sess[a].id = i
     \/ \E c \in Worker : w[c].pc \in {"note", "claim"} /\ w[c].req.key = k /\ w[c].req.id = i}

\* Who is about to pay for i.
AtPay(i) == {c \in Worker : w[c].pc \in {"transfer", "charge"} /\ w[c].req.id = i}

\* Who has yet to ask for i.
Awaits(x, i) ==
  x.mail # None /\ \E j \in DOMAIN x.mail.cmds :
     x.mail.cmds[j].id = i /\ (x.at < j \/ (x.at = j /\ x.pc \in Asking))

ToAsk(i) == {c \in Worker : Awaits(w[c], i)}

\* What is paid, can be claimed, is being paid and is still to be asked for.
Due(i) == paid[i] + Cardinality(Live(i)) + Cardinality(AtPay(i)) + Cardinality(ToAsk(i))

\* Each delivery asks once, and what it asks for is claimed once.
DueInv ==
  /\ tries \in [Mails -> Nat]
  /\ \A i \in Id : Due(i) <= Deliveries(i)

\* A mail asks for i.
AsksFor(m, i) == \E j \in DOMAIN m.cmds : m.cmds[j].id = i

\* A set that can only lose.
LEMMA Shrinks ==
  ASSUME NEW S, IsFiniteSet(S), NEW T, T \subseteq S
  PROVE  /\ IsFiniteSet(T) /\ Cardinality(T) \in Nat /\ Cardinality(S) \in Nat
         /\ Cardinality(T) <= Cardinality(S)
  BY FS_Subset, FS_CardinalityType

\* A set that can gain one.
LEMMA Gains ==
  ASSUME NEW S, IsFiniteSet(S), NEW T, NEW c, T \subseteq S \cup {c}
  PROVE  /\ IsFiniteSet(T) /\ Cardinality(T) \in Nat /\ Cardinality(S) \in Nat
         /\ Cardinality(T) <= Cardinality(S) + 1
<1>1. IsFiniteSet(S \cup {c}) /\ Cardinality(S) \in Nat
      /\ Cardinality(S \cup {c}) = IF c \in S THEN Cardinality(S) ELSE Cardinality(S) + 1
  BY FS_AddElement, FS_CardinalityType
<1>2. /\ IsFiniteSet(T) /\ Cardinality(T) \in Nat
      /\ Cardinality(T) <= Cardinality(S \cup {c})
  BY <1>1, Shrinks
<1>3. QED
  BY <1>1, <1>2

\* A set that loses one.
LEMMA Loses ==
  ASSUME NEW S, IsFiniteSet(S), NEW T, NEW c \in S, T \subseteq S \ {c}
  PROVE  /\ IsFiniteSet(T) /\ Cardinality(T) \in Nat /\ Cardinality(S) \in Nat
         /\ Cardinality(T) <= Cardinality(S) - 1
<1>1. IsFiniteSet(S \ {c}) /\ Cardinality(S \ {c}) = Cardinality(S) - 1 /\ Cardinality(S) \in Nat
  BY FS_RemoveElement, FS_CardinalityType
<1>2. /\ IsFiniteSet(T) /\ Cardinality(T) \in Nat
      /\ Cardinality(T) <= Cardinality(S \ {c})
  BY <1>1, Shrinks
<1>3. QED
  BY <1>1, <1>2

\* These sets are finite.
LEMMA DueFinite ==
  ASSUME WorkInv, NEW i
  PROVE  /\ IsFiniteSet(Live(i)) /\ IsFiniteSet(AtPay(i)) /\ IsFiniteSet(ToAsk(i))
         /\ Cardinality(Live(i)) \in Nat /\ Cardinality(AtPay(i)) \in Nat
         /\ Cardinality(ToAsk(i)) \in Nat
<1>1. IsFiniteSet(1 .. parked)
  BY FS_Interval DEF WorkInv
<1>2. Live(i) \subseteq 1 .. parked /\ AtPay(i) \subseteq Worker /\ ToAsk(i) \subseteq Worker
  BY DEF Live, AtPay, ToAsk
<1>3. QED
  BY <1>1, <1>2, Shrinks, IngressAssumption

\* The posts of a mail are counted, and those of the mails that ask for i summed.
LEMMA DeliveriesTyped ==
  ASSUME WorkInv, tries \in [Mails -> Nat], NEW i
  PROVE  /\ Deliveries(i) = SumFunctionOnSet(tries, {m \in Mails : AsksFor(m, i)})
         /\ IsFiniteSet({m \in Mails : AsksFor(m, i)})
         /\ Deliveries(i) \in Nat
<1> DEFINE M == {m \in Mails : AsksFor(m, i)}
<1>1. Deliveries(i) = SumFunctionOnSet(tries, M)
  BY DEF Deliveries, AsksFor
<1>2. IsFiniteSet(M)
  <2>1. IsFiniteSet(Mails)
    BY MailsAssumption DEF WorkInv, Mails
  <2>2. QED
    BY <2>1, FS_Subset
<1>3. \A m \in M : tries[m] \in Nat
  OBVIOUS
<1> HIDE DEF M
<1>4. SumFunctionOnSet(tries, M) \in Nat
  BY <1>2, <1>3, SumIsNat
<1>5. QED
  BY <1>1, <1>2, <1>4 DEF M

\* A still step leaves what is due, or makes less of it; its worker does not pay next.
LEMMA StillDue ==
  ASSUME WorkInv, NEW c \in Worker, w[c] # Idle, Still(c), NEW i
  PROVE  /\ Live(i)' \subseteq Live(i)
         /\ AtPay(i)' \subseteq AtPay(i) \ {c}
         /\ ToAsk(i)' \subseteq ToAsk(i)
<1>1. /\ parked' = parked /\ claimed' = claimed
      /\ \A d \in Worker \ {c} : w'[d] = w[d]
  BY DEF Still
<1>2. /\ Idle.mail = None /\ Idle.pc = "idle" /\ NoReq.key = 0
  BY Posted DEF NoReq
<1>3. Session(c) \in Account /\ w[c].at \in Nat \ {0} /\ w[c].mail # None
  BY AtWork
<1>4. Live(i)' \subseteq Live(i)
  <2> SUFFICES ASSUME NEW k \in (1 .. parked) \ claimed,
                      \/ \E a \in Account : sess'[a].key = k /\ sess'[a].id = i
                      \/ \E d \in Worker : /\ w'[d].pc \in {"note", "claim"}
                                           /\ w'[d].req.key = k /\ w'[d].req.id = i
               PROVE  k \in Live(i)
    BY <1>1 DEF Live
  <2>1. k # 0
    BY DEF WorkInv
  <2>2. ASSUME NEW a \in Account, sess'[a].key = k, sess'[a].id = i
        PROVE  k \in Live(i)
    <3>1. CASE sess'[a] = sess[a]
      BY <2>2, <3>1 DEF Live
    <3>2. CASE sess'[a] = NoReq
      BY <2>1, <2>2, <3>2, <1>2
    <3>3. CASE w[c].pc = "note" /\ sess'[a] = w[c].req
      BY <2>2, <3>3 DEF Live
    <3>4. QED
      BY <3>1, <3>2, <3>3 DEF Still
  <2>3. ASSUME NEW d \in Worker, w'[d].pc \in {"note", "claim"}, w'[d].req.key = k,
               w'[d].req.id = i
        PROVE  k \in Live(i)
    <3>1. CASE d # c
      BY <2>3, <3>1, <1>1 DEF Live
    <3>2. CASE d = c
      <4>1. w'[c] # Idle
        BY <2>3, <3>2, <1>2
      <4>2. CASE w'[c].req = sess[Session(c)]
        BY <2>3, <3>2, <4>2, <1>3 DEF Live
      <4>3. CASE w'[c].req = NoReq
        BY <2>1, <2>3, <3>2, <4>3, <1>2
      <4>4. QED
        BY <2>3, <3>2, <4>1, <4>2, <4>3 DEF Still
    <3>3. QED
      BY <3>1, <3>2
  <2>4. QED
    BY <2>2, <2>3
<1>5. AtPay(i)' \subseteq AtPay(i) \ {c}
  <2>1. w'[c].pc \notin {"transfer", "charge"}
    BY <1>2 DEF Still
  <2>2. QED
    BY <1>1, <2>1 DEF AtPay
<1>6. ToAsk(i)' \subseteq ToAsk(i)
  <2>1. Awaits(w'[c], i) => Awaits(w[c], i)
    <3>1. CASE w'[c] = Idle
      BY <3>1, <1>2 DEF Awaits
    <3>2. CASE w'[c] # Idle
      <4>1. /\ w'[c].mail = w[c].mail
            /\ \/ w'[c].at = w[c].at + 1
               \/ w'[c].at = w[c].at /\ (w'[c].pc \in Asking => w[c].pc \in Asking)
        BY <3>2 DEF Still
      <4>2. SUFFICES ASSUME Awaits(w'[c], i)
                     PROVE  Awaits(w[c], i)
        OBVIOUS
      <4>3. PICK j \in DOMAIN w[c].mail.cmds :
              /\ w[c].mail.cmds[j].id = i
              /\ w'[c].at < j \/ (w'[c].at = j /\ w'[c].pc \in Asking)
        BY <4>1, <4>2 DEF Awaits
      <4>4. j \in Int
        <5>1. w[c].mail.cmds \in Seq(Commands)
          BY AtWork DEF IsMail, Commands, Mail
        <5>2. QED
          BY <5>1, <4>3
      <4>5. w[c].at < j \/ (w[c].at = j /\ w[c].pc \in Asking)
        BY <1>3, <4>1, <4>3, <4>4
      <4>6. QED
        BY <1>3, <4>3, <4>5 DEF Awaits
    <3>3. QED
      BY <3>1, <3>2
  <2>2. QED
    BY <1>1, <2>1 DEF ToAsk, Awaits
<1>7. QED
  BY <1>4, <1>5, <1>6

\* What is due is a number.
LEMMA DueTyped ==
  ASSUME WorkInv, ServeInv, NEW i \in Id
  PROVE  /\ Due(i) \in Nat /\ paid[i] \in Nat
         /\ Cardinality(Live(i)) \in Nat /\ Cardinality(AtPay(i)) \in Nat
         /\ Cardinality(ToAsk(i)) \in Nat
<1>1. paid[i] \in Nat
  BY DEF ServeInv
<1>2. QED
  BY <1>1, DueFinite DEF Due

\* Nothing is due that was not.
LEMMA DueShrinks ==
  ASSUME WorkInv, ServeInv, NEW i \in Id, paid'[i] \in Nat, paid'[i] <= paid[i],
         Live(i)' \subseteq Live(i), AtPay(i)' \subseteq AtPay(i), ToAsk(i)' \subseteq ToAsk(i)
  PROVE  Due(i)' <= Due(i)
<1>1. Cardinality(Live(i)') \in Nat /\ Cardinality(Live(i)') <= Cardinality(Live(i))
  BY DueFinite, Shrinks
<1>2. Cardinality(AtPay(i)') \in Nat /\ Cardinality(AtPay(i)') <= Cardinality(AtPay(i))
  BY DueFinite, Shrinks
<1>3. Cardinality(ToAsk(i)') \in Nat /\ Cardinality(ToAsk(i)') <= Cardinality(ToAsk(i))
  BY DueFinite, Shrinks
<1>4. QED
  BY <1>1, <1>2, <1>3, DueTyped DEF Due

\* Where nothing more is due, and no mail comes in, that goes on.
LEMMA DueKept ==
  ASSUME WorkInv, DueInv, UNCHANGED <<menu, tries>>, \A i \in Id : Due(i)' <= Due(i),
         \A i \in Id : Due(i)' \in Int /\ Due(i) \in Int
  PROVE  DueInv'
<1>1. Mails' = Mails /\ tries' \in [Mails -> Nat]
  BY DEF DueInv, Mails
<1>2. ASSUME NEW i \in Id
      PROVE  Due(i)' <= Deliveries(i)'
  <2>1. Deliveries(i)' = Deliveries(i)
    BY <1>1 DEF Deliveries
  <2>2. Deliveries(i) \in Nat
    BY DeliveriesTyped DEF DueInv
  <2>3. Due(i) <= Deliveries(i)
    BY DEF DueInv
  <2>4. QED
    BY <2>1, <2>2, <2>3
<1>3. QED
  BY <1>1, <1>2 DEF DueInv

\* What does not concern i leaves what is due for it.
LEMMA DueStill ==
  ASSUME WorkInv, WorkInv', ServeInv, ServeInv', DueInv, UNCHANGED <<menu, tries>>,
         \A i \in Id : /\ paid'[i] <= paid[i]
                       /\ Live(i)' \subseteq Live(i)
                       /\ AtPay(i)' \subseteq AtPay(i)
                       /\ ToAsk(i)' \subseteq ToAsk(i)
  PROVE  DueInv'
<1>1. \A i \in Id : paid'[i] \in Nat
  BY DEF ServeInv
<1>2. \A i \in Id : Due(i)' <= Due(i)
  BY <1>1, DueShrinks
<1>3. \A i \in Id : Due(i)' \in Nat
  <2>1. ASSUME NEW i \in Id
        PROVE  Due(i)' \in Nat
    <3>1. Cardinality(Live(i)') \in Nat /\ Cardinality(AtPay(i)') \in Nat
          /\ Cardinality(ToAsk(i)') \in Nat
      BY DueFinite, Shrinks
    <3>2. QED
      BY <1>1, <3>1 DEF Due
  <2>2. QED
    BY <2>1
<1>4. \A i \in Id : Due(i)' \in Int /\ Due(i) \in Int
  BY <1>3, DueTyped
<1>5. QED
  BY <1>2, <1>4, DueKept

\* A payment takes its worker from those who are about to pay.
LEMMA DuePays ==
  ASSUME WorkInv, KeyInv, ServeInv, ServeInv', DueInv, NEW c \in Worker,
         Transfer(c) \/ Charge(c)
  PROVE  DueInv'
<1>1. Still(c) /\ w[c] # Idle /\ UNCHANGED <<menu, tries>>
  BY StillExecute DEF Still
<1>2. w[c].pc \in {"transfer", "charge"}
  BY DEF Transfer, Charge, At
<1>3. w[c].req.id \in Id
  BY <1>2 DEF KeyInv, HandOK, ReqOK, Carrying
<1>4. paid' = paid \/ paid' = [paid EXCEPT ![w[c].req.id] = @ + 1]
  BY DEF Transfer, Charge
<1>5. \A i \in Id : /\ Live(i)' \subseteq Live(i)
                    /\ AtPay(i)' \subseteq AtPay(i) \ {c}
                    /\ ToAsk(i)' \subseteq ToAsk(i)
  BY <1>1, StillDue
<1>6. \A i \in Id : paid[i] \in Nat /\ paid'[i] \in Nat
  BY DEF ServeInv
<1>7. ASSUME NEW i \in Id
      PROVE  Due(i)' <= Due(i) /\ Due(i)' \in Int /\ Due(i) \in Int
  <2>1. /\ Cardinality(Live(i)') \in Nat /\ Cardinality(Live(i)') <= Cardinality(Live(i))
        /\ Cardinality(ToAsk(i)') \in Nat /\ Cardinality(ToAsk(i)') <= Cardinality(ToAsk(i))
    BY <1>5, DueFinite, Shrinks
  <2>2. /\ Cardinality(AtPay(i)') \in Nat
        /\ paid'[i] + Cardinality(AtPay(i)') <= paid[i] + Cardinality(AtPay(i))
    <3>1. CASE i = w[c].req.id
      <4>1. c \in AtPay(i)
        BY <1>2, <3>1 DEF AtPay
      <4>2. /\ Cardinality(AtPay(i)') \in Nat /\ Cardinality(AtPay(i)) \in Nat
            /\ Cardinality(AtPay(i)') <= Cardinality(AtPay(i)) - 1
        BY <1>5, <4>1, DueFinite, Loses
      <4>3. paid'[i] <= paid[i] + 1
        BY <1>4, <1>6, <3>1 DEF ServeInv
      <4>4. QED
        BY <1>6, <4>2, <4>3
    <3>2. CASE i # w[c].req.id
      <4>1. paid'[i] = paid[i]
        BY <1>3, <1>4, <3>2 DEF ServeInv
      <4>2. AtPay(i)' \subseteq AtPay(i)
        BY <1>5
      <4>3. /\ Cardinality(AtPay(i)') \in Nat /\ Cardinality(AtPay(i)) \in Nat
            /\ Cardinality(AtPay(i)') <= Cardinality(AtPay(i))
        BY <4>2, DueFinite, Shrinks
      <4>4. QED
        BY <1>6, <4>1, <4>3
    <3>3. QED
      BY <3>1, <3>2
  <2>3. QED
    BY <1>6, <2>1, <2>2, DueTyped DEF Due
<1>8. QED
  BY <1>1, <1>7, DueKept

\* A key that is taken is no longer to be claimed; its worker is about to pay.
LEMMA DueClaims ==
  ASSUME WorkInv, KeyInv, ServeInv, DueInv, NEW c \in Worker,
         ClaimKey(c), w[c].req.key \notin claimed
  PROVE  DueInv'
<1> DEFINE k == w[c].req.key
           r == w[c].req.id
<1>1. /\ w[c] # Idle /\ w[c].pc = "claim" /\ claimed' = claimed \cup {k}
      /\ UNCHANGED <<menu, parked, sess, tries, paid>>
      /\ \A d \in Worker \ {c} : w'[d] = w[d]
      /\ w'[c].mail = w[c].mail /\ w'[c].at = w[c].at /\ w'[c].req = w[c].req
      /\ w'[c].pc \in {"charge", "transfer"}
  BY ClaimDoes
<1>2. r \in Id /\ k \in 1 .. parked /\ k \notin claimed
  BY <1>1 DEF KeyInv, HandOK, ReqOK, Carrying
<1>3. ASSUME NEW i
      PROVE  Live(i)' \subseteq Live(i) \ {k}
  <2>1. Live(i)' \subseteq (1 .. parked) \ claimed'
    BY <1>1 DEF Live
  <2>2. ASSUME NEW x \in Live(i)'
        PROVE  x \in Live(i)
    <3>1. /\ x \in (1 .. parked) \ claimed
          /\ \/ \E a \in Account : sess[a].key = x /\ sess[a].id = i
             \/ \E d \in Worker : /\ w'[d].pc \in {"note", "claim"}
                                  /\ w'[d].req.key = x /\ w'[d].req.id = i
      BY <1>1, <2>2 DEF Live
    <3>2. \A d \in Worker : w'[d].pc \in {"note", "claim"} => d # c
      BY <1>1
    <3>3. QED
      BY <1>1, <3>1, <3>2 DEF Live
  <2>3. QED
    BY <1>1, <2>1, <2>2
<1>4. ASSUME NEW i
      PROVE  /\ AtPay(i)' \subseteq AtPay(i) \cup {c}
             /\ i # r => AtPay(i)' \subseteq AtPay(i)
             /\ ToAsk(i)' \subseteq ToAsk(i)
  <2>1. w'[c].pc \notin Asking
    BY <1>1 DEF Asking
  <2>2. Awaits(w'[c], i) => Awaits(w[c], i)
    BY <1>1, <2>1 DEF Awaits
  <2>3. QED
    BY <1>1, <2>2 DEF AtPay, ToAsk, Awaits
<1>5. k \in Live(r)
  BY <1>1, <1>2 DEF Live
<1> HIDE DEF k, r
<1>6. ASSUME NEW i \in Id
      PROVE  Due(i)' <= Due(i) /\ Due(i)' \in Int /\ Due(i) \in Int
  <2>1. Cardinality(ToAsk(i)') \in Nat /\ Cardinality(ToAsk(i)') <= Cardinality(ToAsk(i))
    BY <1>4, DueFinite, Shrinks
  <2>2. /\ Cardinality(AtPay(i)') \in Nat /\ Cardinality(Live(i)') \in Nat
        /\ Cardinality(Live(i)') + Cardinality(AtPay(i)')
             <= Cardinality(Live(i)) + Cardinality(AtPay(i))
    <3>1. CASE i = r
      <4>1. /\ Cardinality(Live(i)') \in Nat /\ Cardinality(Live(i)) \in Nat
            /\ Cardinality(Live(i)') <= Cardinality(Live(i)) - 1
        BY <1>3, <1>5, <3>1, DueFinite, Loses
      <4>2. /\ Cardinality(AtPay(i)') \in Nat /\ Cardinality(AtPay(i)) \in Nat
            /\ Cardinality(AtPay(i)') <= Cardinality(AtPay(i)) + 1
        BY <1>4, DueFinite, Gains
      <4>3. QED
        BY <4>1, <4>2
    <3>2. CASE i # r
      <4>1. Live(i)' \subseteq Live(i) /\ AtPay(i)' \subseteq AtPay(i)
        BY <1>3, <1>4, <3>2
      <4>2. /\ Cardinality(Live(i)') \in Nat /\ Cardinality(Live(i)) \in Nat
            /\ Cardinality(Live(i)') <= Cardinality(Live(i))
        BY <4>1, DueFinite, Shrinks
      <4>3. /\ Cardinality(AtPay(i)') \in Nat /\ Cardinality(AtPay(i)) \in Nat
            /\ Cardinality(AtPay(i)') <= Cardinality(AtPay(i))
        BY <4>1, DueFinite, Shrinks
      <4>4. QED
        BY <4>2, <4>3
    <3>3. QED
      BY <3>1, <3>2
  <2>3. paid'[i] = paid[i]
    BY <1>1
  <2>4. QED
    BY <2>1, <2>2, <2>3, DueTyped DEF Due
<1>7. QED
  BY <1>1, <1>6, DueKept

\* A request that is parked can be claimed; its worker has asked for it, and a mail
\* asks for it but once.
LEMMA DueAsks ==
  ASSUME WorkInv, WorkInv', KeyInv, ServeInv, DueInv, NEW c \in Worker,
         Ask(c), ~UNCHANGED <<parked, sess>>
  PROVE  DueInv'
<1> DEFINE r == Command(c).id
           n == parked + 1
<1>1. /\ parked' = n /\ w[c] # Idle /\ w[c].pc \in {"send", "topup"} /\ r \in Id
      /\ sess' = [sess EXCEPT ![Session(c)] = [op |-> w[c].pc, id |-> r, key |-> n]]
      /\ \A d \in Worker \ {c} : w'[d] = w[d]
      /\ w'[c].mail = w[c].mail
      /\ \/ w'[c].pc = "memo" /\ w'[c].at = w[c].at
         \/ w'[c].pc = "next" /\ w'[c].at = w[c].at + 1
  BY AskDoes
<1>2. UNCHANGED <<menu, tries, claimed, paid>>
  BY DEF Ask, money
<1>3. parked \in Nat /\ sess \in [Account -> Req]
  BY DEF WorkInv
<1>4. /\ \A a \in Account : sess[a].key # n
      /\ \A d \in Worker : w[d].pc \in {"note", "claim"} => w[d].req.key # n
  <2>1. NoReq.key = 0
    BY DEF NoReq
  <2>2. \A a \in Account : ReqOK(sess[a], parked, Airtime)
    BY DEF KeyInv
  <2>3. \A d \in Worker : ReqOK(w[d].req, parked, Airtime)
    BY DEF KeyInv, HandOK
  <2>4. QED
    BY <1>3, <2>1, <2>2, <2>3 DEF ReqOK
<1>5. ASSUME NEW i
      PROVE  /\ Live(i)' \subseteq Live(i) \cup {n}
             /\ i # r => Live(i)' \subseteq Live(i)
  <2> SUFFICES ASSUME NEW x \in Live(i)'
               PROVE  x \in Live(i) \/ (x = n /\ i = r)
    OBVIOUS
  <2>1. /\ x \in 1 .. n /\ x \notin claimed
        /\ \/ \E a \in Account : sess'[a].key = x /\ sess'[a].id = i
           \/ \E d \in Worker : /\ w'[d].pc \in {"note", "claim"}
                                /\ w'[d].req.key = x /\ w'[d].req.id = i
    BY <1>1, <1>2 DEF Live
  <2>2. \A d \in Worker : w'[d].pc \in {"note", "claim"} => w'[d] = w[d]
    BY <1>1
  <2>3. \A a \in Account : \/ sess'[a] = sess[a]
                           \/ sess'[a].key = n /\ sess'[a].id = r
    BY <1>1, <1>3
  <2>4. CASE x = n
    BY <1>4, <2>1, <2>2, <2>3, <2>4
  <2>5. CASE x # n
    <3>1. x \in (1 .. parked) \ claimed
      BY <1>3, <2>1, <2>5
    <3>2. \/ \E a \in Account : sess[a].key = x /\ sess[a].id = i
          \/ \E d \in Worker : w[d].pc \in {"note", "claim"} /\ w[d].req.key = x /\ w[d].req.id = i
      BY <2>1, <2>2, <2>3, <2>5
    <3>3. QED
      BY <3>1, <3>2 DEF Live
  <2>6. QED
    BY <2>4, <2>5
<1>6. /\ w[c].mail.cmds \in Seq(Commands) /\ w[c].at \in Nat \ {0} /\ w[c].mail # None
      /\ w[c].at \in DOMAIN w[c].mail.cmds /\ w[c].mail.cmds[w[c].at].id = r
      /\ \A j \in DOMAIN w[c].mail.cmds : w[c].mail.cmds[j].id = r => j = w[c].at
  <2>1. IsMail(Mail(c)) /\ w[c].at \in Nat \ {0} /\ w[c].mail # None /\ Mail(c) = w[c].mail
    BY <1>1, AtWork DEF Mail
  <2>2. w[c].at \in DOMAIN w[c].mail.cmds
    BY <1>1 DEF WorkInv, WorkOK
  <2>3. w[c].mail.cmds[w[c].at].id = r /\ r # None
    BY <1>1, <2>1, IngressAssumption DEF Command
  <2>4. QED
    BY <2>1, <2>2, <2>3 DEF IsMail, Commands
<1>7. ASSUME NEW i
      PROVE  /\ AtPay(i)' \subseteq AtPay(i)
             /\ ToAsk(i)' \subseteq ToAsk(i)
             /\ i = r => ToAsk(i)' \subseteq ToAsk(i) \ {c}
  <2>1. AtPay(i)' \subseteq AtPay(i)
    BY <1>1 DEF AtPay
  <2>2. "memo" \notin Asking /\ w[c].pc \in Asking
    BY <1>1 DEF Asking
  <2>3. ASSUME Awaits(w'[c], i)
        PROVE  Awaits(w[c], i) /\ i # r
    <3>1. PICK j \in DOMAIN w[c].mail.cmds :
            /\ w[c].mail.cmds[j].id = i
            /\ w'[c].at < j \/ (w'[c].at = j /\ w'[c].pc \in Asking)
      BY <1>1, <2>3 DEF Awaits
    <3>2. j \in Int
      BY <1>6, <3>1
    <3>3. w[c].at < j
      <4>1. CASE w'[c].pc = "memo" /\ w'[c].at = w[c].at
        BY <2>2, <3>1, <4>1
      <4>2. CASE w'[c].at = w[c].at + 1
        BY <1>6, <3>1, <3>2, <4>2
      <4>3. QED
        BY <1>1, <4>1, <4>2
    <3>4. j # w[c].at
      BY <1>6, <3>2, <3>3
    <3>5. QED
      BY <1>6, <3>1, <3>3, <3>4 DEF Awaits
  <2>4. QED
    BY <1>1, <2>1, <2>3 DEF ToAsk, Awaits
<1>8. c \in ToAsk(r)
  <2>1. w[c].pc \in Asking
    BY <1>1 DEF Asking
  <2>2. QED
    BY <1>6, <2>1 DEF ToAsk, Awaits
<1> HIDE DEF r, n
<1>9. ASSUME NEW i \in Id
      PROVE  Due(i)' <= Due(i) /\ Due(i)' \in Int /\ Due(i) \in Int
  <2>1. Cardinality(AtPay(i)') \in Nat /\ Cardinality(AtPay(i)') <= Cardinality(AtPay(i))
    BY <1>7, DueFinite, Shrinks
  <2>2. /\ Cardinality(ToAsk(i)') \in Nat /\ Cardinality(Live(i)') \in Nat
        /\ Cardinality(Live(i)') + Cardinality(ToAsk(i)')
             <= Cardinality(Live(i)) + Cardinality(ToAsk(i))
    <3>1. CASE i = r
      <4>1. /\ Cardinality(ToAsk(i)') \in Nat /\ Cardinality(ToAsk(i)) \in Nat
            /\ Cardinality(ToAsk(i)') <= Cardinality(ToAsk(i)) - 1
        BY <1>7, <1>8, <3>1, DueFinite, Loses
      <4>2. /\ Cardinality(Live(i)') \in Nat /\ Cardinality(Live(i)) \in Nat
            /\ Cardinality(Live(i)') <= Cardinality(Live(i)) + 1
        BY <1>5, DueFinite, Gains
      <4>3. QED
        BY <4>1, <4>2
    <3>2. CASE i # r
      <4>1. Live(i)' \subseteq Live(i) /\ ToAsk(i)' \subseteq ToAsk(i)
        BY <1>5, <1>7, <3>2
      <4>2. /\ Cardinality(Live(i)') \in Nat /\ Cardinality(Live(i)) \in Nat
            /\ Cardinality(Live(i)') <= Cardinality(Live(i))
        BY <4>1, DueFinite, Shrinks
      <4>3. /\ Cardinality(ToAsk(i)') \in Nat /\ Cardinality(ToAsk(i)) \in Nat
            /\ Cardinality(ToAsk(i)') <= Cardinality(ToAsk(i))
        BY <4>1, DueFinite, Shrinks
      <4>4. QED
        BY <4>2, <4>3
    <3>3. QED
      BY <3>1, <3>2
  <2>3. paid'[i] = paid[i]
    BY <1>2
  <2>4. QED
    BY <2>1, <2>2, <2>3, DueTyped DEF Due
<1>10. QED
  BY <1>2, <1>9, DueKept

\* A mail that comes in is one more delivery, and its worker has yet to ask.
LEMMA DueBegins ==
  ASSUME WorkInv, ServeInv, DueInv, NEW c \in Worker, NEW m \in Mails,
         NEW pc \in {"next", "greet"}, Begin(c, m, pc)
  PROVE  DueInv'
<1>1. /\ w[c] = Idle /\ \A d \in Worker \ {c} : w'[d] = w[d]
      /\ w'[c].pc = pc /\ w'[c].mail = m /\ w'[c].at = 1 /\ w'[c].req = NoReq
      /\ UNCHANGED <<menu, sess, parked, claimed, paid>>
      /\ tries' = [tries EXCEPT ![m] = @ + 1]
  BY BeginsAnew
<1>2. tries \in [Mails -> Nat] /\ Mails' = Mails
  BY <1>1 DEF DueInv, Mails
<1>3. /\ tries' \in [Mails -> Nat] /\ tries'[m] = tries[m] + 1
      /\ \A x \in Mails \ {m} : tries'[x] = tries[x]
  BY <1>1, <1>2
<1>4. ASSUME NEW i
      PROVE  /\ Live(i)' \subseteq Live(i) /\ AtPay(i)' \subseteq AtPay(i)
             /\ ToAsk(i)' \subseteq ToAsk(i) \cup {c}
             /\ ~AsksFor(m, i) => ToAsk(i)' \subseteq ToAsk(i)
  <2>1. w'[c].pc \notin {"note", "claim", "transfer", "charge"}
    BY <1>1
  <2>2. Live(i)' \subseteq Live(i)
    <3>1. \A d \in Worker : w'[d].pc \in {"note", "claim"} => w'[d] = w[d]
      BY <1>1, <2>1
    <3>2. QED
      BY <1>1, <3>1 DEF Live
  <2>3. AtPay(i)' \subseteq AtPay(i)
    BY <1>1, <2>1 DEF AtPay
  <2>4. Awaits(w'[c], i) => AsksFor(m, i)
    BY <1>1 DEF Awaits, AsksFor
  <2>5. QED
    BY <1>1, <2>2, <2>3, <2>4 DEF ToAsk, Awaits
<1>5. ASSUME NEW i \in Id
      PROVE  Due(i)' <= Deliveries(i)'
  <2> DEFINE M == {x \in Mails : AsksFor(x, i)}
  <2>1. /\ Deliveries(i) = SumFunctionOnSet(tries, M) /\ IsFiniteSet(M)
        /\ Deliveries(i) \in Nat
    BY <1>2, DeliveriesTyped
  <2>2. Deliveries(i)' = SumFunctionOnSet(tries', M)
    BY <1>2 DEF Deliveries, AsksFor
  <2>3. m \in M <=> AsksFor(m, i)
    OBVIOUS
  <2>4. M \subseteq Mails
    OBVIOUS
  <2> HIDE DEF M
  <2>5. Moved(M, tries, tries', m, 1)
    BY <1>2, <1>3, <2>1, <2>4 DEF Moved
  <2>6. Deliveries(i)' = IF m \in M THEN Deliveries(i) + 1 ELSE Deliveries(i)
    BY <2>1, <2>2, <2>5, SumMoves
  <2>7. /\ Cardinality(Live(i)') \in Nat /\ Cardinality(Live(i)') <= Cardinality(Live(i))
        /\ Cardinality(AtPay(i)') \in Nat /\ Cardinality(AtPay(i)') <= Cardinality(AtPay(i))
    BY <1>4, DueFinite, Shrinks
  <2>8. /\ Cardinality(ToAsk(i)') \in Nat
        /\ Cardinality(ToAsk(i)') <= Cardinality(ToAsk(i)) + (IF m \in M THEN 1 ELSE 0)
    <3>1. CASE m \in M
      <4>1. /\ Cardinality(ToAsk(i)') \in Nat
            /\ Cardinality(ToAsk(i)') <= Cardinality(ToAsk(i)) + 1
        BY <1>4, DueFinite, Gains
      <4>2. QED
        BY <3>1, <4>1
    <3>2. CASE m \notin M
      <4>1. ToAsk(i)' \subseteq ToAsk(i)
        BY <1>4, <2>3, <3>2
      <4>2. /\ Cardinality(ToAsk(i)') \in Nat /\ Cardinality(ToAsk(i)) \in Nat
            /\ Cardinality(ToAsk(i)') <= Cardinality(ToAsk(i))
        BY <4>1, DueFinite, Shrinks
      <4>3. QED
        BY <3>2, <4>2
    <3>3. QED
      BY <3>1, <3>2
  <2>9. Due(i) <= Deliveries(i) /\ paid'[i] = paid[i]
    BY <1>1 DEF DueInv
  <2>10. QED
    BY <2>1, <2>6, <2>7, <2>8, <2>9, DueTyped DEF Due
<1>6. QED
  BY <1>2, <1>3, <1>5 DEF DueInv

\* The start.
LEMMA DueInit == Init => DueInv
<1> SUFFICES ASSUME Init PROVE DueInv
  OBVIOUS
<1>1. WorkInv /\ ServeInv
  BY IInvInit, AirInit DEF IInv
<1>2. /\ tries \in [Mails -> Nat] /\ parked = 0
      /\ \A c \in Worker : w[c] = Idle
      /\ paid = [i \in Id |-> 0]
  BY DEF Init
<1>3. ASSUME NEW i \in Id
      PROVE  Due(i) <= Deliveries(i)
  <2>1. Live(i) = {} /\ AtPay(i) = {} /\ ToAsk(i) = {}
    BY <1>2, Posted DEF Live, AtPay, ToAsk, Awaits
  <2>2. Cardinality(Live(i)) = 0 /\ Cardinality(AtPay(i)) = 0 /\ Cardinality(ToAsk(i)) = 0
    BY <2>1, FS_EmptySet
  <2>3. Due(i) = 0
    BY <1>2, <2>2 DEF Due
  <2>4. Deliveries(i) \in Nat
    BY <1>1, <1>2, DeliveriesTyped
  <2>5. QED
    BY <2>3, <2>4
<1>4. QED
  BY <1>2, <1>3 DEF DueInv

\* Every step keeps to what is due.
LEMMA DueStep ==
  ASSUME WorkInv, WorkInv', KeyInv, ServeInv, ServeInv', DueInv, [Next]_vars
  PROVE  DueInv'
<1>1. CASE UNCHANGED <<menu, w, sess, parked, claimed, paid, aired, till, unheard, tries>>
  <2>1. \A i : UNCHANGED Live(i) /\ UNCHANGED AtPay(i) /\ UNCHANGED ToAsk(i)
    BY <1>1 DEF Live, AtPay, ToAsk, Awaits
  <2>2. \A i \in Id : paid'[i] <= paid[i]
    BY <1>1 DEF ServeInv
  <2>3. QED
    BY <1>1, <2>1, <2>2, DueStill
<1>2. CASE Crash
  <2>1. UNCHANGED <<menu, sess, parked, claimed, paid, tries>> /\ \A c \in Worker : w'[c] = Idle
    BY <1>2 DEF Crash
  <2>2. ASSUME NEW i \in Id
        PROVE  /\ paid'[i] <= paid[i]
               /\ Live(i)' \subseteq Live(i)
               /\ AtPay(i)' \subseteq AtPay(i)
               /\ ToAsk(i)' \subseteq ToAsk(i)
    <3>1. AtPay(i)' = {} /\ ToAsk(i)' = {}
      BY <2>1, Posted DEF AtPay, ToAsk, Awaits
    <3>2. Live(i)' \subseteq Live(i)
      BY <2>1, Posted DEF Live
    <3>3. paid'[i] <= paid[i]
      BY <2>1 DEF ServeInv
    <3>4. QED
      BY <3>1, <3>2, <3>3
  <2>3. QED
    BY <2>1, <2>2, DueStill
<1>3. ASSUME NEW c \in Worker, NEW m \in Mails, Post(c, m) \/ Call(c, m)
      PROVE  DueInv'
  <2>1. PICK pc \in {"next", "greet"} : Begin(c, m, pc)
    BY <1>3 DEF Post, Call
  <2>2. QED
    BY <2>1, DueBegins
<1>4. ASSUME NEW c \in Worker, Still(c), w[c] # Idle, \A i \in Id : paid'[i] <= paid[i]
      PROVE  DueInv'
  <2>1. \A i \in Id : /\ Live(i)' \subseteq Live(i)
                      /\ AtPay(i)' \subseteq AtPay(i)
                      /\ ToAsk(i)' \subseteq ToAsk(i)
    BY <1>4, StillDue
  <2>2. UNCHANGED <<menu, tries>>
    BY <1>4 DEF Still
  <2>3. QED
    BY <1>4, <2>1, <2>2, DueStill
<1>5. ASSUME NEW c \in Worker,
             \/ Greet(c) \/ Admit(c) \/ Answer(c) \/ Memo(c) \/ Note(c)
             \/ Confirm(c) \/ WrongPin(c) \/ NoDigits(c) \/ Cancel(c)
             \/ Ask(c) /\ UNCHANGED <<parked, sess>>
      PROVE  DueInv'
  <2>1. Still(c) /\ w[c] # Idle
    BY <1>5, StillRequest
  <2>2. paid' = paid
    BY <1>5 DEF Greet, Admit, Answer, Memo, Note, Confirm, WrongPin, NoDigits, Cancel, Ask, money
  <2>3. \A i \in Id : paid'[i] <= paid[i]
    BY <2>2 DEF ServeInv
  <2>4. QED
    BY <1>4, <2>1, <2>3
<1>6. ASSUME NEW c \in Worker,
             \/ ClaimKey(c) /\ w[c].req.key \in claimed
             \/ GetToken(c) \/ Detect(c) \/ Provide(c) \/ Refund(c) \/ Clear(c)
      PROVE  DueInv'
  <2>1. Still(c) /\ w[c] # Idle
    BY <1>6, StillExecute
  <2>2. paid' = paid \/ paid' = [paid EXCEPT ![w[c].req.id] = @ - 1]
    BY <1>6 DEF ClaimKey, GetToken, Detect, Provide, Refund, Clear, money
  <2>3. paid \in [Id -> Nat]
    BY DEF ServeInv
  <2>4. \A i \in Id : paid'[i] <= paid[i]
    BY <2>2, <2>3
  <2>5. QED
    BY <1>4, <2>1, <2>4
<1>7. QED
  BY <1>1, <1>2, <1>3, <1>5, <1>6, Kinds, DueAsks, DueClaims, DuePays

\* An intention is paid for at most as often as its mail was posted, whoever confirms
\* it and however many confirmations meet (server.ts:330-343).
THEOREM PaymentsFollowDeliveries == Spec => []PaidAsDelivered
<1> DEFINE Inv == IInv /\ KeyInv /\ ServeInv /\ AirInv /\ DueInv
<1>1. Inv => PaidAsDelivered
  <2> SUFFICES ASSUME WorkInv, ServeInv, DueInv, NEW i \in Id
               PROVE  paid[i] <= Deliveries(i)
    BY DEF PaidAsDelivered, IInv
  <2>1. Due(i) <= Deliveries(i) /\ Deliveries(i) \in Nat
    BY DeliveriesTyped DEF DueInv
  <2>2. QED
    BY <2>1, DueTyped DEF Due
<1>2. Init => Inv
  BY IInvInit, KeyInit, AirInit, DueInit
<1>3. Inv /\ [Next]_vars => Inv'
  <2> SUFFICES ASSUME Inv, [Next]_vars
               PROVE  Inv'
    OBVIOUS
  <2>1. IInv' /\ WorkInv /\ WorkInv'
    BY IInvStep DEF IInv
  <2>2. KeyInv' /\ ServeInv' /\ AirInv'
    BY <2>1, KeyStep, AirStep
  <2>3. DueInv'
    BY <2>1, <2>2, DueStep
  <2>4. QED
    BY <2>1, <2>2, <2>3
<1>4. QED
  BY <1>1, <1>2, <1>3, PTL DEF Spec

-----------------------------------------------------------------------------
(* The rate limit.                                                          *)

\* Of some numbers one is the least.
LEMMA Least ==
  ASSUME NEW n \in Nat, NEW B \in SUBSET (0 .. n), B # {}
  PROVE  \E m \in B : \A k \in 0 .. m - 1 : k \notin B
<1> DEFINE F == {0 .. m : m \in B}
<1>1. IsFiniteSet(0 .. n)
  BY FS_Interval
<1>2. F \subseteq SUBSET (0 .. n) /\ F # {}
  <2>1. \A m \in B : 0 .. m \subseteq 0 .. n
    OBVIOUS
  <2>2. QED
    BY <2>1
<1>3. PICK T \in F : \A U \in F : U \subseteq T => U = T
  <2> DEFINE S == 0 .. n
  <2>1. IsFiniteSet(S) /\ F \subseteq SUBSET S /\ F # {}
    BY <1>1, <1>2
  <2> HIDE DEF F, S
  <2>2. QED
    BY <2>1, SmallestSubset
<1>4. PICK m \in B : T = 0 .. m
  OBVIOUS
<1>5. ASSUME NEW k \in 0 .. m - 1, k \in B
      PROVE  FALSE
  <2>1. 0 .. k \in F /\ 0 .. k \subseteq 0 .. m
    BY <1>5
  <2>2. 0 .. k = 0 .. m
    BY <1>3, <1>4, <2>1
  <2>3. m \in 0 .. m /\ m \notin 0 .. k
    BY <1>5
  <2>4. QED
    BY <2>2, <2>3
<1>6. QED
  BY <1>5

\* What the first m admissions of s leave, of those no older than age at time u.
Filters(f, s, u, age, m) ==
  f = [n \in 0 .. m |-> IF n = 0 THEN <<>>
                        ELSE IF u - s[n] < age THEN Append(f[n - 1], s[n])
                        ELSE f[n - 1]]

\* There is such a function.
LEMMA FilterExists ==
  ASSUME NEW s \in Seq(Nat), NEW u, NEW age
  PROVE  \E f : Filters(f, s, u, age, Len(s))
<1> DEFINE B == {m \in 0 .. Len(s) : ~ \E f : Filters(f, s, u, age, m)}
<1>1. SUFFICES ASSUME B # {}
               PROVE  FALSE
  <2>1. Len(s) \in 0 .. Len(s)
    OBVIOUS
  <2>2. Len(s) \notin B
    BY <1>1
  <2>3. QED
    BY <2>1, <2>2
<1>2. Len(s) \in Nat /\ B \in SUBSET (0 .. Len(s))
  OBVIOUS
<1>3. PICK m \in B : \A k \in 0 .. m - 1 : k \notin B
  <2> HIDE DEF B
  <2>1. QED
    BY <1>1, <1>2, Least
<1>4. m \in 0 .. Len(s) /\ ~ \E f : Filters(f, s, u, age, m)
  OBVIOUS
<1>5. m # 0
  <2> DEFINE f == [n \in 0 .. 0 |-> <<>>]
  <2>1. Filters(f, s, u, age, 0)
    BY DEF Filters
  <2>2. QED
    BY <1>4, <2>1
<1>6. \E f : Filters(f, s, u, age, m - 1)
  BY <1>2, <1>3, <1>5
<1>7. PICK f : Filters(f, s, u, age, m - 1)
  BY <1>6
<1> DEFINE g == [n \in 0 .. m |-> IF n = m
                   THEN IF u - s[n] < age THEN Append(f[n - 1], s[n]) ELSE f[n - 1]
                   ELSE f[n]]
<1>8. \A n \in 0 .. m - 1 : g[n] = f[n]
  BY <1>4
<1>9. ASSUME NEW n \in 0 .. m
      PROVE  g[n] = IF n = 0 THEN <<>>
                    ELSE IF u - s[n] < age THEN Append(g[n - 1], s[n])
                    ELSE g[n - 1]
  <2>1. CASE n = 0
    <3>1. 0 \in 0 .. m - 1
      BY <1>4, <1>5
    <3>2. f[0] = <<>>
      BY <1>7, <3>1 DEF Filters
    <3>3. QED
      BY <1>8, <2>1, <3>1, <3>2
  <2>2. CASE n = m
    <3>1. m - 1 \in 0 .. m - 1
      BY <1>4, <1>5
    <3>2. g[m - 1] = f[m - 1]
      BY <1>8, <3>1
    <3>3. QED
      BY <1>4, <1>5, <2>2, <3>2
  <2>3. CASE n # 0 /\ n # m
    <3>1. n \in 0 .. m - 1 /\ n - 1 \in 0 .. m - 1
      BY <1>4, <2>3
    <3>2. f[n] = IF u - s[n] < age THEN Append(f[n - 1], s[n]) ELSE f[n - 1]
      BY <1>7, <2>3, <3>1 DEF Filters
    <3>3. QED
      BY <1>8, <2>3, <3>1, <3>2
  <2>4. QED
    BY <2>1, <2>2, <2>3
<1>10. g = [n \in 0 .. m |-> g[n]]
  OBVIOUS
<1> HIDE DEF g
<1>11. Filters(g, s, u, age, m)
  BY <1>9, <1>10 DEF Filters
<1>12. QED
  BY <1>4, <1>11

\* How many of an order are not before t.
Since(s, t) == Cardinality({j \in 1 .. Len(s) : s[j] >= t})

\* One more.
LEMMA SinceAppends ==
  ASSUME NEW s \in Seq(Nat), NEW x \in Nat, NEW t
  PROVE  Since(s, t) \in Nat /\ Since(Append(s, x), t) = Since(s, t) + One(x >= t)
<1> DEFINE S == {j \in 1 .. Len(s) : s[j] >= t}
           T == {j \in 1 .. Len(Append(s, x)) : Append(s, x)[j] >= t}
           n == Len(s) + 1
<1>1. /\ Len(s) \in Nat /\ Len(Append(s, x)) = n /\ Append(s, x)[n] = x
      /\ \A j \in 1 .. Len(s) : Append(s, x)[j] = s[j]
  OBVIOUS
<1>2. IsFiniteSet(S)
  <2>1. IsFiniteSet(1 .. Len(s)) /\ S \subseteq 1 .. Len(s)
    BY <1>1, FS_Interval
  <2> HIDE DEF S
  <2>2. QED
    BY <2>1, FS_Subset
<1>3. T \ {n} = S \ {n} /\ n \notin S /\ (n \in T <=> x >= t)
  BY <1>1
<1>4. Since(s, t) = Cardinality(S) /\ Since(Append(s, x), t) = Cardinality(T)
  BY DEF Since
<1> HIDE DEF S, T, n
<1>5. /\ Cardinality(S) \in Nat
      /\ Cardinality(T) = Cardinality(S) - One(n \in S) + One(n \in T)
  BY <1>2, <1>3, CountMoves
<1>6. One(n \in S) = 0 /\ One(n \in T) = One(x >= t) /\ One(n \in T) \in Int
  BY <1>3 DEF One
<1>7. QED
  BY <1>4, <1>5, <1>6

\* The first m of s that are not before t.
Early(s, t, m) == {j \in 1 .. m : s[j] >= t}

\* One more of them.
LEMMA EarlyGrows ==
  ASSUME NEW s \in Seq(Nat), NEW t, NEW m \in 1 .. Len(s)
  PROVE  /\ Cardinality(Early(s, t, m - 1)) \in Nat
         /\ Cardinality(Early(s, t, m)) = Cardinality(Early(s, t, m - 1)) + One(s[m] >= t)
<1> DEFINE S == Early(s, t, m - 1)
           T == Early(s, t, m)
<1>1. IsFiniteSet(S)
  <2>1. IsFiniteSet(1 .. m - 1) /\ S \subseteq 1 .. m - 1
    BY FS_Interval DEF Early
  <2> HIDE DEF S
  <2>2. QED
    BY <2>1, FS_Subset
<1>2. T \ {m} = S \ {m} /\ m \notin S /\ (m \in T <=> s[m] >= t)
  BY DEF Early
<1> HIDE DEF S, T
<1>3. /\ Cardinality(S) \in Nat
      /\ Cardinality(T) = Cardinality(S) - One(m \in S) + One(m \in T)
  BY <1>1, <1>2, CountMoves
<1>4. One(m \in S) = 0 /\ One(m \in T) = One(s[m] >= t) /\ One(m \in T) \in Int
  BY <1>2 DEF One
<1>5. QED
  BY <1>3, <1>4 DEF S, T

\* What is left is of the same kind, no longer, and lacks none of the later ones.
Sifted(r, s, S, u, age, m) ==
  /\ r \in Seq(S) /\ Len(r) <= m
  /\ \A t \in Int : t > u - age => Since(r, t) = Cardinality(Early(s, t, m))

\* A sequence of some kind that gets one more of it.
LEMMA AppendKind ==
  ASSUME NEW S, NEW r \in Seq(S), NEW x \in S
  PROVE  Append(r, x) \in Seq(S) /\ Len(Append(r, x)) = Len(r) + 1
  OBVIOUS

\* Every prefix is filtered so.
LEMMA FilterKeeps ==
  ASSUME NEW S \in SUBSET Nat, NEW s \in Seq(S), NEW u \in Int, NEW age \in Int, NEW f,
         Filters(f, s, u, age, Len(s))
  PROVE  Sifted(f[Len(s)], s, S, u, age, Len(s))
<1> DEFINE B == {m \in 0 .. Len(s) : ~Sifted(f[m], s, S, u, age, m)}
<1>1. SUFFICES ASSUME B # {}
               PROVE  FALSE
  <2>1. Len(s) \in 0 .. Len(s)
    OBVIOUS
  <2>2. Len(s) \notin B
    BY <1>1
  <2>3. QED
    BY <2>1, <2>2
<1>2. Len(s) \in Nat /\ B \in SUBSET (0 .. Len(s)) /\ s \in Seq(Nat)
  <2>1. s \in Seq(Nat)
    BY SeqMonotonic
  <2>2. QED
    BY <2>1
<1>3. PICK m \in B : \A k \in 0 .. m - 1 : k \notin B
  <2> HIDE DEF B
  <2>1. QED
    BY <1>1, <1>2, Least
<1>4. m \in 0 .. Len(s) /\ ~Sifted(f[m], s, S, u, age, m)
  OBVIOUS
<1>5. \A n \in 0 .. Len(s) : f[n] = IF n = 0 THEN <<>>
                                    ELSE IF u - s[n] < age THEN Append(f[n - 1], s[n])
                                    ELSE f[n - 1]
  BY DEF Filters
<1>6. m # 0
  <2>1. SUFFICES ASSUME m = 0
                 PROVE  Sifted(f[0], s, S, u, age, 0)
    BY <1>4
  <2>2. f[0] = <<>>
    BY <1>4, <1>5, <2>1
  <2>3. <<>> \in Seq(S) /\ Len(<<>>) = 0
    OBVIOUS
  <2>4. ASSUME NEW t
        PROVE  Since(<<>>, t) = Cardinality(Early(s, t, 0))
    <3>1. {j \in 1 .. Len(<<>>) : <<>>[j] >= t} = {} /\ Early(s, t, 0) = {}
      BY <2>3 DEF Early
    <3>2. QED
      BY <3>1 DEF Since
  <2>5. QED
    BY <2>2, <2>3, <2>4 DEF Sifted
<1>7. Sifted(f[m - 1], s, S, u, age, m - 1)
  BY <1>2, <1>3, <1>6
<1>8. m \in 1 .. Len(s) /\ s[m] \in S /\ s[m] \in Nat
  <2>1. m \in 1 .. Len(s)
    BY <1>4, <1>6
  <2>2. s[m] \in S
    BY <2>1, Element
  <2>3. QED
    BY <2>1, <2>2
<1> HIDE DEF B
<1> DEFINE r == f[m - 1]
<1>9. /\ r \in Seq(S) /\ Len(r) <= m - 1
      /\ \A t \in Int : t > u - age => Since(r, t) = Cardinality(Early(s, t, m - 1))
  BY <1>7 DEF Sifted
<1>10. f[m] = IF u - s[m] < age THEN Append(r, s[m]) ELSE r
  BY <1>5, <1>8
<1> HIDE DEF r
<1>11. \A t : /\ Cardinality(Early(s, t, m - 1)) \in Nat
              /\ Cardinality(Early(s, t, m)) =
                   Cardinality(Early(s, t, m - 1)) + One(s[m] >= t)
  BY <1>2, <1>8, EarlyGrows
<1>12. CASE u - s[m] < age
  <2>1. f[m] = Append(r, s[m])
    BY <1>10, <1>12
  <2>2. Append(r, s[m]) \in Seq(S) /\ Len(Append(r, s[m])) = Len(r) + 1 /\ Len(r) \in Nat
    BY <1>8, <1>9, AppendKind
  <2>3. r \in Seq(Nat)
    BY <1>9, SeqMonotonic
  <2>4. ASSUME NEW t \in Int, t > u - age
        PROVE  Since(f[m], t) = Cardinality(Early(s, t, m))
    <3>1. Since(Append(r, s[m]), t) = Since(r, t) + One(s[m] >= t)
      BY <1>8, <2>3, SinceAppends
    <3>2. QED
      BY <1>9, <1>11, <2>1, <2>4, <3>1
  <2>5. Len(f[m]) <= m
    BY <1>8, <1>9, <2>1, <2>2
  <2>6. QED
    BY <1>4, <2>1, <2>2, <2>4, <2>5 DEF Sifted
<1>13. CASE ~(u - s[m] < age)
  <2>1. f[m] = r
    BY <1>10, <1>13
  <2>2. ASSUME NEW t \in Int, t > u - age
        PROVE  Since(f[m], t) = Cardinality(Early(s, t, m))
    <3>1. ~(s[m] >= t)
      BY <1>8, <1>13, <2>2
    <3>2. One(s[m] >= t) = 0
      BY <3>1 DEF One
    <3>3. QED
      BY <1>9, <1>11, <2>1, <2>2, <3>2
  <2>3. Len(f[m]) <= m
    <3>1. Len(r) \in Nat
      BY <1>9
    <3>2. QED
      BY <1>8, <1>9, <2>1, <3>1
  <2>4. QED
    BY <1>4, <1>9, <2>1, <2>2, <2>3 DEF Sifted
<1>14. QED
  BY <1>12, <1>13

\* What is within the window is all of what came after its start.
LEMMA WithinKeeps ==
  ASSUME NEW S \in SUBSET Nat, NEW k, bucket[k] \in Seq(S), now \in Int, NEW age \in Int
  PROVE  /\ Within(k, age) \in Seq(S) /\ Len(Within(k, age)) \in Nat
         /\ Len(Within(k, age)) <= Len(bucket[k])
         /\ \A t \in Int : t > now - age => Since(Within(k, age), t) = Since(bucket[k], t)
<1> DEFINE b == bucket[k]
           f == CHOOSE g : Filters(g, b, now, age, Len(b))
<1>1. b \in Seq(S) /\ b \in Seq(Nat)
  BY SeqMonotonic
<1>2. Within(k, age) = f[Len(b)]
  BY DEF Within, Filters
<1> HIDE DEF b
<1>3. \E g : Filters(g, b, now, age, Len(b))
  BY <1>1, FilterExists
<1>4. Filters(f, b, now, age, Len(b))
  BY <1>3
<1> HIDE DEF f
<1>5. Sifted(f[Len(b)], b, S, now, age, Len(b))
  BY <1>1, <1>4, FilterKeeps
<1>6. \A t : Since(b, t) = Cardinality(Early(b, t, Len(b)))
  BY DEF Since, Early
<1>7. f[Len(b)] \in Seq(S)
  BY <1>5 DEF Sifted
<1>8. Len(f[Len(b)]) \in Nat
  BY <1>7
<1>9. QED
  BY <1>2, <1>5, <1>6, <1>7, <1>8 DEF Sifted, b

\* How many of an order fall into the window that starts at t.
Inside(s, t) == Cardinality({j \in DOMAIN s : s[j] \in t .. t + Window - 1})

\* Whatever the window, no more than the limit was let in for each life of the process;
\* and of a window that is not over, each one let in by this one is in the bucket.
RateInv ==
  /\ now \in Nat /\ crashes \in Nat
  /\ bucket \in [Key -> Seq(0 .. now)] /\ seen \in [Key -> Seq(0 .. now)]
  /\ \A k \in Key : Len(bucket[k]) <= Limit
  /\ \A k \in Key, t \in Int :
       /\ Inside(seen[k], t) <= Limit * crashes + Limit
       /\ t > now - Window => Inside(seen[k], t) <= Limit * crashes + Since(bucket[k], t)

\* One more.
LEMMA InsideAppends ==
  ASSUME NEW s \in Seq(Nat), NEW x \in Nat, NEW t \in Int
  PROVE  /\ Inside(s, t) \in Nat
         /\ Inside(Append(s, x), t) = Inside(s, t) + One(x \in t .. t + Window - 1)
<1> DEFINE S == {j \in DOMAIN s : s[j] \in t .. t + Window - 1}
           T == {j \in DOMAIN Append(s, x) : Append(s, x)[j] \in t .. t + Window - 1}
           n == Len(s) + 1
<1>1. /\ Len(s) \in Nat /\ DOMAIN s = 1 .. Len(s) /\ DOMAIN Append(s, x) = 1 .. n
      /\ Append(s, x)[n] = x
      /\ \A j \in 1 .. Len(s) : Append(s, x)[j] = s[j]
  OBVIOUS
<1>2. IsFiniteSet(S)
  <2>1. IsFiniteSet(1 .. Len(s)) /\ S \subseteq 1 .. Len(s)
    BY <1>1, FS_Interval
  <2> HIDE DEF S
  <2>2. QED
    BY <2>1, FS_Subset
<1>3. T \ {n} = S \ {n} /\ n \notin S /\ (n \in T <=> x \in t .. t + Window - 1)
  <2>1. n \in 1 .. n /\ n \notin 1 .. Len(s) /\ (1 .. n) \ {n} = 1 .. Len(s)
    BY <1>1
  <2>2. QED
    BY <1>1, <2>1
<1>4. Inside(s, t) = Cardinality(S) /\ Inside(Append(s, x), t) = Cardinality(T)
  BY DEF Inside
<1> HIDE DEF S, T, n
<1>5. /\ Cardinality(S) \in Nat
      /\ Cardinality(T) = Cardinality(S) - One(n \in S) + One(n \in T)
  BY <1>2, <1>3, CountMoves
<1>6. /\ One(n \in S) = 0 /\ One(n \in T) = One(x \in t .. t + Window - 1)
      /\ One(n \in T) \in Int
  BY <1>3 DEF One
<1>7. QED
  BY <1>4, <1>5, <1>6

\* No more than there are.
LEMMA SinceBounded ==
  ASSUME NEW s \in Seq(Nat), NEW t
  PROVE  Since(s, t) \in Nat /\ Since(s, t) <= Len(s)
<1> DEFINE n == Len(s)
           S == {j \in 1 .. n : s[j] >= t}
<1>1. n \in Nat /\ S \subseteq 1 .. n
  OBVIOUS
<1>2. Since(s, t) = Cardinality(S)
  BY DEF Since
<1> HIDE DEF S, n
<1>3. IsFiniteSet(1 .. n) /\ Cardinality(1 .. n) = IF 1 > n THEN 0 ELSE n - 1 + 1
  <2>1. 1 \in Int /\ n \in Int
    BY <1>1
  <2>2. QED
    BY <2>1, FS_Interval
<1>4. Cardinality(1 .. n) = n
  BY <1>1, <1>3
<1>5. Cardinality(S) \in Nat /\ Cardinality(S) <= Cardinality(1 .. n)
  BY <1>1, <1>3, Shrinks
<1>6. QED
  BY <1>2, <1>4, <1>5 DEF n

\* The start.
LEMMA RateInit == Init => RateInv
<1> SUFFICES ASSUME Init PROVE RateInv
  OBVIOUS
<1>1. /\ now = 0 /\ crashes = 0
      /\ bucket = [k \in Key |-> <<>>] /\ seen = [k \in Key |-> <<>>]
  BY DEF Init
<1>2. bucket \in [Key -> Seq(0 .. now)] /\ seen \in [Key -> Seq(0 .. now)]
  BY <1>1
<1>3. \A t : Inside(<<>>, t) = 0 /\ Since(<<>>, t) \in Nat
  <2> TAKE t
  <2>1. {j \in DOMAIN <<>> : <<>>[j] \in t .. t + Window - 1} = {}
        /\ {j \in 1 .. Len(<<>>) : <<>>[j] >= t} = {}
    OBVIOUS
  <2>2. QED
    BY <2>1, FS_EmptySet DEF Inside, Since
<1>4. Len(<<>>) = 0 /\ Limit \in Nat /\ Limit * 0 = 0
  BY IngressAssumption
<1>5. \A k \in Key : bucket[k] = <<>> /\ seen[k] = <<>>
  BY <1>1
<1>6. QED
  BY <1>1, <1>2, <1>3, <1>4, <1>5 DEF RateInv

\* The bound for one life of the process.
LEMMA Lives ==
  ASSUME NEW n \in Nat
  PROVE  Limit * n \in Nat /\ Limit * (n + 1) = Limit * n + Limit
  BY IngressAssumption

\* What still counts of a bucket is all of what came in a window that is not over.
LEMMA RecentKeeps ==
  ASSUME RateInv, NEW k \in Key
  PROVE  /\ Recent(k) \in Seq(0 .. now) /\ Len(Recent(k)) \in Nat
         /\ Len(Recent(k)) <= Len(bucket[k])
         /\ \A t \in Int : t > now - Window => Since(Recent(k), t) = Since(bucket[k], t)
<1> DEFINE S == 0 .. now
<1>1. now \in Int /\ Window \in Int /\ bucket[k] \in Seq(S) /\ S \in SUBSET Nat
  BY IngressAssumption DEF RateInv
<1> HIDE DEF S
<1>2. /\ Within(k, Window) \in Seq(S) /\ Len(Within(k, Window)) \in Nat
      /\ Len(Within(k, Window)) <= Len(bucket[k])
      /\ \A t \in Int : t > now - Window =>
           Since(Within(k, Window), t) = Since(bucket[k], t)
  BY <1>1, WithinKeeps
<1>3. QED
  BY <1>2 DEF Recent, S

\* A message that is let in is in its bucket with all that came in its window.
LEMMA RateAdmit ==
  ASSUME RateInv, NEW k \in Key,
         ~(Len(Recent(k)) >= Limit),
         bucket' = [bucket EXCEPT ![k] = Append(Recent(k), now)],
         seen' = [seen EXCEPT ![k] = Append(@, now)],
         UNCHANGED <<now, crashes>>
  PROVE  RateInv'
<1> DEFINE r == Recent(k)
           b == bucket[k]
           s == seen[k]
           bound == Limit * crashes
<1>1. /\ now \in Nat /\ crashes \in Nat /\ Limit \in Nat /\ Window \in Nat /\ bound \in Nat
      /\ b \in Seq(0 .. now) /\ s \in Seq(0 .. now) /\ 0 .. now \in SUBSET Nat
  BY IngressAssumption, Lives DEF RateInv
<1>2. /\ r \in Seq(0 .. now) /\ Len(r) \in Nat /\ Len(r) <= Len(b)
      /\ \A t \in Int : t > now - Window => Since(r, t) = Since(b, t)
  BY RecentKeeps
<1>3. now \in 0 .. now
  BY <1>1
<1>4. /\ bucket' \in [Key -> Seq(0 .. now)] /\ seen' \in [Key -> Seq(0 .. now)]
      /\ bucket'[k] = Append(r, now) /\ seen'[k] = Append(s, now)
      /\ \A j \in Key \ {k} : bucket'[j] = bucket[j] /\ seen'[j] = seen[j]
  <2> DEFINE S == Seq(0 .. now)
             x == Append(r, now)
             y == Append(s, now)
  <2>1. x \in S /\ y \in S
    BY <1>1, <1>2, <1>3, AppendKind
  <2>2. bucket' = [bucket EXCEPT ![k] = x] /\ seen' = [seen EXCEPT ![k] = y]
    OBVIOUS
  <2>3. bucket \in [Key -> S] /\ seen \in [Key -> S]
    BY DEF RateInv
  <2> HIDE DEF S, x, y
  <2>4. /\ bucket' \in [Key -> S] /\ seen' \in [Key -> S]
        /\ bucket'[k] = x /\ seen'[k] = y
        /\ \A j \in Key \ {k} : bucket'[j] = bucket[j] /\ seen'[j] = seen[j]
    BY <2>1, <2>2, <2>3
  <2>5. QED
    BY <2>4 DEF S, x, y
<1>5. /\ Len(Append(r, now)) = Len(r) + 1 /\ Len(Append(r, now)) <= Limit
      /\ r \in Seq(Nat) /\ s \in Seq(Nat) /\ Append(r, now) \in Seq(Nat)
  <2>1. Len(Append(r, now)) = Len(r) + 1 /\ Append(r, now) \in Seq(0 .. now)
    BY <1>2, <1>3, AppendKind
  <2>2. r \in Seq(Nat) /\ s \in Seq(Nat) /\ Append(r, now) \in Seq(Nat)
    BY <1>1, <1>2, <2>1, SeqMonotonic
  <2>3. Len(r) < Limit
    BY <1>1, <1>2
  <2> HIDE DEF r, s
  <2>4. QED
    BY <1>1, <1>2, <2>1, <2>2, <2>3
<1>6. \A t \in Int : /\ Inside(s, t) <= bound + Limit
                     /\ t > now - Window => Inside(s, t) <= bound + Since(b, t)
  BY DEF RateInv
<1> HIDE DEF r, b, s, bound
<1>7. ASSUME NEW t \in Int
      PROVE  /\ Inside(Append(s, now), t) <= bound + Limit
             /\ t > now - Window =>
                  Inside(Append(s, now), t) <= bound + Since(Append(r, now), t)
  <2>1. /\ Inside(s, t) \in Nat
        /\ Inside(Append(s, now), t) = Inside(s, t) + One(now \in t .. t + Window - 1)
    BY <1>1, <1>5, InsideAppends
  <2>2. Since(r, t) \in Nat /\ Since(Append(r, now), t) = Since(r, t) + One(now >= t)
    BY <1>1, <1>5, SinceAppends
  <2>3. Since(Append(r, now), t) \in Nat /\ Since(Append(r, now), t) <= Len(Append(r, now))
    BY <1>5, SinceBounded
  <2>4. CASE t > now - Window
    <3>1. now \in t .. t + Window - 1 <=> now >= t
      BY <1>1, <2>4
    <3>2. One(now \in t .. t + Window - 1) = One(now >= t)
      BY <3>1 DEF One
    <3>3. Inside(s, t) <= bound + Since(r, t)
      BY <1>2, <1>6, <2>4
    <3>4. One(now >= t) \in Int
      BY DEF One
    <3>5. Inside(Append(s, now), t) <= bound + Since(Append(r, now), t)
      BY <1>1, <2>1, <2>2, <3>2, <3>3, <3>4
    <3>6. Len(Append(r, now)) \in Int /\ Len(Append(r, now)) <= Limit
      BY <1>2, <1>5
    <3>7. QED
      BY <1>1, <2>1, <2>2, <2>3, <3>2, <3>4, <3>5, <3>6
  <2>5. CASE ~(t > now - Window)
    <3>1. now \notin t .. t + Window - 1
      BY <1>1, <2>5
    <3>2. One(now \in t .. t + Window - 1) = 0
      BY <3>1 DEF One
    <3>3. QED
      BY <1>6, <2>1, <2>5, <3>2
  <2>6. QED
    BY <2>4, <2>5
<1>8. UNCHANGED <<now, crashes>> /\ bound = Limit * crashes
  BY DEF bound
<1>9. \A j \in Key : Len(bucket[j]) <= Limit
  BY DEF RateInv
<1>10. \A j \in Key, t \in Int :
         /\ Inside(seen[j], t) <= bound + Limit
         /\ t > now - Window => Inside(seen[j], t) <= bound + Since(bucket[j], t)
  BY <1>8 DEF RateInv
<1>11. \A j \in Key : Len(bucket'[j]) <= Limit
  BY <1>4, <1>5, <1>9
<1>12. \A j \in Key, t \in Int :
         /\ Inside(seen'[j], t) <= bound + Limit
         /\ t > now - Window => Inside(seen'[j], t) <= bound + Since(bucket'[j], t)
  <2> SUFFICES ASSUME NEW j \in Key, NEW t \in Int
               PROVE  /\ Inside(seen'[j], t) <= bound + Limit
                      /\ t > now - Window =>
                           Inside(seen'[j], t) <= bound + Since(bucket'[j], t)
    OBVIOUS
  <2>1. CASE j = k
    BY <1>4, <1>7, <2>1
  <2>2. CASE j # k
    BY <1>4, <1>10, <2>2
  <2>3. QED
    BY <2>1, <2>2
<1>13. QED
  BY <1>1, <1>4, <1>8, <1>11, <1>12 DEF RateInv, Inside, Since

\* A message that is refused leaves in its bucket what still counts.
LEMMA RateRefuse ==
  ASSUME RateInv, NEW k \in Key,
         bucket' = [bucket EXCEPT ![k] = Recent(k)],
         UNCHANGED <<seen, now, crashes>>
  PROVE  RateInv'
<1> DEFINE r == Recent(k)
           b == bucket[k]
           S == Seq(0 .. now)
           bound == Limit * crashes
<1>1. /\ r \in S /\ Len(r) \in Nat /\ Len(r) <= Len(b)
      /\ \A t \in Int : t > now - Window => Since(r, t) = Since(b, t)
  BY RecentKeeps
<1>2. /\ bucket \in [Key -> S] /\ seen \in [Key -> S] /\ Limit \in Nat
      /\ now \in Nat /\ crashes \in Nat
  BY IngressAssumption DEF RateInv
<1>3. /\ \A j \in Key : Len(bucket[j]) <= Limit
      /\ \A j \in Key, t \in Int :
           /\ Inside(seen[j], t) <= bound + Limit
           /\ t > now - Window => Inside(seen[j], t) <= bound + Since(bucket[j], t)
  BY DEF RateInv
<1>4. bucket' = [bucket EXCEPT ![k] = r] /\ Len(b) \in Nat
  BY <1>2
<1>5. Len(r) <= Limit
  <2>1. Len(b) <= Limit /\ Len(b) \in Int /\ Len(r) \in Int /\ Limit \in Int
    BY <1>1, <1>2, <1>3, <1>4
  <2> HIDE DEF r, b
  <2>2. QED
    BY <1>1, <2>1
<1>6. b = bucket[k] /\ bound = Limit * crashes /\ S = Seq(0 .. now)
  OBVIOUS
<1> HIDE DEF r, b, S, bound
<1>7. bucket' \in [Key -> S] /\ bucket'[k] = r /\ \A j \in Key \ {k} : bucket'[j] = bucket[j]
  BY <1>1, <1>2, <1>4
<1>8. \A j \in Key : Len(bucket'[j]) <= Limit
  BY <1>3, <1>5, <1>7
<1>9. \A j \in Key, t \in Int :
        /\ Inside(seen[j], t) <= bound + Limit
        /\ t > now - Window => Inside(seen[j], t) <= bound + Since(bucket'[j], t)
  BY <1>1, <1>3, <1>6, <1>7
<1>10. now' = now /\ crashes' = crashes /\ seen' = seen
  OBVIOUS
<1>11. /\ bucket' \in [Key -> Seq(0 .. now')] /\ seen' \in [Key -> Seq(0 .. now')]
       /\ now' \in Nat /\ crashes' \in Nat
  BY <1>2, <1>6, <1>7, <1>10
<1>12. \A j \in Key, t \in Int :
         /\ Inside(seen'[j], t) <= Limit * crashes' + Limit
         /\ t > now' - Window => Inside(seen'[j], t) <= Limit * crashes' + Since(bucket'[j], t)
  BY <1>6, <1>9, <1>10
<1>13. QED
  BY <1>8, <1>11, <1>12 DEF RateInv, Inside, Since

\* A window that was over stays over.
LEMMA RateTick ==
  ASSUME RateInv, now' = now + 1, UNCHANGED <<bucket, seen, crashes>>
  PROVE  RateInv'
<1>1. now \in Nat /\ now' \in Nat /\ 0 .. now \subseteq 0 .. now' /\ Window \in Nat
      /\ \A t \in Int : t > now' - Window => t > now - Window
  BY IngressAssumption DEF RateInv
<1>2. \A k \in Key : bucket[k] \in Seq(0 .. now) /\ seen[k] \in Seq(0 .. now)
  BY DEF RateInv
<1>3. \A k \in Key : bucket[k] \in Seq(0 .. now') /\ seen[k] \in Seq(0 .. now')
  BY <1>1, <1>2, SeqMonotonic
<1>4. bucket \in [Key -> Seq(0 .. now')] /\ seen \in [Key -> Seq(0 .. now')]
  <2> DEFINE S == Seq(0 .. now')
  <2>1. bucket = [k \in Key |-> bucket[k]] /\ seen = [k \in Key |-> seen[k]]
    BY DEF RateInv
  <2>2. \A k \in Key : bucket[k] \in S /\ seen[k] \in S
    BY <1>3
  <2> HIDE DEF S
  <2>3. bucket \in [Key -> S] /\ seen \in [Key -> S]
    BY <2>1, <2>2
  <2>4. QED
    BY <2>3 DEF S
<1>5. \A k \in Key, t \in Int :
        /\ Inside(seen[k], t) <= Limit * crashes + Limit
        /\ t > now' - Window => Inside(seen[k], t) <= Limit * crashes + Since(bucket[k], t)
  BY <1>1 DEF RateInv
<1>6. crashes \in Nat /\ \A k \in Key : Len(bucket[k]) <= Limit
  BY DEF RateInv
<1>7. QED
  BY <1>1, <1>4, <1>5, <1>6 DEF RateInv, Inside, Since

\* What a crash forgets of the buckets, the next life is allowed again.
LEMMA RateCrash ==
  ASSUME RateInv, bucket' = [k \in Key |-> <<>>], crashes' = crashes + 1,
         UNCHANGED <<now, seen>>
  PROVE  RateInv'
<1> DEFINE bound == Limit * crashes
           wider == Limit * crashes'
<1>1. /\ now \in Nat /\ crashes \in Nat /\ crashes' \in Nat /\ Limit \in Nat
      /\ bound \in Nat /\ wider = bound + Limit
  BY IngressAssumption, Lives DEF RateInv
<1>2. bucket' \in [Key -> Seq(0 .. now)] /\ \A k \in Key : bucket'[k] = <<>>
  OBVIOUS
<1>3. Len(<<>>) = 0 /\ <<>> \in Seq(Nat)
  OBVIOUS
<1>4. \A t : Since(<<>>, t) \in Nat
  BY <1>3, SinceBounded
<1>5. seen \in [Key -> Seq(0 .. now)]
      /\ \A k \in Key, t \in Int : Inside(seen[k], t) <= bound + Limit
  BY DEF RateInv
<1>6. \A k \in Key : seen[k] \in Seq(Nat)
  BY <1>1, <1>5, SeqMonotonic
<1>7. \A k \in Key, t \in Int : Inside(seen[k], t) \in Nat
  <2> SUFFICES ASSUME NEW k \in Key, NEW t \in Int
               PROVE  Inside(seen[k], t) \in Nat
    OBVIOUS
  <2>1. seen[k] \in Seq(Nat) /\ 0 \in Nat
    BY <1>6
  <2>2. QED
    BY <2>1, InsideAppends
<1> HIDE DEF bound
<1>8. \A k \in Key : Len(bucket'[k]) <= Limit
  BY <1>1, <1>2, <1>3
<1>9. wider = Limit * crashes'
  OBVIOUS
<1> HIDE DEF wider
<1>10. \A k \in Key, t \in Int :
         /\ Inside(seen[k], t) <= wider + Limit
         /\ t > now - Window => Inside(seen[k], t) <= wider + Since(bucket'[k], t)
  <2> SUFFICES ASSUME NEW k \in Key, NEW t \in Int
               PROVE  /\ Inside(seen[k], t) <= wider + Limit
                      /\ Inside(seen[k], t) <= wider + Since(bucket'[k], t)
    OBVIOUS
  <2>1. Inside(seen[k], t) <= bound + Limit /\ Inside(seen[k], t) \in Nat
    BY <1>5, <1>7
  <2>2. Since(bucket'[k], t) \in Nat
    BY <1>2, <1>4
  <2>3. QED
    BY <1>1, <2>1, <2>2
<1>11. now' = now /\ seen' = seen
  OBVIOUS
<1>12. /\ bucket' \in [Key -> Seq(0 .. now')] /\ seen' \in [Key -> Seq(0 .. now')]
       /\ now' \in Nat
  BY <1>1, <1>2, <1>5, <1>11
<1>13. \A k \in Key, t \in Int :
         /\ Inside(seen'[k], t) <= Limit * crashes' + Limit
         /\ t > now' - Window => Inside(seen'[k], t) <= Limit * crashes' + Since(bucket'[k], t)
  BY <1>9, <1>10, <1>11
<1>14. QED
  BY <1>1, <1>8, <1>12, <1>13 DEF RateInv, Inside, Since

\* Nothing that is not about the rate.
LEMMA RateStill ==
  ASSUME RateInv, UNCHANGED <<now, bucket, seen, crashes>>
  PROVE  RateInv'
  BY DEF RateInv, Inside, Since

\* Every step keeps the rate.
LEMMA RateStep ==
  ASSUME WorkInv, RateInv, [Next]_vars
  PROVE  RateInv'
<1> USE DEF money
<1>1. ASSUME NEW c \in Worker, Admit(c)
      PROVE  RateInv'
  <2> DEFINE k == w[c].mail.key
  <2>1. k \in Key
    <3>1. w[c].mail # None /\ w[c].mail \in Mails
      BY <1>1, Posted, AtWork DEF Admit, At
    <3>2. QED
      BY <3>1, Posted DEF WorkInv, Mails, IsMail
  <2>2. \/ UNCHANGED <<now, bucket, seen, crashes>>
        \/ /\ bucket' = [bucket EXCEPT ![k] = Recent(k)]
           /\ UNCHANGED <<seen, now, crashes>>
        \/ /\ ~(Len(Recent(k)) >= Limit)
           /\ bucket' = [bucket EXCEPT ![k] = Append(Recent(k), now)]
           /\ seen' = [seen EXCEPT ![k] = Append(@, now)]
           /\ UNCHANGED <<now, crashes>>
    BY <1>1 DEF Admit, Mail
  <2> HIDE DEF k
  <2>3. QED
    BY <2>1, <2>2, RateStill, RateRefuse, RateAdmit
<1>2. ASSUME NEW c \in Worker,
             \/ \E m \in Mails : Post(c, m) \/ Call(c, m)
             \/ Greet(c)
             \/ Answer(c)
             \/ Request(c)
             \/ Execute(c)
      PROVE  UNCHANGED <<now, bucket, seen, crashes>>
  <2>1. CASE \E m \in Mails : Post(c, m) \/ Call(c, m)
    BY <2>1 DEF Post, Call, Begin
  <2>2. CASE Greet(c)
    BY <2>2 DEF Greet
  <2>3. CASE Answer(c)
    BY <2>3 DEF Answer
  <2>4. CASE Request(c)
    BY <2>4 DEF Request, Ask, Memo, Note, Confirm, WrongPin, NoDigits, Cancel
  <2>5. CASE Execute(c)
    BY <2>5 DEF Execute, ClaimKey, Transfer, Charge, GetToken, Detect, Provide, Refund, Clear
  <2>6. QED
    BY <1>2, <2>1, <2>2, <2>3, <2>4, <2>5
<1>3. CASE Tick
  BY <1>3, RateTick DEF Tick
<1>4. CASE TokenEnds
  BY <1>4, RateStill DEF TokenEnds
<1>5. CASE Crash
  BY <1>5, RateCrash DEF Crash
<1>6. CASE UNCHANGED vars
  BY <1>6, RateStill DEF vars
<1>7. QED
  BY <1>1, <1>2, <1>3, <1>4, <1>5, <1>6, RateStill DEF Next

\* No key lets through more than the limit in any window, for each life of the process:
\* what the buckets forget of a window is over, or went with a crash.
THEOREM RateIsKept == Spec => []WindowLimit
<1>1. WorkInv /\ RateInv => WindowLimit
  <2> SUFFICES ASSUME RateInv, NEW k \in Key, NEW t \in 0 .. MaxNow
               PROVE  Inside(seen[k], t) <= Limit * (1 + crashes)
    BY DEF WindowLimit, Inside
  <2>1. t \in Int /\ crashes \in Nat /\ 1 + crashes = crashes + 1
    BY IngressAssumption DEF RateInv
  <2>2. Inside(seen[k], t) <= Limit * crashes + Limit
    BY <2>1 DEF RateInv
  <2>3. QED
    BY <2>1, <2>2, Lives
<1>2. IInv => WorkInv
  BY DEF IInv
<1>3. IInv /\ RateInv /\ [Next]_vars => (IInv /\ RateInv)'
  BY <1>2, IInvStep, RateStep
<1>4. Init => IInv /\ RateInv
  BY IInvInit, RateInit
<1>5. QED
  BY <1>1, <1>2, <1>3, <1>4, PTL DEF Spec

-----------------------------------------------------------------------------
(* The types, and the bounds of the model.                                  *)

\* What no other invariant says.
RestInv ==
  /\ now \in 0 .. MaxNow /\ crashes \in 0 .. MaxCrash
  /\ token \in {"none", "good", "dead"}
  /\ answered \subseteq Mails /\ tries \in [Mails -> 0 .. MaxTries]
  /\ strayed \subseteq Account /\ met \subseteq Account

\* The start.
LEMMA RestInit == Init => RestInv
  BY IngressAssumption DEF Init, RestInv

\* A mail is posted within its bound, and whoever it meets has an account.
LEMMA RestBegins ==
  ASSUME WorkInv, RestInv, NEW c \in Worker, NEW m \in Mails, Post(c, m) \/ Call(c, m)
  PROVE  RestInv'
<1>1. PICK pc \in {"next", "greet"} : Begin(c, m, pc)
  BY DEF Post, Call
<1>2. /\ tries' = [tries EXCEPT ![m] = @ + 1]
      /\ UNCHANGED <<menu, now, crashes, token, answered, strayed>>
      /\ met' = met \/ met' = met \cup {m.account}
  BY <1>1 DEF Begin, money
<1>3. m.account \in Account
  BY Posted DEF WorkInv, Mails, IsMail
<1>4. tries[m] < MaxTries
  BY IngressAssumption DEF Post, Call
<1>5. tries' \in [Mails -> 0 .. MaxTries]
  <2>1. tries[m] \in 0 .. MaxTries /\ MaxTries \in Nat
    BY IngressAssumption DEF RestInv
  <2>2. tries[m] + 1 \in 0 .. MaxTries
    BY <1>4, <2>1
  <2>3. QED
    BY <1>2, <2>2 DEF RestInv
<1>6. Mails' = Mails
  BY <1>2 DEF Mails
<1>7. QED
  BY <1>2, <1>3, <1>5, <1>6 DEF RestInv

\* Every step keeps the rest.
LEMMA RestStep ==
  ASSUME WorkInv, RestInv, [Next]_vars
  PROVE  RestInv'
<1> USE DEF money
<1>1. ASSUME NEW c \in Worker,
             \/ Greet(c) \/ Admit(c)
             \/ Ask(c) \/ Memo(c) \/ Note(c) \/ WrongPin(c) \/ NoDigits(c) \/ Cancel(c)
             \/ ClaimKey(c) \/ Transfer(c) \/ Charge(c) \/ Detect(c) \/ Provide(c)
             \/ Refund(c) \/ Clear(c)
      PROVE  UNCHANGED <<menu, now, crashes, token, answered, tries, strayed, met>>
  <2>1. CASE \/ Greet(c) \/ Admit(c)
             \/ Ask(c) \/ Memo(c) \/ Note(c) \/ WrongPin(c) \/ NoDigits(c) \/ Cancel(c)
    BY <2>1 DEF Greet, Admit, Ask, Memo, Note, WrongPin, NoDigits, Cancel
  <2>2. CASE \/ ClaimKey(c) \/ Transfer(c) \/ Charge(c) \/ Detect(c) \/ Provide(c)
             \/ Refund(c) \/ Clear(c)
    BY <2>2 DEF ClaimKey, Transfer, Charge, Detect, Provide, Refund, Clear
  <2>3. QED
    BY <1>1, <2>1, <2>2
<1>2. ASSUME UNCHANGED <<menu, now, crashes, token, answered, tries, strayed, met>>
      PROVE  RestInv'
  BY <1>2 DEF RestInv, Mails
<1>3. ASSUME NEW c \in Worker, GetToken(c)
      PROVE  RestInv'
  <2>1. /\ UNCHANGED <<menu, now, crashes, answered, tries, strayed, met>>
        /\ token' \in {token, "good"}
    BY <1>3 DEF GetToken
  <2>2. QED
    BY <2>1 DEF RestInv, Mails
<1>4. ASSUME NEW c \in Worker, Answer(c)
      PROVE  RestInv'
  <2>1. w[c].mail \in Mails
    BY <1>4, Posted, AtWork DEF Answer, At
  <2>2. /\ UNCHANGED <<menu, now, crashes, token, tries, strayed, met>>
        /\ answered' = answered \cup {w[c].mail}
    BY <1>4 DEF Answer, Mail
  <2>3. QED
    BY <2>1, <2>2 DEF RestInv, Mails
<1>5. ASSUME NEW c \in Worker, Confirm(c)
      PROVE  RestInv'
  <2>1. Session(c) \in Account
    BY <1>5, Posted, AtWork DEF Confirm, At
  <2>2. /\ UNCHANGED <<menu, now, crashes, token, answered, tries, met>>
        /\ strayed' = strayed \/ strayed' = strayed \cup {Session(c)}
    BY <1>5 DEF Confirm
  <2>3. QED
    BY <2>1, <2>2 DEF RestInv, Mails
<1>6. CASE Tick
  <2>1. now' \in 0 .. MaxNow
    BY <1>6, IngressAssumption DEF Tick, RestInv
  <2>2. QED
    BY <1>6, <2>1 DEF Tick, RestInv, Mails
<1>7. CASE TokenEnds
  BY <1>7 DEF TokenEnds, RestInv, Mails
<1>8. CASE Crash
  <2>1. crashes' \in 0 .. MaxCrash
    BY <1>8, IngressAssumption DEF Crash, RestInv
  <2>2. QED
    BY <1>8, <2>1 DEF Crash, RestInv, Mails
<1>9. CASE UNCHANGED vars
  BY <1>2, <1>9 DEF vars
<1>10. QED
  BY <1>1, <1>2, <1>3, <1>4, <1>5, <1>6, <1>7, <1>8, <1>9, RestBegins
     DEF Next, Request, Execute

\* The types: whoever works has a mail, every request parked, taken up or claimed has a
\* number that was given out, and no refund was booked that there was no money for.
THEOREM IngressIsTyped == Spec => []TypeOK
<1> DEFINE Inv == IInv /\ KeyInv /\ ServeInv /\ AirInv /\ RateInv /\ RestInv
<1>1. Inv => TypeOK
  <2> SUFFICES ASSUME WorkInv, KeyInv, ServeInv, AirInv, RateInv, RestInv
               PROVE  TypeOK
    BY DEF IInv
  <2>1. \A r \in Req : ReqOK(r, parked, Airtime) => r \in Requests
    <3> SUFFICES ASSUME NEW r \in Req, ReqOK(r, parked, Airtime)
                 PROVE  r \in Requests
      OBVIOUS
    <3>1. parked \in Nat
      BY DEF WorkInv
    <3>2. r.key \in 0 .. parked
      <4>1. CASE r = NoReq
        BY <3>1, <4>1 DEF NoReq
      <4>2. CASE r # NoReq
        BY <3>1, <4>2 DEF ReqOK
      <4>3. QED
        BY <4>1, <4>2
    <3>3. QED
      BY <3>2 DEF Req, Requests
  <2>2. sess \in [Account -> Requests]
    <3>1. \A a \in Account : sess[a] \in Req /\ ReqOK(sess[a], parked, Airtime)
      BY DEF WorkInv, KeyInv
    <3>2. \A a \in Account : sess[a] \in Requests
      BY <2>1, <3>1
    <3>3. sess = [a \in Account |-> sess[a]]
      BY DEF WorkInv
    <3>4. QED
      BY <3>2, <3>3
  <2>3. ASSUME NEW c \in Worker
        PROVE  (At(c, "idle") <=> w[c] = Idle) /\ w[c].req \in Requests
    <3>1. CASE w[c] = Idle
      <4>1. NoReq \in Requests
        BY <2>1, Posted, IdleHand
      <4>2. QED
        BY <3>1, <4>1, Posted DEF At
    <3>2. CASE w[c] # Idle
      <4>1. w[c].pc # "idle" /\ w[c].req \in Req
        BY <3>2, AtWork
      <4>2. ReqOK(w[c].req, parked, Airtime)
        BY DEF KeyInv, HandOK
      <4>3. QED
        BY <2>1, <3>2, <4>1, <4>2 DEF At
    <3>3. QED
      BY <3>1, <3>2
  <2>4. \A k \in Key : bucket[k] \in Seq(0 .. now) /\ Len(bucket[k]) <= Limit
    BY DEF RateInv
  <2>5. claimed \subseteq 1 .. parked
    BY DEF KeyInv
  <2>6. paid \in [Id -> Nat] /\ aired \in Nat /\ till \in Nat /\ unheard \in 0 .. aired
    BY DEF ServeInv, AirInv
  <2>7. QED
    BY <2>2, <2>3, <2>4, <2>5, <2>6 DEF TypeOK, RestInv
<1>2. Init => Inv
  BY IInvInit, KeyInit, AirInit, RateInit, RestInit
<1>3. Inv /\ [Next]_vars => Inv'
  <2> SUFFICES ASSUME Inv, [Next]_vars
               PROVE  Inv'
    OBVIOUS
  <2>1. IInv' /\ WorkInv
    BY IInvStep DEF IInv
  <2>2. KeyInv' /\ ServeInv' /\ AirInv'
    BY <2>1, KeyStep, AirStep
  <2>3. RateInv' /\ RestInv'
    BY <2>1, RateStep, RestStep
  <2>4. QED
    BY <2>1, <2>2, <2>3
<1>4. QED
  BY <1>1, <1>2, <1>3, PTL DEF Spec
=============================================================================
