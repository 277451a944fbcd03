------------------------------ MODULE MCIngress ------------------------------
\* Two workers, over menus that each bring together one way of coming in with
\* what it meets in the sessions.
EXTENDS Ingress, TLC

CONSTANTS ops, ann, i1, i2

MCKey     == {"bob", "ann"}
MCAccount == {ops, ann}

Cmd(op, id) == [op |-> op, id |-> id]
Yes == Cmd("confirm", None)
Mail1(via, key, account, cmds) == [via |-> via, key |-> key, account |-> account, cmds |-> cmds]
Paying(via, key, account, id) == Mail1(via, key, account, <<Cmd("send", id), Yes>>)
Topping(via, key, account, id) == Mail1(via, key, account, <<Cmd("topup", id), Yes>>)

Menu(mails, funds, does) == [mails |-> mails, till |-> funds, does |-> does]

MCMenus ==
    { \* a batch of a chat, refused midway and posted again, and a second chat message
      Menu({Paying("chat", "ann", ann, i1), Mail1("chat", "ann", ann, <<Yes>>)}, 0, {"tick", "crash"}),
      Menu({Paying("chat", "ann", ann, i1),
            Mail1("chat", "ann", ann, <<Cmd("send", i2), Cmd("cancel", None)>>)}, 0, {}),
      \* two deliveries for agents
      Menu({Paying("agent", "ann", ops, i1), Paying("agent", "bob", ops, i2)}, 1, {"crash"}),
      \* a call, and chats of the same account
      Menu({Paying("call", "ann", ann, i1), Paying("chat", "ann", ann, i2)}, 0, {"crash"}),
      \* airtime, and an agent's delivery out of the account it is refunded from
      Menu({Topping("chat", "ann", ann, i1), Paying("agent", "bob", ops, i2)}, 0, {"crash"}),
      Menu({Topping("call", "ann", ann, i1), Mail1("chat", "ann", ann, <<Yes>>)}, 1, {"token_ends"}),
      \* a call left in the middle, and the next one
      Menu({Paying("call", "ann", ann, i1), Topping("call", "ann", ann, i2)}, 1, {"token_ends"}) }

Symmetry == Permutations(Worker)
=============================================================================
