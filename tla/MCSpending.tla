----------------------------- MODULE MCSpending ------------------------------
\* One account and two requests at a time, over menus that each bring together
\* the commands one limit is about.
EXTENDS Spending, TLC

OneTier(n) == [t \in Tier |-> n]
MCPerTx == OneTier(2)
MCDaily == OneTier(2)
MCHard  == OneTier(3)

\* Ben has an account, Ann none (a send to her is held in escrow), and Bob is a
\* contact saved with an address only.
Ben == [label |-> "ben", phone |-> "+1", address |-> "0xb", claim |-> FALSE,
        holds |-> {"ben"}, digits |-> {}]
Ann == [label |-> "ann", phone |-> "+2", address |-> None, claim |-> TRUE,
        holds |-> {}, digits |-> {"+2"}]
Bob == [label |-> "bob", phone |-> None, address |-> "0xc", claim |-> FALSE,
        holds |-> {}, digits |-> {}]
MCPayee == {Ben, Ann, Bob}

NoBen   == [kind |-> "deny_label", max |-> 0, label |-> "ben"]
NoTwo   == [kind |-> "max_per_tx_usdc", max |-> 1, label |-> None]
NoNew   == [kind |-> "max_new_payee_usdc", max |-> 0, label |-> None]
MCDraft == {<<NoBen, NoTwo>>, <<NoNew>>}

Menu(does, amounts, payees, funds, gas, requests) ==
    [does |-> does, amounts |-> amounts, payees |-> payees, funds |-> funds,
     gas |-> gas, requests |-> requests]

MCMenus ==
    { Menu({"send", "confirm", "new_day"}, {2}, {Ben}, 8, 0, 4),
      Menu({"send", "confirm", "crash"}, {2}, {Ben}, 8, 0, 3),
      Menu({"send", "confirm"}, {1}, {Ann}, 4, 0, 4),
      Menu({"send", "swap", "confirm", "report_sim", "callback", "risk_passes"}, {3}, {Ben}, 6, 0, 2),
      Menu({"set_policy", "clear_policy", "confirm", "cancel", "crash"}, {}, {}, 0, 0, 2),
      Menu({"set_policy", "send", "confirm"}, {1, 2}, {Ben, Bob}, 4, 0, 3),
      Menu({"lock", "send", "confirm", "mature"}, {1, 2}, {Ben}, 3, 1, 3),
      Menu({"lock", "swap", "topup", "confirm", "deposit"}, {1, 2}, {}, 2, 1, 2),
      Menu({"price", "rate", "crash", "new_day"}, {}, {}, 0, 0, 4),
      Menu({"price", "others"}, {}, {}, 0, 0, 4) }

Symmetry == Permutations(Caller)
=============================================================================
