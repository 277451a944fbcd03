----------------------------- MODULE MCAccounts ------------------------------
\* Two commands at a time, over menus that each bring together the commands one
\* part of the account is about.
EXTENDS Accounts, TLC

CONSTANTS p1, p2, t1, t2

Old(wallet) == [NewUser(wallet, TRUE) EXCEPT !.pin = 1]
NoUsers  == [p \in Phone |-> NoUser]
OneUser  == [p \in Phone |-> IF p = p1 THEN Old(1) ELSE NoUser]
AllUsers == [p \in Phone |-> IF p = p1 THEN Old(1) ELSE Old(2)]
NoLinks  == [t \in Chat |-> None]
Linked   == [t \in Chat |-> IF t = t1 THEN p1 ELSE None]

Menu(does, kinds, start, chats, commands) ==
    [does |-> does, kinds |-> kinds, users |-> start, links |-> chats, commands |-> commands]

MCMenus ==
    { Menu({"call", "name", "join", "set_pin"}, {}, NoUsers, NoLinks, 4),
      Menu({"ask", "confirm", "change_pin", "lock_passes"}, {"pay", "standing"}, OneUser, NoLinks, 5),
      Menu({"ask", "confirm", "crash"}, {"policy"}, OneUser, NoLinks, 4),
      Menu({"recover_pin", "recover_confirm", "join", "code_ages", "crash"}, {}, OneUser, NoLinks, 4),
      Menu({"claim_name"}, {}, AllUsers, NoLinks, 4),
      Menu({"link", "call"}, {}, OneUser, Linked, 4),
      Menu({"verify_id", "attest_live", "attest_mock"}, {}, OneUser, NoLinks, 4) }

Symmetry == Permutations(Caller)
=============================================================================
