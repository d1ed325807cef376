--------------------------- MODULE MCTelegramLink ---------------------------
(* Two accounts, two chats; neither pair tells its members apart.          *)
EXTENDS TelegramLink, TLC
CONSTANTS ann, bob, c1, c2

MCSymmetry == Permutations(Accounts) \cup Permutations(Chats)
=============================================================================
