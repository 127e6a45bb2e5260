----------------------------- MODULE MCBotGate -----------------------------
(* Two clients and the tokens they may hold, for TLC. *)
EXTENDS BotGate, TLC

CONSTANTS a, b, t1, t2, t3

MCClients == {a, b}
MCOneClient == {a}
MCTokens == {t1, t2, t3}
MCSymmetry == Permutations(MCClients) \cup Permutations(MCTokens)
=============================================================================
