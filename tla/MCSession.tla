----------------------------- MODULE MCSession -----------------------------
(* Two servers are configured, and only the last address of the second one *)
(* leads to a server that runs.                                            *)
EXTENDS Session, TLC

ConnSymmetry == Permutations(Conns)

TwoServers == <<1, 2>>
LastAddress == {<<1, 1>>}
OneServer == <<1>>
OnlyAddress == {<<0, 0>>}
=============================================================================
