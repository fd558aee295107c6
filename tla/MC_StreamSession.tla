------------------------- MODULE MC_StreamSession -------------------------
(* Model-checking instance of StreamSession: two wallets (so a key or a   *)
(* signing service can belong to the wrong one), two links, two mounts of *)
(* the player (navigate away and back while an attempt is in flight) and  *)
(* one ozone advance by another client of the wallet. It also binds the  *)
(* lifecycle refinement (StreamSessionLifecycle).                        *)
EXTENDS StreamSessionLifecycle, TLC

CONSTANTS w1, w2, l1, l2

MCWallets == {w1, w2}
MCLinks == {l1, l2}

\* Wallet addresses and links are only compared for equality.
MCSymmetry == Permutations(MCWallets) \cup Permutations(MCLinks)
=============================================================================
