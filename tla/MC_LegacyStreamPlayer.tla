---------------------- MODULE MC_LegacyStreamPlayer ----------------------
(* Model-checking instance of LegacyStreamPlayer: two file names (a      *)
(* descriptor can map one and not the other), one link, two mounts (the *)
(* interceptor of the first session is still installed in the second).  *)
EXTENDS LegacyStreamLifecycle, TLC

CONSTANTS s1, s2, l1

MCSegs == {s1, s2}
MCLinks == {l1}

\* File names are only compared for equality.
MCSymmetry == Permutations(MCSegs)
=============================================================================
