---------------------------- MODULE MC_AdminPanel ----------------------------
(***************************************************************************)
(* TLC instance of AdminPanel: two tabs, one alert element, one session    *)
(* token, a 1000 ms period of three ticks and two intervals per page load.  *)
(***************************************************************************)
EXTENDS AdminPanel, TLC

CONSTANTS tab1, tab2, dom1, tok1

MCTabs == {tab1, tab2}
MCSymmetry == Permutations(MCTabs)
=============================================================================
