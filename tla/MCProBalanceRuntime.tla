------------------------ MODULE MCProBalanceRuntime -------------------------
(* Small instances of ProBalanceRuntime. *)
EXTENDS ProBalanceRuntime, TLC

CONSTANTS p1, p2, app, sys

Symmetric == Permutations(Pids)

ConfigOf(on, sustain, restore, game) ==
  [enabled |-> on, fg_cpu_threshold |-> 1, bg_cpu_threshold |-> 1,
   sustain_secs |-> sustain, restore_after_secs |-> restore,
   max_downgrade_secs |-> 1, whitelist |-> {}, game_mode_enabled |-> game]

Off == ConfigOf(FALSE, 1, 1, FALSE)

\* Off; engaging and returning after one tick, with Game Mode; after two.
MCConfigs == {Off, ConfigOf(TRUE, 1, 1, TRUE), ConfigOf(TRUE, 2, 2, FALSE)}
QuickConfigs == {Off, ConfigOf(TRUE, 1, 1, FALSE)}
GameConfigs == {Off, ConfigOf(TRUE, 1, 1, TRUE)}
NoRules == {{}}
=============================================================================
