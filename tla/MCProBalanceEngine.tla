------------------------- MODULE MCProBalanceEngine -------------------------
(* Small instances of ProBalanceEngine. *)
EXTENDS ProBalanceEngine, TLC

CONSTANTS p1, p2, app, sys

ConfigOf(on, sustain, restore, white, game) ==
  [enabled |-> on, fg_cpu_threshold |-> 2, bg_cpu_threshold |-> 1,
   sustain_secs |-> sustain, restore_after_secs |-> restore,
   max_downgrade_secs |-> 2, whitelist |-> white,
   game_mode_enabled |-> game]

\* Off; engaging after two ticks and returning after two, with the game mode;
\* engaging at once and returning after one, with the application on the
\* user's whitelist.
MCConfigs == {ConfigOf(FALSE, 1, 1, {}, FALSE), ConfigOf(TRUE, 2, 2, {}, TRUE),
              ConfigOf(TRUE, 1, 1, {app}, FALSE)}

MCOriginals == {"normal", "high"}
=============================================================================
