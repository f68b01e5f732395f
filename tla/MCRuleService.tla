--------------------------- MODULE MCRuleService ----------------------------
(* Small instances of RuleService. *)
EXTENDS RuleService, TLC

CONSTANTS p1, p2, app, sys

Symmetric == Permutations(Pids)

ConfigOf(on, game) ==
  [enabled |-> on, fg_cpu_threshold |-> 1, bg_cpu_threshold |-> 1,
   sustain_secs |-> 1, restore_after_secs |-> 1,
   max_downgrade_secs |-> 1, whitelist |-> {}, game_mode_enabled |-> game]

Off == ConfigOf(FALSE, FALSE)
MCConfigs == {Off, ConfigOf(TRUE, FALSE)}
GameConfigs == {Off, ConfigOf(TRUE, TRUE)}

RuleOf(class, io, valid) ==
  [images |-> {app}, enabled |-> TRUE, valid |-> valid, class |-> class,
   io |-> io]

\* No rule; two rules that disagree on the class.
Disagreeing == {<<>>, <<RuleOf(4, None, TRUE), RuleOf(3, 1, TRUE)>>}

\* A disabled rule; a protecting rule next to an invalid one.
Protective ==
  {<<[RuleOf(4, 1, TRUE) EXCEPT !.enabled = FALSE]>>,
   <<RuleOf(4, None, TRUE), RuleOf(None, None, FALSE)>>}
NoRules == {{}}
=============================================================================
