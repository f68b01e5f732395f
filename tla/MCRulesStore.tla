---------------------------- MODULE MCRulesStore -----------------------------
(* Small instances of RulesStore. *)
EXTENDS RulesStore

CONSTANTS i1, i2, good, bad, off

MCRule(i, v) == [id |-> i, value |-> v]

\* bad and off are invalid; off is switched off besides.
MCFirsts ==
  {Missing, Newer, {MCRule(i1, good)}, {MCRule(i1, bad)}, {MCRule(i1, off)}}

\* Nothing, one directory with a list, and two of which the first counts.
MCLegacies ==
  {<<Missing, Missing>>, <<Missing, {MCRule(i1, good)}>>,
   <<{MCRule(i1, good)}, Newer>>, <<Missing, {MCRule(i1, bad)}>>,
   <<Blank, {MCRule(i1, good)}>>}
=============================================================================
