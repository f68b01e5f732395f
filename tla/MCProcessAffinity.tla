------------------------- MODULE MCProcessAffinity --------------------------
(* Small instances of ProcessAffinity: two groups of two and one processors. *)
EXTENDS ProcessAffinity, TLC

CONSTANTS t1, t2

R(mode, masks) == [mode |-> mode, masks |-> masks]

MCCounts == <<2, 1>>

\* One mask, hard or soft, and one that names a processor the group lacks;
\* masks for both groups, hard; masks for both groups, soft.
MCFamilies ==
  {{R("strict", <<{0}>>), R("strict", <<{1}>>), R("soft", <<{0}>>),
    R("strict", <<{2}>>)},
   {R("strict", <<{0}, {0}>>), R("strict", <<{1}, {}>>),
    R("strict", <<{0, 1}, {0}>>)},
   {R("soft", <<{0}, {0}>>), R("soft", <<{0, 1}, {0}>>)}}

\* A process changes from masks for both groups to CPU Sets and back.
MixedFamilies == {{R("strict", <<{0}, {}>>), R("soft", <<{0}, {0}>>)}}
=============================================================================
