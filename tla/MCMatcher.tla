------------------------------- MODULE MCMatcher ------------------------------
(* Short patterns and names for Matcher. *)
EXTENDS Matcher, SequencesExt

CONSTANTS a, b, A, x

\* b is its own lower case; x is the suffix and may be within a name, too.
MCLower == [c \in {a, b, A, x} |-> IF c = A THEN a ELSE c]
MCSuffix == <<x>>

MCNames ==
  UNION {[1..n -> {a, b, x}] : n \in 0..4} \cup {<<A, x>>, <<b, A>>}
MCPatterns ==
  UNION {[1..n -> {a, b, AnyOne, AnyMany}] : n \in 0..4} \cup {<<A>>, <<a, x>>, <<b, AnyMany, x>>}
=============================================================================
