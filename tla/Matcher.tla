------------------------------- MODULE Matcher --------------------------------
(***************************************************************************)
(* Which processes a rule means (cpum-core/src/matcher.rs): by exact name, *)
(* by wildcard on the name, by wildcard on the path of the executable.     *)
(* glob_match is a loop with two pointers that goes back to the last star  *)
(* when it is stuck; each of its branches is an action here.  Characters   *)
(* are members of a small set, and the suffix that may be left out is any  *)
(* sequence of them.                                                       *)
(***************************************************************************)
EXTENDS Naturals, Sequences

CONSTANTS
  Chars,     \* the characters of names
  Lower,     \* char -> its lower case
  AnyOne,    \* ?
  AnyMany,   \* *
  Suffix,    \* .exe
  Patterns, Names,
  NoStar     \* usize::MAX

ASSUME MatcherAssumption ==
  /\ AnyOne # AnyMany /\ {AnyOne, AnyMany} \cap Chars = {} /\ NoStar \notin Nat
  /\ Lower \in [Chars -> Chars] /\ \A c \in Chars : Lower[Lower[c]] = Lower[c]
  /\ Suffix \in Seq(Chars) /\ \A i \in DOMAIN Suffix : Lower[Suffix[i]] = Suffix[i]
  /\ Names \subseteq Seq(Chars)
  /\ Patterns \subseteq Seq(Chars \cup {AnyOne, AnyMany})

VARIABLES
  kind,           \* MatchType; "no path": a path rule, and no path to match
  name,           \* the name, or the path, of a process
  p, t,           \* what glob_match is called with
  pi, ti,         \* how many of their characters are dealt with
  star, mark,     \* where to go back to
  at,             \* "begin", "match", "tail", "done"
  retried,        \* the second call is under way
  result

mvars == <<kind, name, p, t, pi, ti, star, mark, at, retried, result>>

-----------------------------------------------------------------------------
Lowered(s) == [i \in DOMAIN s |-> IF s[i] \in Chars THEN Lower[s[i]] ELSE s[i]]

HasSuffix(s) ==
  /\ Len(s) >= Len(Suffix)
  /\ SubSeq(s, Len(s) - Len(Suffix) + 1, Len(s)) = Suffix

\* trim_exe
Trimmed(s) == IF HasSuffix(s) THEN SubSeq(s, 1, Len(s) - Len(Suffix)) ELSE s

\* name_matches, of lower case
NameMatches(process_name, rule_name) ==
  \/ process_name \in {rule_name, rule_name \o Suffix}
  \/ Trimmed(process_name) = rule_name

-----------------------------------------------------------------------------
(* glob_match *)

Unread == pi < Len(p)

\* The next characters go together.
Same == Unread /\ ti < Len(t) /\ p[pi + 1] \in {AnyOne, t[ti + 1]}

AtStar == Unread /\ p[pi + 1] = AnyMany

Advance ==
  /\ at = "match" /\ Same
  /\ pi' = pi + 1 /\ ti' = ti + 1
  /\ UNCHANGED <<kind, name, p, t, star, mark, at, retried, result>>

MeetStar ==
  /\ at = "match" /\ ti < Len(t) /\ ~Same /\ AtStar
  /\ star' = pi /\ mark' = ti /\ pi' = pi + 1
  /\ UNCHANGED <<kind, name, p, t, ti, at, retried, result>>

BacktrackMut ==
  /\ at = "match" /\ ti < Len(t) /\ ~Same /\ ~AtStar /\ star # NoStar
  /\ pi' = star + 1 /\ ti' = mark
  /\ UNCHANGED <<kind, name, p, t, star, mark, at, retried, result>>

\* The last star takes one character more.
Backtrack ==
  /\ at = "match" /\ ti < Len(t) /\ ~Same /\ ~AtStar /\ star # NoStar
  /\ pi' = star + 1 /\ mark' = mark + 1 /\ ti' = mark + 1
  /\ UNCHANGED <<kind, name, p, t, star, at, retried, result>>

\* A call of glob_match.
Call(text) ==
  /\ t' = text /\ at' = "match"
  /\ pi' = 0 /\ ti' = 0 /\ star' = NoStar /\ mark' = 0

\* A call that has returned: rule_matches and wildcard_matches try a name
\* again without its suffix.
Returned(matched) ==
  IF ~matched /\ kind = "wildcard" /\ ~retried
  THEN Call(Trimmed(Lowered(name))) /\ retried' = TRUE /\ UNCHANGED result
  ELSE /\ at' = "done" /\ result' = matched
       /\ UNCHANGED <<t, pi, ti, star, mark, retried>>

Stuck ==
  /\ at = "match" /\ ti < Len(t) /\ ~Same /\ ~AtStar /\ star = NoStar
  /\ Returned(FALSE)
  /\ UNCHANGED <<kind, name, p>>

\* The text is used up: stars that are left match nothing.
TextEnds ==
  /\ at = "match" /\ ti >= Len(t)
  /\ at' = "tail"
  /\ UNCHANGED <<kind, name, p, t, pi, ti, star, mark, retried, result>>

SkipStar ==
  /\ at = "tail" /\ AtStar
  /\ pi' = pi + 1
  /\ UNCHANGED <<kind, name, p, t, ti, star, mark, at, retried, result>>

PatternEndsMut ==
  /\ at = "tail"
  /\ Returned(pi = Len(p))
  /\ UNCHANGED <<kind, name, p>>

PatternEnds ==
  /\ at = "tail" /\ ~AtStar
  /\ Returned(pi = Len(p))
  /\ UNCHANGED <<kind, name, p>>

-----------------------------------------------------------------------------
Kinds == {"exact", "wildcard", "path", "no path"}

\* rule_matches
Begin ==
  /\ at = "begin"
  /\ IF kind \in {"exact", "no path"}
     THEN /\ at' = "done"
          /\ result' = (kind = "exact" /\ NameMatches(Lowered(name), p))
          /\ UNCHANGED <<t, pi, ti, star, mark>>
     ELSE Call(Lowered(name)) /\ UNCHANGED result
  /\ UNCHANGED <<kind, name, p, retried>>

\* The pattern is lowered for all of rule_matches.
MatcherInit ==
  /\ kind \in Kinds /\ name \in Names
  /\ p \in {Lowered(pattern) : pattern \in Patterns}
  /\ t = <<>> /\ pi = 0 /\ ti = 0 /\ star = NoStar /\ mark = 0
  /\ at = "begin" /\ retried = FALSE /\ result = FALSE

MatcherNext ==
  \/ Begin \/ Advance \/ MeetStar \/ Backtrack \/ Stuck \/ TextEnds
  \/ SkipStar \/ PatternEnds

\* It is a computation: nothing else runs, and it is not stopped.
MatcherSpec == MatcherInit /\ [][MatcherNext]_mvars /\ WF_mvars(MatcherNext)

-----------------------------------------------------------------------------
\* The patterns documented on rule_matches, without a loop: cut[i] characters
\* of the text belong to the first i characters of the pattern.
Glob(pattern, text) ==
  \E cut \in [0..Len(pattern) -> 0..Len(text)] :
    /\ cut[0] = 0 /\ cut[Len(pattern)] = Len(text)
    /\ \A i \in 1..Len(pattern) :
         IF pattern[i] = AnyMany THEN cut[i - 1] <= cut[i]
         ELSE /\ cut[i] = cut[i - 1] + 1
              /\ pattern[i] \in {AnyOne, text[cut[i]]}

MatcherTypeOK ==
  /\ pi \in 0..Len(p) /\ ti \in 0..Len(t) /\ mark \in 0..Len(t)
  /\ star # NoStar => star < pi /\ p[star + 1] = AnyMany /\ mark <= ti
  /\ retried => kind = "wildcard"

\* A rule means exactly the processes its documentation says: a wildcard is
\* found wherever it is, with or without the suffix, and going back to the last
\* star alone loses no match.
MeansWhatItSays ==
  at = "done" =>
    LET text == Lowered(name)
    IN  CASE kind = "exact"    -> result <=> p \in {text, Trimmed(text)}
          [] kind = "path"     -> result <=> Glob(p, text)
          [] kind = "no path"  -> ~result
          [] kind = "wildcard" -> result <=> Glob(p, text) \/ Glob(p, Trimmed(text))

\* The loop comes to an end for every pattern.
Terminates == <>(at = "done")
=============================================================================
