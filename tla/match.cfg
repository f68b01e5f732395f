\* Every pattern of at most four characters on every name of at most four.
SPECIFICATION MatcherSpec
CONSTANTS
  a = a
  b = b
  A = A
  x = x
  Chars = {a, b, A, x}
  Lower <- MCLower
  AnyOne = AnyOne
  AnyMany = AnyMany
  Suffix <- MCSuffix
  Patterns <- MCPatterns
  Names <- MCNames
  NoStar = NoStar
CHECK_DEADLOCK FALSE
INVARIANTS
  MeansWhatItSays
PROPERTY
  Terminates
