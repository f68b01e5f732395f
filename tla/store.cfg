\* Two apps, the service, and a list of at most two rules.
SPECIFICATION StoreSpec
CONSTANTS
  i1 = i1
  i2 = i2
  good = good
  bad = bad
  off = off
  Apps = {a1, a2}
  Ids = {i1, i2}
  Values = {good, bad, off}
  Invalid = {bad, off}
  Disabled = {off}
  Idle = Idle
  Missing = Missing
  Blank = Blank
  Garbled = Garbled
  Newer = Newer
  Legacies <- MCLegacies
  Firsts <- MCFirsts
INVARIANTS
  SerialWhenAlone
  OnlyWholeLists
PROPERTY
  KeptForRepair
