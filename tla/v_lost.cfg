\* Two apps change the list at the same time, and one change is gone.
SPECIFICATION StoreSpec
CONSTANTS
  i1 = i1
  i2 = i2
  good = good
  bad = bad
  off = off
  Apps = {a1, a2}
  Ids = {i1, i2}
  Values = {good, bad, off}
  Invalid = {bad, off}
  Disabled = {off}
  Idle = Idle
  Missing = Missing
  Blank = Blank
  Garbled = Garbled
  Newer = Newer
  Legacies <- MCLegacies
  Firsts <- MCFirsts
INVARIANT
  NothingLost
