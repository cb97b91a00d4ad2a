SPECIFICATION Spec
CONSTANTS
  Workers = {w1, w2}
  MaxSize = 2
  Perms = {p1, p2}
  Uids = {u1, u2}
  MaxOpens = 2
  MaxFailures = 0
  MaxCrashes = 0
  NoAtime = TRUE
  NONE = NONE
INVARIANT
  OnlyDirtyIsLost
