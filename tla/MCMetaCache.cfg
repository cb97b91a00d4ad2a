SPECIFICATION Spec
CONSTANTS
  Workers = {w1}
  MaxSize = 2
  Perms = {p1, p2}
  Uids = {u1, u2}
  MaxOpens = 2
  MaxFailures = 1
  MaxCrashes = 1
  NoAtime = FALSE
  NONE = NONE
SYMMETRY Symmetry
INVARIANTS
  TypeOK
  OnlyDirtyIsLost
  ClosedIsStored
  PortalIsTold
