SPECIFICATION Spec
CONSTANTS
  BlockSize = 2
  Zero = Zero
  Words = 64
  Epoch = 3
  PerSecond = 4
  PerTick = 2
  Ids = {i1, i2}
  Bytes <- MCBytes
  Targets <- MCTargets
  Times <- MCTimes
  None = None
  MaxFailures = 2
SYMMETRY Symmetry
INVARIANTS TypeOK ReadsBack WholeOrNothing Promised TimesKept
