SPECIFICATION Spec
CONSTANTS
  Names = {f, g, t}
  Folders = {f}
  Inner = {f, t}
  TempNames = {t}
  Paths <- MCPaths
  Ids = {i1, i2}
  Root = Root
  NONE = NONE
  Bad = Bad
  Down = Down
  MaxFailures = 0
SYMMETRY Symmetry
PROPERTIES RenameReplaces
