SPECIFICATION Spec
CONSTANTS
  Names = {f, t}
  Folders = {f}
  Inner = {f, t}
  TempNames = {t}
  Paths <- MCPaths
  Ids = {i1, i2, i3}
  Root = Root
  NONE = NONE
  Bad = Bad
  Down = Down
  MaxFailures = 0
SYMMETRY Symmetry
PROPERTIES PathsStayTrue ListsStayTrue MetasStayTrue
