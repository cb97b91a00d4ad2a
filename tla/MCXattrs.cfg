SPECIFICATION Spec
CONSTANTS
  Workers = {w1, w2}
  Daemon = daemon
  Values = {v1, v2}
  Inherited = inherited
  Absent = absent
  Untouched = untouched
  MaxFailures = 2
  MaxAcls = 2
SYMMETRY Symmetry
INVARIANTS
  TypeOK
  RowIsAcknowledged
  CopyIsTheRow
