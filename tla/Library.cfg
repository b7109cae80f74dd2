SPECIFICATION Spec
CONSTANTS
  Files = {f1, f2, f3}
  Requests = {r1, r2, r3}
  Kinds = {"upload", "process", "edit", "rename", "delete"}
  Sizes = {1, 2}
  MaxStorage = 3
SYMMETRY MCSymmetry
INVARIANTS
  TypeOK
  StatsMatchRows
  RowsHaveObjects
  SizesAreTrue
CHECK_DEADLOCK FALSE
