SPECIFICATION EditorSpec
CONSTANTS
  Dns = {x, y}
  Core = {c}
  Regular = {r}
  Deferred = {d}
  Values = {v, w}
  MaxOpens = 2
  MaxSaves = 1
  Editing = {c}
  Absent = Absent
CHECK_DEADLOCK FALSE
INVARIANTS NoForeignDelete
