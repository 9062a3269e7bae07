CONSTANTS
  FieldNames = {f, g}
  Values = {x, y, z}
SPECIFICATION Spec
INVARIANT MergeHonoursBoth
INVARIANT ConflictOnlyWhenNecessary
INVARIANT MergeIsStable
