\* Safety of the derives of one item, over every item of the universe.
CONSTANT Items <- MCItems
SPECIFICATION Spec
INVARIANTS
  UnitTypeOK
  ErrorsSurface
  BuilderDirectivesResolve
\* The expansion of an item ends once rustc has decided on it.
CHECK_DEADLOCK FALSE
