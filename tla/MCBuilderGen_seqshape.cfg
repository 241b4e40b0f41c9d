\* Expected violation: SequenceAccessorRule.
CONSTANTS
  NoIdentValue = NoIdentValue
  NoIdent <- NoIdentValue
  Decls <- MCDecls
  IdentStrings <- MCIdentStrings

SPECIFICATION Spec
INVARIANT SequenceAccessorRule
\* An expansion ends: the last state has no successor.
CHECK_DEADLOCK FALSE
