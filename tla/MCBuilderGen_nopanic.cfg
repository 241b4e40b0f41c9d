\* Expected violation: NoPanic.
CONSTANTS
  NoIdentValue = NoIdentValue
  NoIdent <- NoIdentValue
  Decls <- MCDecls
  IdentStrings <- MCIdentStrings

SPECIFICATION Spec
INVARIANT NoPanic
\* An expansion ends: the last state has no successor.
CHECK_DEADLOCK FALSE
