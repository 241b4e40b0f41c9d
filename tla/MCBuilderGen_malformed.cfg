\* Expected violation: MalformedNameRejected.
CONSTANTS
  NoIdentValue = NoIdentValue
  NoIdent <- NoIdentValue
  Decls <- MCDecls
  IdentStrings <- MCIdentStrings

SPECIFICATION Spec
INVARIANT MalformedNameRejected
\* An expansion ends: the last state has no successor.
CHECK_DEADLOCK FALSE
