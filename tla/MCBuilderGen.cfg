\* Safety of one expansion over every declaration of the universe.
CONSTANTS
  NoIdentValue = NoIdentValue
  NoIdent <- NoIdentValue
  Decls <- MCDecls
  IdentStrings <- MCIdentStrings
SPECIFICATION Spec
INVARIANTS
  GenTypeOK
  CompanionMirrorsFields
  AccessorsMatchExposed
  ValidatorIffDirective
  BuilderNameRule
\* An expansion ends: the last state has no successor.
CHECK_DEADLOCK FALSE
