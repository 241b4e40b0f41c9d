\* The step-by-step expansion implements the one-step expansion of
\* BuilderGenSpec, over every declaration of the universe.
CONSTANTS
  NoIdentValue = NoIdentValue
  NoIdent <- NoIdentValue
  Decls <- MCDecls
  IdentStrings <- MCIdentStrings
SPECIFICATION Spec
PROPERTY
  GenRefinement
\* An expansion ends: the last state has no successor.
CHECK_DEADLOCK FALSE
