\* The field attributes of the lib.rs doc comments against the registrations.
CONSTANT Items <- MCItems
SPECIFICATION Spec
INVARIANT DocumentedHelpersAccepted
\* The expansion of an item ends once rustc has decided on it.
CHECK_DEADLOCK FALSE
