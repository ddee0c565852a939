CONSTANTS
  Projects <- MCProjects
  StartsWith <- MCStartsWith
SPECIFICATION Spec
CHECK_DEADLOCK FALSE
INVARIANTS
  NamesMatchSlots
  GhostsReadSource
  RefusesDangling
