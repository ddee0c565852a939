SPECIFICATION Spec
CONSTANTS
  STACKLEN = 5
  Allowed <- MCAllowed
  Attrs <- MCAttrs
  Pieces <- MCPieces
  MaxElems = 6
  MaxText <- MCMaxText
  Documents <- MCDocuments
  PieceSizes = {1, 3, 6}
  INIT_BUFFER_SIZE = 2
  XML_CONTEXT_BYTES = 2
  INIT_ATTS_SIZE = 1
  Callbacks = {"comment", "pi", "skipped"}
CHECK_DEADLOCK FALSE
INVARIANTS
  BuildersOwnedOnce FileIsDocument
  EventsAreDocument RawNamesStay EntitiesNest PositionIsPlace
