CONSTANTS
  Sources <- MCSources
  Callers = {c1, c2}
  TOKBUF_LEN = 3
  Inputs <- MCInputs
  Bindings <- MCBindings
  Lookups <- MCLookups
  Names <- MCNames
  Strings <- MCStrings
  Runes <- MCRunes
  Pulses <- MCPulses
  Elems = {e1, e2}
  NULL = NULL
  MaxLen = 7
  MaxExtend = 3
SPECIFICATION Spec
CHECK_DEADLOCK FALSE
INVARIANTS
  TokensTileSource
  OneOwner
  AcceptedAreSentences
  TreesFollowBINARY
  ValuesExplained
  LookupInterpolates
  CanonicalIsReference
  RunesRoundTrip
  EachPulseOnce
  SliceHoldsAppended
