SPECIFICATION Spec
CONSTANTS
  Entries <- MCEntries
  Scripts <- MCScripts
  HandlerSets <- MCHandlers
CHECK_DEADLOCK FALSE
INVARIANTS
  TokensFollowGrammar CutsDoNotMatter
  RolesFollowGrammar ModelsAreTrees FirstDeclarationBinds
