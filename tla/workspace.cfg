CONSTANTS
  Builtins <- MCBuiltins
  Iterable <- Iter
  Constraints <- Match
  ProxyFiles = {"p.gfp"}
  Primitives <- MCPrimitives
  Paths <- MCPaths
  ModuleIds <- MCModuleIds
  SourceIds <- MCColliding
  Texts <- MCTexts
  Bridges <- MCBridges
  Catalogs <- MCCatalogs
  Configs <- MCConfigs
  NoEntry = NoEntry
  Representable <- MCRepresentable
  Openings <- MCOpenings
  Manifest <- MCManifest
  MaxEdits = 2
  MaxInstances = 12
  Alphabet <- MCAlphabet
  Decls <- MCDecls
  Modules <- MCModules
  Operations <- MCOperations
  Internals <- MCInternals
  Quotas = {0, 1, 2, 5}
  Casts <- MCCasts
SPECIFICATION MCSpec
INVARIANTS AnalysisIsFresh PackageIsCurrent 
           ArgumentsArriveIntact AnswersKeepTheirType
CHECK_DEADLOCK FALSE
