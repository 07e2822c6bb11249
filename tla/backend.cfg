CONSTANTS
  Bits <- MCBits
  Signed <- MCSigned
  FloatMax <- MCFloatMax
  Ids <- MCIds
  Upserts <- MCUpserts
  RemoveSets <- MCRemoveSets
  EdgeSets <- MCEdgeSets
  Proxies <- MCProxies
  AnyEntry = AnyEntry
  Entries <- MCEntries
  Manifests <- MCManifests
  MaxVersion = 3
SPECIFICATION MCSpec
INVARIANTS
  LinksResolve InitializationOrder
PROPERTIES
  Meaning FormsAgree ParallelCopies
  ValidStaysValid OptimizedMeaning IncrementalIsFresh
