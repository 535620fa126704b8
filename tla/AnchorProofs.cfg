SPECIFICATION FairSpec
CONSTANTS
  Creations <- MCCreations
  Batches <- MCBatches
  Urls <- MCUrls
  SchemeParts <- MCSchemeParts
  NoUrl = NoUrl
  MaxBlocks = 0
  MaxReorgs = 1
  MaxFaults = 1
INVARIANTS LeafLeadsToRecord SameBatchSameRoot ProofNamesOneBlock VerdictFollowsChain
PROPERTY CreationEnds
CHECK_DEADLOCK FALSE
