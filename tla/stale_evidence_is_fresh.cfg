SPECIFICATION ReadersSpec
CONSTANTS
  h1 = h1
  h2 = h2
  staging = staging
  prod = prod
  p1 = p1
  p2 = p2
  Hash = {h1}
  Tag = {prod}
  Proc = {p1}
  KindOf <- MCKindOf
  AttestSets <- FullSetOnly
  Bundles <- NoBundles
  RevokeArgs <- OneRevokeArg
  MaxSeq = 7
  Serial = TRUE
  Crashes = FALSE
  TornCalls <- NoWrites
  None = None
  Torn = Torn
  Reader = {r1}
  Query = {mica}
  Covers <- MCCovers
INVARIANTS FreshPublishedIsPublished
