SPECIFICATION ReadersSpec
CONSTANTS
  h1 = h1
  h2 = h2
  staging = staging
  prod = prod
  p1 = p1
  p2 = p2
  Hash = {h1}
  Tag = {prod}
  Proc = {p1}
  KindOf <- MCKindOf
  AttestSets <- MCAttestSets
  Bundles <- MCBundles
  RevokeArgs <- MCRevokeArgs
  MaxSeq = 6
  Serial = TRUE
  Crashes = TRUE
  TornCalls <- AllWrites
  None = None
  Torn = Torn
  Reader = {r1}
  Query = {mica}
  Covers <- MCCovers
INVARIANTS LogFollowsTable PublishesVerifiedSet StatusNeverLeadsHead AnswersAreNotTakenBack RecordsHandedOutAreFinal
PROPERTIES ImplementsLifecycle TagsMoveToPublished
