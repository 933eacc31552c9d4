SPECIFICATION Spec
CONSTANTS
  h1 = h1
  h2 = h2
  staging = staging
  prod = prod
  p1 = p1
  p2 = p2
  Hash = {h1}
  Tag = {prod}
  Proc = {p1, p2}
  KindOf <- MCKindOf
  AttestSets <- FullSetOnly
  Bundles <- NoBundles
  RevokeArgs <- OneRevokeArg
  MaxSeq = 5
  Serial = FALSE
  Crashes = TRUE
  TornCalls <- RecordWrites
  None = None
  Torn = Torn
SYMMETRY ProcSymmetry
INVARIANTS TypeOK EveryEventWasEarned MlCheckedHasEvidence RecordHasRevokedEvent TagsNameOncePublished
PROPERTIES EventNamesStay InterruptedMlCheckIsFinal
