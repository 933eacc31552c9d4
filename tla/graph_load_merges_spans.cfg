SPECIFICATION Spec
CONSTANTS
  Place = {p1, p2}
  Sources <- MCSources
  Text <- MCText
  T4Conflicts <- MCT4Conflicts
  AttestArgs <- MCAttestArgs
  Bundles <- MCBundles
  Statements <- MCStatements
  Starts <- MCStarts
  MaxDays = 1
  MaxDamage = 0
  MaxStated = 4
  EndOfTime = 100000
  Env = {"local", "prod"}
SYMMETRY Places
INVARIANT StoreAgreesByArticle
