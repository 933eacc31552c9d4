SPECIFICATION Spec
CONSTANTS
  MaxDepth = 8
  MaxMantissa = 9999
  MaxScale = 3
  MaxJsonInt = 999
  MaxYear = 2100
  MaxPage = 9
  NonNfc <- MCNonNfc
  Nearest <- MCNearest
  TagRank <- MCTagRank
  TextLess <- MCTextLess
  Different <- MCDifferent
  Spaced <- MCSpaced
  Documents <- MCDocuments
  IntentDocuments <- MCIntents
  Payloads <- MCPayloads
INVARIANTS
  InFieldsGetNoNumbers
