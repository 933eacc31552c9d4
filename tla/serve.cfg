SPECIFICATION Spec
CONSTANTS
  c1 = c1
  c2 = c2
  h1 = h1
  h2 = h2
  Client = {c1, c2}
  Hash = {h1, h2}
  Asked = {h1}
  Within <- MCWithin
  None = None
INVARIANTS VerifyFailsForItsOwn AnswersAreOfRecorded
PROPERTIES EveryRequestIsAnswered
