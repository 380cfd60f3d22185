SPECIFICATION FieldSpec
CONSTANTS
  q1 = q1
  q2 = q2
  k1 = k1
  k2 = k2
  k3 = k3
  Queries = {q1, q2}
  Known = {k1, k2, k3}
  Blank = Blank
  Short = Short
  Here = Here
  Null = Null
  MaxFound = 2
  MaxAsks = 2
  MaxTrips = 2
  MaxAddresses = 2
SYMMETRY Alike
INVARIANTS FieldTypeOK QuickEntriesFit
PROPERTIES AnswersMatchText PickedWasShown
