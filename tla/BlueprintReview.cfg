CONSTANTS
  Clients = {c1, c2}
  NoClient = NoClient
  ObjectTypeItems = {i1, i2}
  PropertyItems = {}
  LinkTypeItems = {i3}
  Parents <- ParentsAll
  Fit = {i1}
SPECIFICATION FairSpec
INVARIANTS
  TypeOK
  RequestsRely
  ParentsCreatedFirst
  DraftIsUntouched
PROPERTIES
  AppliedOutOfReview
  RetryCreatesOnce
  RequestsEnd
CHECK_DEADLOCK FALSE
