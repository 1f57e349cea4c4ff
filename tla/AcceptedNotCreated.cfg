CONSTANTS
  Clients = {c1}
  NoClient = NoClient
  ObjectTypeItems = {i1}
  PropertyItems = {i3}
  LinkTypeItems = {}
  Parents <- ParentsAll
  Fit = {i1}
SPECIFICATION Spec
PROPERTIES
  AcceptedAreCreated
CHECK_DEADLOCK FALSE
