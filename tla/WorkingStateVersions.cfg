CONSTANTS
  o1 = o1
  o2 = o2
  p1 = p1
  l1 = l1
  ObjectTypes = {o1, o2}
  Properties = {}
  LinkTypes = {}
  Owner <- OwnerOfAll
  Ends <- EndsOfAll
  Fields = {}
  Values = {None}
  Unread = {}
  Pointers = {}
  None = None
  Absent = Absent
  Clients = {c1, c2}
  DraftIds = {d1, d2, d3}
  NoDraft = NoDraft
  NoClient = NoClient
  Seed <- SeedOne
  MaxVersion = 3
SPECIFICATION FairSpec
INVARIANTS
  HistoryNumbered
  HistoryReplays
PROPERTY RequestsEnd
CHECK_DEADLOCK FALSE
