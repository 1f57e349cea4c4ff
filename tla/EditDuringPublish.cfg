CONSTANTS
  o1 = o1
  o2 = o2
  p1 = p1
  l1 = l1
  ObjectTypes = {o1}
  Properties = {p1}
  LinkTypes = {}
  Owner <- OwnerOfAll
  Ends <- EndsOfAll
  Fields = {f1}
  Values = {None}
  Unread = {}
  Pointers = {}
  None = None
  Absent = Absent
  Clients = {c1, c2}
  DraftIds = {d1, d2, d3}
  NoDraft = NoDraft
  NoClient = NoClient
  Seed <- SeedOne
  MaxVersion = 2
SPECIFICATION Spec
PROPERTIES
  PublishRecordsWhatItClears
CHECK_DEADLOCK FALSE
