CONSTANTS
  o1 = o1
  o2 = o2
  p1 = p1
  l1 = l1
  ObjectTypes = {o1}
  Properties = {}
  LinkTypes = {}
  Owner <- OwnerOfAll
  Ends <- EndsOfAll
  Fields = {f1, f2}
  Values = {None, v1}
  Unread = {f2}
  Pointers = {}
  None = None
  Absent = Absent
  Clients = {c1}
  DraftIds = {d1, d2}
  NoDraft = NoDraft
  NoClient = NoClient
  Seed <- SeedNone
  MaxVersion = 2
SPECIFICATION Spec
INVARIANTS
  DraftFitsPublished
PROPERTIES
  EditShowsThrough
  ImplementsDraft
CHECK_DEADLOCK FALSE
