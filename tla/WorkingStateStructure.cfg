CONSTANTS
  o1 = o1
  o2 = o2
  p1 = p1
  l1 = l1
  ObjectTypes = {o1, o2}
  Properties = {p1}
  LinkTypes = {l1, l2}
  Owner <- OwnerOfAll
  Ends <- EndsOfAll
  Fields = {f3}
  Values = {None, o2, l1}
  Unread = {}
  Pointers = {f3}
  None = None
  Absent = Absent
  Clients = {c1}
  DraftIds = {d1, d2}
  NoDraft = NoDraft
  NoClient = NoClient
  Seed <- SeedLinked
  MaxVersion = 3
SPECIFICATION Spec
INVARIANTS
  DraftFitsPublished
  ClientRelies
  PublishedReferencesHold
PROPERTIES
  EditShowsThrough
  ImplementsDraft
CHECK_DEADLOCK FALSE
