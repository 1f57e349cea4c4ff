CONSTANTS
  MaxCalls = 1
  None = None
  LinkEnds = {"o1", "o2"}
  JoinDatasets = {"d1", "d2"}
  SideLinks <- SideLinksAll
  Props = {a, b}
  PropertyKeys = {"primary", "title"}
  TypedNames = {"n"}
  MaxEdits = 1
  Resources = {a, b}
  Names = {"n1", "n2"}
  Datasets = {"d1", "d2"}
  Padded = {"n1"}
  MaxRecent = 1
  MaxDetail = 1
  Items = {a, b}
  Saveable = {a, b}
  MaxChanges = 2
  Words = {"", "a"}
SPECIFICATION PageSpec
INVARIANT OneForEachKey
CHECK_DEADLOCK FALSE
