CONSTANTS
  MaxCalls = 2
  None = None
  Keys = {"primary"}
  MaxRows = 1
  MaxObjects = 2
  Connections = {"c1"}
  Sources = {"s1", "s2"}
  Workbooks = {"s1"}
  MaxImports = 2
  Entries = {"e1", "e2"}
  MaxConnections = 2
  MaxStreams = 2
  MaxUploads = 1
SPECIFICATION FairSpec
INVARIANTS
  WizardLeavesABeginning
  ImportFileFits
  AnswersAreWhole
  UploadsShownAreUnderWay
PROPERTIES
  WizardTellsWhatItMade
  WizardCreatingEnds
  ImportEndIsSeen
  RowTestingEnds
  ChatStreamingEnds
CHECK_DEADLOCK FALSE
