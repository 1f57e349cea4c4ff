CONSTANTS
  MaxCalls = 2
  None = None
  Items = {"o", "l"}
SPECIFICATION ReviewSpec
PROPERTIES ResultStays
CHECK_DEADLOCK FALSE
