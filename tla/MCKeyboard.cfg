CONSTANTS
  Reports <- MCReports
  NoKeys <- MCNoKeys
  Leftover = Leftover
  MaxResends = 1
  MaxMishaps = 1
SPECIFICATION LiveSpec
INVARIANTS TypeOK Ordered Ready ListsHold MessagesKept
PROPERTIES Untorn Enumerates Released
CHECK_DEADLOCK FALSE
