CONSTANTS
  Reports <- MCReports
  NoKeys <- MCNoKeys
  Leftover = Leftover
  MaxResends = 1
  MaxMishaps = 1
SPECIFICATION LiveSpec
PROPERTY SentAgain
CHECK_DEADLOCK FALSE
