CONSTANTS
  TextOf <- MCTextOf
  MaxRefreshes = 3
  MaxTime = 1
  MaxLives = 2
  Scenarios <- MCScenarios
  Parts = {"checking", "languages", "kernels", "terminals", "edits"}
  Windows = {"left", "right"}
  MaxSources = 2
  Newer = {}
  Mishaps = {"fail", "setting"}
  Folders = {"one", "two"}
  MaxTree = 2
  Broken = {2}
  MaxIndexes = 2
  MaxMoves = 1
  Buttons = {"kernel"}
  MaxSends = 3
  Hosts <- SomeHosts
  MaxVersion = 3
  MaxRuns = 3
SPECIFICATION PartSpec
INVARIANTS DiagnosticsAreOfTheText AnswersAreOfNow SidebarIsOfTheFolders
PROPERTIES ResolvesInOrder
CHECK_DEADLOCK FALSE
