CONSTANTS
  Layout <- MCLayout
  Return = "Return"
  Hold = 2
  Gap = 1
  Lead = 1
  Trail = 1
  Rows <- MCRows
  Blank <- MCBlank
  Indices <- MCIndices
  Runs <- MCRuns
  Leftovers <- MCLeftovers
  Typing <- MCTyping
  MaxTries = 1
  MaxCommands = 2
  MaxEvents = 1
SPECIFICATION FairSpec
INVARIANTS TypeOK KeysInTime ResponseIsOwn EndsWithMame
PROPERTIES KeysChangeCleanly OmittedWasSeen NeverStuck
CHECK_DEADLOCK FALSE
