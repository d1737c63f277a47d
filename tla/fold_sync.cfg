SPECIFICATION FairSpec
CONSTANTS
  Txn <- MCTxn
  Time <- MCTime
  Cron = {cron}
  Admin = {admin}
  PageSize = 1
  RecentLimit = 1
  MaxTotal = 2
  Changing = {2}
  MaxEdits = 1
  MaxFailures = 1
PROPERTIES
  WalkIsComplete
  DecidedIsLeftAlone
  GapIsFilled
