SPECIFICATION MCSpec
CONSTANTS
  tool = tool
  conf = conf
  synth = synth
  mine = mine
  STOCK = STOCK
  Name <- MCName
  Link <- MCLink
  Version <- MCVersion
  Available <- MCAvailable
  Edit <- MCEdit
  Synthetic <- MCSynthetic
  Initial <- MCInitial
  Failures <- MCFailures
  MaxTime = 2
  MaxTransactions = 2
  Parts = {"failing", "calm"}
INVARIANTS
  JournalIsTrue
  LeadsBack
\* The bounds on the clock and on transactions stop the model.
CHECK_DEADLOCK FALSE
