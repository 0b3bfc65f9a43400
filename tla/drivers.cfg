SPECIFICATION FairSpec
CONSTANTS
  Programs <- AllPrograms
  FaultExcuses <- MCFaultExcuses
  LeakExcuses <- MCLeakExcuses
  Values <- ValueNames
  Careless = {"input_button"}
  Sleepers = {"shared_workqueue"}
INVARIANTS
  TypeOK
  TextTidy
  TextOrderly
  TextSafe
  NothingLeft
  FaultsExplained
  ArgumentsValid
PROPERTY
  Settles
CHECK_DEADLOCK FALSE
