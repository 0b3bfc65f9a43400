SPECIFICATION FairSpec
CONSTANTS
  Programs <- AllPrograms
  FaultExcuses <- MCFaultExcuses
  LeakExcuses <- MCLeakExcuses
  Values <- ValueNames
  Careless = {"input_button"}
  Sleepers = {"shared_workqueue"}
PROPERTY
  SleeperWakes
CHECK_DEADLOCK FALSE
