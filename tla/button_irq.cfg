SPECIFICATION Spec
CONSTANTS
  Programs <- AllPrograms
  FaultExcuses <- MCFaultExcuses
  LeakExcuses <- MCLeakExcuses
  Values <- ValueNames
  Careless = {"input_button"}
  Sleepers = {"shared_workqueue"}
INVARIANT
  ButtonGetsInterrupt
CHECK_DEADLOCK FALSE
