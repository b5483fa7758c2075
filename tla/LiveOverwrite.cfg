CONSTANTS
  Convs = {a, b}
  None = none
  Routes = {none, a}
  MaxVersion = 1
  MaxChanges = 2
  MaxOpens = 1
  MaxFaults = 0
SPECIFICATION Spec
CHECK_DEADLOCK FALSE
PROPERTY OpenChatNeverGoesBack
