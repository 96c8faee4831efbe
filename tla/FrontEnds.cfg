\* Tasks stop when their calls are used up, and so does a C call that hangs.
CHECK_DEADLOCK FALSE
SPECIFICATION Spec
CONSTANTS
  Rows = {1, 2}
  MaxFaults = 1
  Handles = {h1, h2}
  Texts <- SomeTexts
  Tasks = {t1, t2, t3}
  MaxWorkers = 2
  MaxSize = 2
  MaxCalls = 5
  Versions = {1, 2}
  MaxEffects = 2
INVARIANTS CursorReadsOneState  
 
