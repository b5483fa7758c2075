CONSTANTS
  Chats = {a, b}
  NewChats = {n1, n2}
  New = New
  Issues = {i1}
  Attachments = {f1}
  MaxTyped = 2
  MaxOpens = 1
  MaxFaults = 1
  Members = {m1, m2}
  Convs = {x, y}
  None = None
  MaxTexts = 3
  MaxMarks = 1
  Threads = {c1}
  Questions = 1
  Short = {1}
  MaxThreadTexts = 2
  MaxSteps = 1
SPECIFICATION WritingSpec
CHECK_DEADLOCK FALSE
INVARIANT SteeredTextsLand
