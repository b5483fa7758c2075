CONSTANTS
  Chats = {a, b}
  NewChats = {n1, n2}
  New = New
  Issues = {i1}
  Attachments = {}
  MaxTyped = 2
  MaxOpens = 2
  MaxFaults = 0
  Members = {m1, m2}
  Convs = {x, y}
  None = None
  MaxTexts = 2
  MaxMarks = 2
  Threads = {c1}
  Questions = 1
  Short = {1}
  MaxThreadTexts = 1
  MaxSteps = 1
SPECIFICATION WritingSpec
CHECK_DEADLOCK FALSE
PROPERTY WaitingQuestionEnds
