CONSTANTS
  Desks = {"issue"}
  Members = {m1, m2}
  Nobody = nobody
  Issue = issue
  Made = made
  Chat = chat
  Names = {f1}
  voice = voice
  receipt = receipt
  MaxChanges = 2
  None = None
  Routines = {a1, a2}
  Started = {a1}
  Templates = {brief, inbox}
  Lines = {line}
  headings = headings
  page = page
  Short = {"blank"}
  Runs = {r1, r7}
  Children = {c2, c3}
  Parent <- TwoChecks
  Script <- Transcripts
  ActiveRuns = {r7}
  Tone <- OneWaits
  Options = {keep, drop}
  Files = {f1}
  Tabs = {"issue", "runs", "usage"}
  MaxTexts = 1
  MaxFolds = 1
  r1 = r1
  r7 = r7
  c2 = c2
  c3 = c3
SPECIFICATION Spec
PROPERTY MergedByItsOwner
