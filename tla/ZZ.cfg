SPECIFICATION Spec
CONSTANTS
  Emails = {e1}
  Bad = bad
  Blank = blank
  Wrong = wrong
  Goals = {"fix"}
  Sources = {"sentry"}
  Models = {"claude"}
  Autos = {"intake"}
  DemoScreens = {"landing", "goals", "app"}
  None = None
  MaxChoices = 1
  MaxEdits = 1
INVARIANT SignInIsEarned ChoicesSurviveReload
PROPERTY FirstFixArrives
