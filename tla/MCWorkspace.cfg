SPECIFICATION WorkspaceSpec
CONSTANTS
  Fleet <- MCFleet
  MaxFilters = 2
  MaxPages = 3
  Objects = {a, b}
  None = None
  MaxChanges = 2
  PanelIds = {p1, p2, p3, p4}
  MaxPanels = 3
  MaxFloor = 2
  Equipment = {sw}
  Attachments = {d1}
  MaxDrawn = 1
  Nothing = Nothing
  MaxGroups = 3
  NoReport = NoReport
INVARIANTS
  CountIsWhatItShows
  PagePromised
  SearchSettles
  ResultUnderItsHeading
  PanelsFit
  OneFloorInFront
  SceneFollows
  LinksLeadThere
  EntitiesSettle
  PrintedUnderItsType
PROPERTIES
  OnlyTickedArePosted
  NoToggleUndone
  EditsSurvive
  UntouchedSaveChangesNothing
  OnlyDismissedClose
