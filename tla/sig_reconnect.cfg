CONSTANTS
  c1 = c1
  c2 = c2
  p1 = p1
  Conns = {c1, c2}
  Phones = {p1}
  Codes = {k1, k2}
  Managers = {m1, m2}
  Carries <- CarriesOne
  NumCameras = 2
  RefreshPeriod = 2
  MaxRefresh = 1
  None = None

SPECIFICATION FairSpec

INVARIANTS
  AuthProvesCode
  LogoutIsFinal
  LocatedWasAuthed
  AuthedHasLink
  DoomedDetached

PROPERTIES
  CamerasRequested
  KeepsTable

CHECK_DEADLOCK FALSE
