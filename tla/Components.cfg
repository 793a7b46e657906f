CONSTANTS
  p1 = p1  p2 = p2  p3 = p3
  Parts = {"entity", "ledger", "list", "slots"}
  f = f  g = g  u = u  v = v
  Fields <- MCFields  Values <- MCValues  OpIds = {p1, p2, p3}
  NoValue = NoValue  NoOp = NoOp  Lifecycle = Lifecycle
  Requests <- MCRequests  Origin <- NoEntity
  Operators = {p1, p2}  MaxOperators = 2  MaxGatewayCalls = 2  Nobody = Nobody
  Rows = {p1, p2}  Qualifiers = {p, l}  Owner = Owner  Guest = Guest  NoUser = NoUser  Absent = Absent
  MaxFlushes = 2  MaxListEvents = 3
  FavoriteIds = {1, 2, 3}  Capacity = 2  FavoriteDevices = {p1, p2}  NoFavorite = NoFavorite  MaxFavoriteOps = 2
SPECIFICATION ComponentsSpec
SYMMETRY PairSymmetry
INVARIANTS
  OneWinner RevisionsCountEdits RunIsExclusive EndsAreTrue EditsArePreserved SeatsHold
PROPERTIES
  AppliedOnce CommitsAreValid ChainHolds LandingsAreSound
CHECK_DEADLOCK FALSE
