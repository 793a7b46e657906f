\* Two edits of any kind by two devices, or by a session and its replacement;
\* two edits of one field by two tabs; three edits of two fields by two devices.
\* One fault, two for the replacement, none with three edits.
CONSTANTS
  f = f
  g = g
  u = u
  v = v
  w = w
  A = A
  B = B
  a1 = a1
  a2 = a2
  b1 = b1
  Fields = {f, g}
  Values = {u, v, w}
  OpIds = {o1, o2, o3}
  NoValue = NoValue
  NoOp = NoOp
  Lifecycle = Lifecycle
  MaxAttempts = 2
  Devices = {A, B}
  Sessions = {a1, a2, b1}
  DeviceOf <- SessionDevice
  Scenes <- SafetyScenes
  Origin <- Created
  Requests <- MCRequests

SPECIFICATION Spec
SYMMETRY Symmetry

\* Sessions stop for good and operation ids run out.
CHECK_DEADLOCK FALSE

INVARIANTS
  TypeOK
  NoFalseAlarm
  AckHasProof
  ConflictKeepsIntent

PROPERTIES
  AuthorSaw
  SettledStays
