\* Two edits of any kind by two devices, or by one device with one fault: liveness,
\* and the implementation of CanonicalEntity.
CONSTANTS
  f = f
  g = g
  u = u
  v = v
  w = w
  A = A
  B = B
  a1 = a1
  a2 = a2
  b1 = b1
  Fields = {f}
  Values = {u, v}
  OpIds = {o1, o2}
  NoValue = NoValue
  NoOp = NoOp
  Lifecycle = Lifecycle
  MaxAttempts = 2
  Devices = {A, B}
  Sessions = {a1, b1}
  DeviceOf <- SessionDevice
  Scenes <- LiveScenes
  Origin <- Created
  Requests <- MCRequests

SPECIFICATION LiveSpec

\* Sessions stop for good and operation ids run out.
CHECK_DEADLOCK FALSE

PROPERTIES
  Convergence
  CanonicalSpec
