\* Two devices, two edits of one and one of the other, no fault.
CONSTANTS
  f = f
  g = g
  u = u
  v = v
  w = w
  A = A
  B = B
  a1 = a1
  a2 = a2
  b1 = b1
  Fields = {f}
  Values = {u, v}
  OpIds = {o1, o2, o3}
  NoValue = NoValue
  NoOp = NoOp
  Lifecycle = Lifecycle
  MaxAttempts = 2
  Devices = {A, B}
  Sessions = {a1, b1}
  DeviceOf <- SessionDevice
  Scenes <- TwoDevices
  Origin <- Created
  Requests <- MCRequests

SPECIFICATION Spec
SYMMETRY Symmetry

\* Sessions stop for good and operation ids run out.
CHECK_DEADLOCK FALSE

PROPERTIES
  NoBlindOverwrite
