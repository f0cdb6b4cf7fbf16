SPECIFICATION Spec
CONSTANTS
  QueueCap = 3
  Slots = 5
  Requests <- MCRequests
  NoRequest <- MCNoRequest
INVARIANT NeverUnderflows
INVARIANT TakenWasQueued
