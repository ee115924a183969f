SPECIFICATION Spec
CONSTANTS
  Slot = {s1, s2}
  NoSlot = none
  Id = {i1, i2, ping}
  Ping = ping
  Window = 1
  Backlog = 3
PROPERTIES
  LiveKept
