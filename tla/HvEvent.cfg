SPECIFICATION Spec
CONSTANTS
  c0 = c0  s0 = s0  s1 = s1  s2 = s2
  off = off  stop = stop
  Cpu = {c0}
  Sender = {s0, s1, s2}
  Event = {off, stop}
  RecLen = 3
  Cap = 7
INVARIANTS InterruptHasRecord WholeRecords
