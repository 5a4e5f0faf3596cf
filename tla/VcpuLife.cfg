SPECIFICATION FairSpec
CONSTANTS
  c0 = c0  c1 = c1
  VcpuNum = 3
  Cpu = {c0, c1}
  Pin <- PinOf
  Usage <- UsageAll
  Console = {c0}
  MaxStarts = 2
INVARIANTS TypeOK NoFault QueueSound ThreadConsistent CurrentVcpuExact OffMeansOff
PROPERTIES ShutdownReaches
CHECK_DEADLOCK FALSE
