SPECIFICATION Spec
CONSTANTS
  c0 = c0  c1 = c1
  VcpuNum = 3
  Cpu = {c0, c1}
  Pin <- PinOf
  Usage <- UsageHotplug
  Console = {c0}
  MaxStarts = 1
INVARIANTS PreemptAssert
CHECK_DEADLOCK FALSE
