CONSTANTS
  Vm = {"vm1", "vm2"}
  Cpu = {"c1", "c2"}
  ArenaSizes = {2}
  SegNum <- MCOneBlock
  IpaStart <- MCZero
  Region <- MCRegion
  On <- MCOn
  Pin <- MCPin
  Image <- MCOneImage
  Entry <- MCOneEntry
  Fdt = {}
  MaxErrors = 0
  MaxStarts <- MCStarts
SPECIFICATION Spec
CHECK_DEADLOCK FALSE
INVARIANT TlbAgrees
