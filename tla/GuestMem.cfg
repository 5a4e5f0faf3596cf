CONSTANTS
  Vm = {"vm1", "vm2"}
  Cpu = {"c1", "c2"}
  ArenaSizes = {1, 3, 4}
  SegNum <- MCSegNum
  IpaStart <- MCIpaStart
  Region <- MCRegion
  On <- MCOn
  Pin <- MCPin
  Image <- MCImage
  Entry <- MCEntry
  Fdt = {"vm1", "vm2"}
  MaxErrors = 1
  MaxStarts <- MCStarts
SPECIFICATION Spec
CHECK_DEADLOCK FALSE
CONSTRAINT FailuresWhenShort
INVARIANT TypeOK OwnFrames FramesAccounted UnmappedFlushed FdtApart DistCurrent
PROPERTY LoadInside
