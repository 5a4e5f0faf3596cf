SPECIFICATION Spec
CONSTANTS
  c0 = c0  c1 = c1  c2 = c2  s1 = s1  s2 = s2
  g0 = g0  g1 = g1  n1 = n1  p1 = p1
  Owner <- OwnerPriv
  Vcpu = {c0, c1}
  Boot = c0
  Spi = {s1}
  Ppi = {}
  SgiN = {}
  Sgi0 = {g0}
  LrNum = 1
  CanPowerOff = {}
  CanDisable = {}
  CanPrioritise = {}
  CanRoute = {}
PROPERTIES FlushDelivers
