SPECIFICATION Spec
CONSTANTS
  c0 = c0  c1 = c1  c2 = c2  s1 = s1  s2 = s2
  g0 = g0  g1 = g1  n1 = n1  p1 = p1
  Owner <- OwnerPriv
  Vcpu = {c0, c1}
  Boot = c0
  Spi = {}
  Ppi = {}
  SgiN = {n1}
  Sgi0 = {}
  LrNum = 2
  CanPowerOff = {}
  CanDisable = {}
  CanPrioritise = {}
  CanRoute = {}
INVARIANTS OneRegister
