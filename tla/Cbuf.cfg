SPECIFICATION Spec
CONSTANTS
  x = x  y = y
  Writer = {w1}
  Reader = {r1, r2}
  Data = {x, y}
  Payload <- Payloads
  Want = {1, 3}
  LenPow2 = 2
INVARIANTS TwoPasses WakeupExact PeekExact
PROPERTIES ImplementsFifo
