SPECIFICATION Spec
CONSTANTS
  r1 = r1
  r2 = r2
  r3 = r3
  a1 = a1
  a2 = a2
  Regs = {r1, r2, r3}
  Address <- MCAddress
  Inits = {i1, i2, i3}
  None = None
PROPERTY RegistersItsKey
CHECK_DEADLOCK FALSE
