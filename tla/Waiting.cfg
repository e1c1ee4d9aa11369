CONSTANTS
  r1 = r1  r2 = r2  m1 = m1  m2 = m2  a = a  b = b  ada = ada  bob = bob
  charge = charge  ngn = ngn  None = None  Nameless = Nameless
SPECIFICATION Spec
CHECK_DEADLOCK FALSE
PROPERTY EveryRequestEnds
