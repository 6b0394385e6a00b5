\* Two users and two requests at once in one browser, which may bring an old cookie.
CONSTANTS
  None = None
  Broken = Broken
  u1 = u1
  u2 = u2
  r1 = r1
  r2 = r2
  Request = {r1, r2}
  Headers <- MCHeaders
  k1 = k1
  k2 = k2
  SigningKey = k1
  LeftOver <- MCLeftOver
  IdleTimeout = 1
  AbsoluteTimeout = 3
  MaxTime = 4
  MaxTokens = 2
SPECIFICATION Spec
SYMMETRY RequestSymmetry
INVARIANTS TypeOK SessionIsBounded FormsStayValid
PROPERTIES IdleIsNoticed
CHECK_DEADLOCK FALSE
