\* One host and its token, two faults (an answer that is lost, and the token
\* deleted), with fairness.
SPECIFICATION MCSpec
CONSTANTS
  h1 = h1
  h2 = h2
  t1 = t1
  t2 = t2
  c1 = c1
  c2 = c2
  c3 = c3
  Hosts = {h1}
  Tokens = {t1}
  Claims = {c1, c2}
  None = None
  MaxFaults = 2
ACTION_CONSTRAINT
  InOrder
PROPERTIES
  EnrolledUnaffected
CHECK_DEADLOCK FALSE
