\* Two hosts, two tokens and three claims, two faults, with fairness.
SPECIFICATION MCSpec
CONSTANTS
  h1 = h1
  h2 = h2
  t1 = t1
  t2 = t2
  c1 = c1
  c2 = c2
  c3 = c3
  Hosts = {h1, h2}
  Tokens = {t1, t2}
  Claims = {c1, c2, c3}
  None = None
  MaxFaults = 2
ACTION_CONSTRAINT
  InOrder
INVARIANTS
  NoOrphan
  OneAgentPerToken
PROPERTIES
  GrantedRuns
CHECK_DEADLOCK FALSE
