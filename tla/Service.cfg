SPECIFICATION Spec
CONSTANTS
  Clients = {n1, n2, n3}
  Workers = {1, 2}
  Slots = 1
  PassTime = 3
  TermTime = 1
  Slack = 3
  Daemons = {n1, n2, n3}
  Ports = {p1, p2}
  Devices = {0}
  Evals = {e1, e2}
  None = None
SYMMETRY Symmetric
INVARIANTS
  PatientWhenServed
  StartsAreSafe
