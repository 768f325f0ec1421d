SPECIFICATION Spec
CONSTANTS
  Nodes = {d, n1, n2}
  Models = {a, b}
  Keys = {k}
  Convs = {c}
  Requests = {r}
  DefaultNode = d
  EnvCredentials = {e1}
  NodeCredentials = {p1}
  Secrets = {s1, s2}
  None = None
CONSTRAINT Bounded
SYMMETRY RegistrySymmetry
INVARIANTS
  TypeOK
  References
  ServesSomething
  RecordedOrPurged
PROPERTIES
  CredentialsAtHome
