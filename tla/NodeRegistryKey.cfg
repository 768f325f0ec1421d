SPECIFICATION Spec
CONSTANTS
  Nodes = {d}
  Models = {a, b}
  Keys = {k}
  Convs = {}
  Requests = {r}
  DefaultNode = d
  EnvCredentials = {e1, e2}
  NodeCredentials = {}
  Secrets = {s1}
  None = None
INVARIANTS
  DefaultKeyFromEnv
