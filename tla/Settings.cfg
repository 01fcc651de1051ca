SPECIFICATION Spec
CONSTANTS
  Tabs = {w1}
  Requests = {r1, r2}
  Tokens = {k1, k2}
  Urls = {u1, u2}
  ProxyIds = {1}
  MaxSent = 3
  None = None
SYMMETRY Symmetry
CHECK_DEADLOCK FALSE
INVARIANT SecretsAreReal
PROPERTIES UntouchedIsKept SavedProxyExists
