SPECIFICATION Spec
CONSTANTS
  Nonces = {n1, n2}
  Ttl = 1
  N = 1
  Clients = {a, b}
  Sids = {s1, s2, s3}
  Empty = Empty
  PairingLimit = 0
  IdleLimit = 1
  Requests = {r1, r2, r3}
  NoSession = NoSession
SYMMETRY Symmetry
INVARIANT SingleUse
PROPERTY ImplementsGate
