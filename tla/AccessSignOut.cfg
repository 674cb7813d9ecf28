SPECIFICATION Spec
SYMMETRY Swaps
CONSTANTS
  k0 = k0  k1 = k1  k2 = k2
  c1 = c1  c2 = c2  c3 = c3
  g1 = g1  g2 = g2
  NoClient = NoClient
  Key = {k0, k1, k2}
  Legacy = {k0}
  NameOf <- Names
  Client = {c1, c2, c3}
  Consent = {g1, g2}
  MaxKeys = 2
  MaxClients = 2
  MaxGrants = 1
  MaxKeyver = 3
  MaxRefresh = 1
INVARIANT SignOutReachesAll
