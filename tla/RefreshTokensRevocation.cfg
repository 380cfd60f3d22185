CONSTANTS
  Users = {u1}
  Families = {f1, f2}
  Requests = {r1, r2}
  None = None
  Grace = 1
  Ttl = 3
  MaxTokens = 4
  MaxTime = 5
SPECIFICATION Spec
SYMMETRY Symmetry
INVARIANT RevocationCoversFamily
