CONSTANTS
  Users = {u1}
  Families = {f1}
  Requests = {r1, r2}
  None = None
  Grace = 1
  Ttl = 2
  MaxTokens = 4
  MaxTime = 4
SPECIFICATION FairSpec
INVARIANTS SuccessorStored SessionHasFreshToken TokensHaveAccount
PROPERTIES SessionsRefined RequestsEnd ExpiredTokensPurged
