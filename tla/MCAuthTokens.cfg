\* Two refresh requests at a time; seven tokens are enough to redeem one token
\* three times, once more than RedeemBudget allows; a login may come before
\* the second token and after it expired; the clock passes every lifetime.
SPECIFICATION Spec
CONSTANTS
  Reqs = {r1, r2}
  AccessTTL = 1
  RefreshTTL = 2
  BlacklistTTL = 2
  MaxTokens = 7
  MaxLogin = 2
  MaxRevoked = 1
  MaxTime = 2
SYMMETRY Symmetry
INVARIANTS
  RevocationOutlivesToken
  RedeemBudget
  RedeemedIsRevoked
\* The system may run out of tokens and time.
CHECK_DEADLOCK FALSE
