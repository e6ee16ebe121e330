\* Expected to fail: RetryCompletes.
SPECIFICATION Spec
CONSTANTS
  Requests = {r1, r2}
  Correlations = {"c1", "c2", "c3"}
  Pubkeys <- MCPubkeys
  CeoPubkeys = {"ceo"}
  AllowedUnsigned = {"agent", "ceo"}
  ClaimIds <- MCClaimIds
  Claims <- MCClaims
  Nonces = {"n1", "n2", "n3"}
  ThresholdEur <- MCThreshold
  MaxAmountEur = 8
  Portfolio <- MCPortfolio
  Backlog = {}
  Contents <- RetryContents
  Envelopes <- RetryEnvelopes
CHECK_DEADLOCK FALSE
INVARIANTS
  RetryCompletes
