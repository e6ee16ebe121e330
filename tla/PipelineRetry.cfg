\* One content sent three times, errors, a crash and the kill-switch in between.
\* The requests end: no deadlock check.
SPECIFICATION Spec
CONSTANTS
  Requests = {r1, r2, r3}
  Correlations = {"c1", "c2", "c3"}
  Pubkeys <- MCPubkeys
  CeoPubkeys = {"ceo"}
  AllowedUnsigned = {"agent", "ceo"}
  ClaimIds <- MCClaimIds
  Claims <- MCClaims
  Nonces = {"n1", "n2", "n3"}
  ThresholdEur <- MCThreshold
  MaxAmountEur = 8
  Portfolio <- MCPortfolio
  Backlog = {}
  Contents <- RetryContents
  Envelopes <- RetryEnvelopes
SYMMETRY Symmetry
CHECK_DEADLOCK FALSE
INVARIANTS
  TypeOK
  AppliedAtMostOnce
  TruthfulOutcome
  LockedOut
  AuditedBeforeApplied
PROPERTIES
  ImplementsRegister
