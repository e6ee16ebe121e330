\* Liveness of two tasks, or of one and the CEO.  They end: no deadlock check.
SPECIFICATION DeskFairSpec
CONSTANTS
  Requests = {r1, r2}
  Correlations = {"c1", "c2", "c3"}
  Pubkeys <- MCPubkeys
  CeoPubkeys = {"ceo"}
  AllowedUnsigned = {"agent", "ceo"}
  ClaimIds <- MCClaimIds
  Claims <- MCClaims
  Nonces = {"n1", "n2", "n3"}
  ThresholdEur <- MCThreshold
  MaxAmountEur = 8
  Portfolio <- MCPortfolio
  Backlog = {}
  Contents <- EndsContents
  Envelopes <- EndsEnvelopes
  Letters <- EndsLetters
  Bodies <- EndsBodies
  DecisionNonces <- MCDecisionNonces
  RequireSignedCommands = FALSE
CHECK_DEADLOCK FALSE
INVARIANTS
  EscalationQueued
PROPERTIES
  EveryTaskEnds
  EveryRequestServed
