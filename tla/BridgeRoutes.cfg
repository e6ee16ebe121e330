\* Every route, from every author, and an approval that waits.
\* The requests end: no deadlock check.
SPECIFICATION BridgeSpec
CONSTANTS
  Requests = {r1, r2}
  Correlations = {"c1", "c2", "c3"}
  Pubkeys <- MCPubkeys
  CeoPubkeys = {"ceo"}
  AllowedUnsigned = {"agent", "ceo"}
  ClaimIds <- MCClaimIds
  Claims <- MCClaims
  Nonces = {"n1", "n2", "n3"}
  ThresholdEur <- MCThreshold
  MaxAmountEur = 8
  Portfolio <- MCPortfolio
  Backlog <- WaitingApproval
  Contents <- RouteContents
  Envelopes <- RouteEnvelopes
  Bodies <- RouteBodies
  DecisionNonces <- MCDecisionNonces
  RequireSignedCommands = TRUE
SYMMETRY Symmetry
CHECK_DEADLOCK FALSE
INVARIANTS
  LargeClaimNeedsCeo
  EffectAuthorised
  SettlementCovers
  BooksAgree
  NoSilentLoss
  SerialDecisions
  OneDecision
PROPERTIES
  SwitchMovedOnce
  ApprovalsOnlyMoveOn
