\* The CEO decides, from a page, on an approval that waits.
SPECIFICATION CockpitFairSpec
CONSTANTS
  Requests = {r1, r2}
  Correlations = {"c1", "c2"}
  Pubkeys <- MCPubkeys
  CeoPubkeys = {"ceo"}
  AllowedUnsigned = {"agent", "ceo"}
  ClaimIds <- MCClaimIds
  Claims <- MCClaims
  Nonces = {"n1", "n2", "n3"}
  ThresholdEur <- MCThreshold
  MaxAmountEur = 8
  Portfolio <- MCPortfolio
  Backlog <- WaitingApproval
  Contents <- CockpitContents
  Envelopes <- CockpitEnvelopes
  Forms <- CockpitForms
  Bodies <- CockpitBodies
  PageLimit = 1
  DecisionNonces <- MCDecisionNonces
  RequireSignedCommands = FALSE
INVARIANTS
  CockpitTypeOK
  DecidedAsShown
  NoticeTrue
  FiguresAgree
PROPERTIES
  EveryApprovalSeen
