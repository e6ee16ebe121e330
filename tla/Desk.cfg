\* Two tasks of the agent.  They end: no deadlock check.
SPECIFICATION DeskSpec
CONSTANTS
  Requests = {r1, r2}
  Correlations = {"c1", "c2", "c3"}
  Pubkeys <- MCPubkeys
  CeoPubkeys = {"ceo"}
  AllowedUnsigned = {"agent", "ceo"}
  ClaimIds <- MCClaimIds
  Claims <- MCClaims
  Nonces = {"n1", "n2", "n3"}
  ThresholdEur <- MCThreshold
  MaxAmountEur = 8
  Portfolio <- MCPortfolio
  Backlog = {}
  Contents <- DeskContents
  Envelopes <- DeskEnvelopes
  Letters <- DeskLetters
  Bodies <- DeskLetters
  DecisionNonces <- MCDecisionNonces
  RequireSignedCommands = FALSE
SYMMETRY Symmetry
CHECK_DEADLOCK FALSE
INVARIANTS
  DeskTypeOK
  TwiceOnlyUnanswered
  AnswerIsTrue
PROPERTIES
  ImplementsCourier
