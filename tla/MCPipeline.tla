----------------------------- MODULE MCPipeline -----------------------------
(***************************************************************************)
(* Small instances of Pipeline for TLC: who writes, the claims, and one    *)
(* set of envelopes for each question asked.                               *)
(***************************************************************************)
EXTENDS Pipeline, TLC

MCPubkeys == {"ceo", "agent", "stranger"}
MCThreshold == 5

Row(statut, montant, bloque) ==
  [statut |-> statut, montant_eur |-> montant, compliance_bloque |-> bloque]

\* One claim of each kind; "k0" has no row.
MCPortfolio ==
  "small" :> Row("ouvert", 3, FALSE) @@
  "large" :> Row("en_traitement", 7, FALSE) @@
  "blocked" :> Row("ouvert", 3, TRUE) @@
  "elsewhere" :> Row("en_cours", 3, FALSE)
MCClaims == DOMAIN MCPortfolio
MCClaimIds == MCClaims \cup {"k0"}

Symmetry == Permutations(Requests)

----------------------------------------------------------------------------
Command(type, claim, amount, nonce) ==
  [type |-> type, claim_id |-> claim, amount |-> amount, nonce |-> nonce]
Settle(claim, amount, nonce) == Command("claim.settlement.approve", claim, amount, nonce)
Reject(claim) == Command("claim.settlement.reject", claim, 0, "n1")
Activate(nonce) == Command("agent.killswitch.activate", "k0", 0, nonce)
Deactivate(nonce) == Command("agent.killswitch.deactivate", "k0", 0, nonce)
Pricing == Command("policy.pricing.exception.approve", "k0", 2, "n1")
Report == Command("finance.report.request", "k0", 0, "n1")
FreeText == Command("invalid", "k0", 0, "n1")

Sent(content, author, signed, correlation) ==
  [content |-> content, author |-> author, signed |-> signed, correlation |-> correlation]
ByAgent(content, correlation) == Sent(content, "agent", FALSE, correlation)
ByCeo(content, correlation) == Sent(content, "ceo", TRUE, correlation)

\* Two settlements of one claim and its rejection; one correlation id is shared.
RaceEnvelopes ==
  {ByAgent(Settle("small", 4, "n1"), "c1"), ByAgent(Settle("small", 4, "n2"), "c2"),
   ByCeo(Settle("small", 3, "n3"), "c1"), ByCeo(Reject("small"), "c2")}

\* One content, sent and resent, while the kill-switch is turned on and off.
RetryEnvelopes ==
  {ByAgent(Settle("small", 4, "n1"), "c1"),
   ByCeo(Activate("n1"), "c2"), ByCeo(Deactivate("n1"), "c3")}

ContentsOf(envelopes) == {e.content : e \in envelopes}
RaceContents == ContentsOf(RaceEnvelopes)
RetryContents == ContentsOf(RetryEnvelopes)
=============================================================================
