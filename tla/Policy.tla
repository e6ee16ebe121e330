------------------------------- MODULE Policy -------------------------------
(***************************************************************************)
(* The decision policy of buzz-hermes-bridge: which role an author has,    *)
(* and whether a typed command may run in a given context.  Pure           *)
(* operators, no state (policy.ts reads no database).                      *)
(*                                                                         *)
(* A command is a record.  `type`, `claim_id` and `amount` (max_amount_eur *)
(* or new_prime_eur, whole euros) are what the code branches on; `nonce`   *)
(* stands for the fields that only make two contents differ                *)
(* (requested_at, reason, approved_by).  The content is its own id: the    *)
(* code uses the sha256 of the content, modelled as injective.             *)
(*                                                                         *)
(* The reason codes of a refusal are left out: no property reads them, so  *)
(* the order of the checks in policy.ts does not show and a verdict is a   *)
(* conjunction.                                                            *)
(***************************************************************************)
EXTENDS Integers

CONSTANTS
  Pubkeys,          \* authors, already normalised to hex
  CeoPubkeys,       \* cfg.bridgeCeoPubkeys
  AllowedUnsigned,  \* cfg.allowedUnsignedRoles: agents accepted without signature
  ClaimIds,         \* claim identifiers a command may name
  Claims,           \* those with a row in table sinistres
  Nonces,           \* values of the fields that only tell contents apart
  Contents,         \* the message contents that reach the bridge
  ThresholdEur,     \* cfg.claimSettlementThresholdEur
  MaxAmountEur      \* the largest amount of the schemas: ten millions

CommandType ==
  {"claim.settlement.approve", "claim.settlement.reject",
   "policy.pricing.exception.approve", "agent.killswitch.activate",
   "agent.killswitch.deactivate", "finance.report.request"}

\* A content that is not one of the six typed commands (free text, unknown
\* type, missing or extra field) has type "invalid".
Content ==
  [type : CommandType \cup {"invalid"}, claim_id : ClaimIds,
   amount : Nat, nonce : Nonces]

ASSUME KeysAssumption == CeoPubkeys \subseteq Pubkeys /\ AllowedUnsigned \subseteq Pubkeys
ASSUME ClaimsAssumption == Claims \subseteq ClaimIds
ASSUME ContentsAssumption == Contents \subseteq Content
ASSUME ThresholdAssumption == ThresholdEur \in Nat \ {0}
ASSUME MaxAmountAssumption == MaxAmountEur \in Nat

\* The schema accepts the content; amounts are above 0, up to the maximum.
ValidateCommand(c) ==
  /\ c.type \in CommandType
  /\ c.type \in {"claim.settlement.approve", "policy.pricing.exception.approve"} =>
       c.amount > 0 /\ c.amount <= MaxAmountEur

IsClaimCommand(c) == c.type \in {"claim.settlement.approve", "claim.settlement.reject"}

----------------------------------------------------------------------------
Statut == {"ouvert", "en_traitement", "en_cours", "contentieux", "regle", "refuse", "cloture"}

\* The columns of sinistres the policy reads.
SinistreRow == [statut : Statut, montant_eur : Nat, compliance_bloque : BOOLEAN]

Role == {"ceo", "conformite", "finance", "agent-sales", "agent-souscription",
         "agent-sinistres", "inconnu"}

\* Only three of the seven roles are ever the role of an author.
ResolveRole(author, signed) ==
  IF signed /\ author \in CeoPubkeys THEN "ceo"
  ELSE IF ~signed /\ author \in AllowedUnsigned THEN "agent-sinistres"
  ELSE "inconnu"

\* Mutant: the hard refusal of step 3b is gone.
CeoSansSignatureAccepted(author, signed) == FALSE

\* A CEO key that is only declared, without a verified signature: refused.
CeoSansSignature(author, signed) == ~signed /\ author \in CeoPubkeys

Lesser(a, b) == IF a <= b THEN a ELSE b

\* Mutant: an agent is held to the threshold, its own ceiling is forgotten.
PlafondIgnoringCeiling(c, role) == IF role = "ceo" THEN c.amount ELSE ThresholdEur

\* The cap a settlement is held to: the CEO's own ceiling, or for an agent
\* the lesser of its ceiling and the global threshold.
Plafond(c, role) == IF role = "ceo" THEN c.amount ELSE Lesser(c.amount, ThresholdEur)

\* Mutant: the status check of the rejection, which lets a refused claim through.
EvaluateClaimApproveUnlessSettled(c, rows, role) ==
  /\ role \in {"ceo", "agent-sinistres"}
  /\ \E s \in rows :
       /\ s.statut \notin {"regle", "cloture"}
       /\ role = "agent-sinistres" => s.montant_eur <= ThresholdEur
       /\ s.montant_eur <= Plafond(c, role)
       /\ ~s.compliance_bloque

\* Mutant: the amount checked is the one the command declares, not the claim's.
EvaluateClaimApproveDeclaredAmount(c, rows, role) ==
  /\ role \in {"ceo", "agent-sinistres"}
  /\ \E s \in rows :
       /\ s.statut \in {"ouvert", "en_traitement"}
       /\ role = "agent-sinistres" => c.amount <= ThresholdEur
       /\ ~s.compliance_bloque

\* `rows` is the result of the SELECT on sinistres: empty or one row.
EvaluateClaimApprove(c, rows, role) ==
  /\ role \in {"ceo", "agent-sinistres"}
  /\ \E s \in rows :
       /\ s.statut \in {"ouvert", "en_traitement"}
       /\ role = "agent-sinistres" => s.montant_eur <= ThresholdEur
       /\ s.montant_eur <= Plafond(c, role)
       /\ ~s.compliance_bloque

EvaluateClaimReject(rows, role) ==
  /\ role = "ceo"
  /\ \E s \in rows : s.statut \notin {"regle", "cloture"}

EvaluatePricingException(c, role) == role = "ceo" /\ c.amount > 0

EvaluateKillswitchActivate(actif, role) == role = "ceo" /\ ~actif

EvaluateKillswitchDeactivate(actif, role) == role = "ceo" /\ actif

EvaluateFinanceRequest(role) == role \in {"ceo", "finance", "conformite"}

\* evaluate(): what the pipeline read (ctx) and the author's role decide.
Evaluate(c, ctx, role) ==
  /\ ctx.actif => c.type = "agent.killswitch.deactivate"
  /\ ~ctx.commandConsumed
  /\ \/ c.type = "claim.settlement.approve" /\ EvaluateClaimApprove(c, ctx.sinistre, role)
     \/ c.type = "claim.settlement.reject" /\ EvaluateClaimReject(ctx.sinistre, role)
     \/ c.type = "policy.pricing.exception.approve" /\ EvaluatePricingException(c, role)
     \/ c.type = "agent.killswitch.activate" /\ EvaluateKillswitchActivate(ctx.actif, role)
     \/ c.type = "agent.killswitch.deactivate" /\ EvaluateKillswitchDeactivate(ctx.actif, role)
     \/ c.type = "finance.report.request" /\ EvaluateFinanceRequest(role)

\* Types whose effect is reserved to the CEO.
RequiresCeo(type) ==
  type \in {"claim.settlement.reject", "policy.pricing.exception.approve",
            "agent.killswitch.activate", "agent.killswitch.deactivate"}
=============================================================================
