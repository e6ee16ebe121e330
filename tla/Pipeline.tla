------------------------------ MODULE Pipeline ------------------------------
(***************************************************************************)
(* The command pipeline of buzz-hermes-bridge (processInboundCommand,      *)
(* runPipeline) over the Postgres tables it reads and writes.              *)
(*                                                                         *)
(* The bridge is one Node process: requests interleave at every `await`,   *)
(* and between two awaits the code runs alone.  A request is in the stage  *)
(* named by pc[r]; each action is the code from the database call of that  *)
(* stage up to the next await.  A Postgres statement or transaction is     *)
(* one step; the snapshot a request read is kept in seen[r] and may be     *)
(* stale when it is used.                                                  *)
(*                                                                         *)
(* Any call may fail with a connection error (retryable) or another error  *)
(* (not retryable), and a write may be committed although its caller sees  *)
(* an error.  The process may crash; Postgres keeps its tables, the        *)
(* in-memory dead-letter queue is lost.                                    *)
(***************************************************************************)
EXTENDS Policy, Sequences

CONSTANTS
  Requests,      \* inbound messages; a retry of a content is another request
  Correlations,  \* correlation ids
  Portfolio,     \* table sinistres at the start: claim -> row
  Backlog,       \* table approbations at the start: what earlier processes left
  Envelopes      \* the messages that may reach the bridge

Envelope == [content : Contents, author : Pubkeys, signed : BOOLEAN, correlation : Correlations]

ASSUME PortfolioAssumption == Portfolio \in [Claims -> SinistreRow]
ASSUME EnvelopesAssumption == Envelopes \subseteq Envelope /\ Envelopes # {}

VARIABLES
  \* Postgres
  sinistres,     \* claims: id -> row
  actif,         \* kill_switch.actif of the single row
  consumed,      \* commandes_consommees: command ids
  approbations,  \* approbations: rows, unique by correlation_id
  ledger,        \* pnl_ledger: settlement rows in insertion order
  audit,         \* audit_log: rows, without the hash chain (module AuditChain)
  \* the bridge process
  dlq,           \* MemoryDlq entries
  posted,        \* requests whose reply reached the collaboration channel
  pc,            \* stage of each request
  env,           \* its envelope
  seen,          \* what it read: kill-switch and claim
  due,           \* audit action due before the request is answered
  outcome,       \* its result, once decided
  \* history, read by properties only
  applied,       \* requests whose effect transaction committed
  before,        \* requests already answered when this one arrived
  underLock      \* the kill-switch has been active ever since it arrived

db == <<sinistres, actif, consumed, approbations, ledger, audit>>
process == <<dlq, posted, pc, env, seen, due, outcome>>
history == <<applied, before, underLock>>
vars == <<db, process, history>>

----------------------------------------------------------------------------
\* decided: decided_by is not NULL.  A NULL montant_eur is 0.
ApprobationRow ==
  [correlation_id : Correlations, type : CommandType, claim_id : ClaimIds, montant_eur : Nat,
   statut : {"en_attente", "approuve", "refuse"}, decided : BOOLEAN]

ASSUME BacklogAssumption ==
  /\ Backlog \subseteq ApprobationRow
  /\ \A a, b \in Backlog : a.correlation_id = b.correlation_id => a = b

LedgerRow == [correlation_id : Correlations, claim_id : ClaimIds, montant : Int]

RefusalAction ==
  {"schema_invalid", "idempotent_refuse_precheck", "auth_denied", "killswitch_blocked",
   "policy_denied", "idempotent_refuse"}

\* An audit row of action `command.<type>`, of a refusal, or of an end.
AuditRow ==
  [action : CommandType \cup RefusalAction \cup {"executed", "dlq"},
   content : Contents, correlation_id : Correlations]

Stage ==
  {"idle", "precheck", "killswitch", "context", "policy", "consume", "open", "audit",
   "effect", "resolve", "reply", "executed", "refuse", "dlq", "done"}

\* "error": a retryable error is thrown to the caller.  "lost": the process
\* crashed before it answered.
Outcome == {"none", "executed", "denied", "consumed", "dlq", "error", "lost"}

\* Stages awaiting a database call whose failure ends the request.
FallibleStages ==
  {"precheck", "killswitch", "context", "policy", "consume", "open", "audit", "effect"}

NothingSeen == [actif |-> FALSE, sinistre |-> {}]

cmd(r) == env[r].content
corr(r) == env[r].correlation
role(r) == ResolveRole(env[r].author, env[r].signed)

InFlight(r) == pc[r] \notin {"idle", "done"}

Init ==
  /\ sinistres = Portfolio /\ actif \in BOOLEAN /\ consumed = {} /\ approbations = Backlog
  /\ ledger = <<>> /\ audit = {} /\ dlq = {} /\ posted = {}
  /\ pc = [r \in Requests |-> "idle"]
  /\ env = [r \in Requests |-> CHOOSE e \in Envelopes : TRUE]
  /\ seen = [r \in Requests |-> NothingSeen]
  /\ due = [r \in Requests |-> "schema_invalid"]
  /\ outcome = [r \in Requests |-> "none"]
  /\ applied = {}
  /\ before = [r \in Requests |-> {}]
  /\ underLock = [r \in Requests |-> FALSE]

----------------------------------------------------------------------------
(* Control *)

Goto(r, stage) == pc' = [pc EXCEPT ![r] = stage]

\* Answer with o after a best-effort audit row of the given action.
Refuse(r, action, o) ==
  /\ Goto(r, "refuse")
  /\ due' = [due EXCEPT ![r] = action]
  /\ outcome' = [outcome EXCEPT ![r] = o]

AuditEntry(r, action) == [action |-> action, content |-> cmd(r), correlation_id |-> corr(r)]

\* safeAudit: the row is appended, or the failure is swallowed.
SafeAudit(r, action) == audit' \in {audit, audit \cup {AuditEntry(r, action)}}

\* The catch block: rethrow a retryable error, send any other to the DLQ.
Fail(r) ==
  /\ \/ Goto(r, "done") /\ outcome' = [outcome EXCEPT ![r] = "error"]
     \/ Goto(r, "dlq") /\ UNCHANGED outcome
  /\ UNCHANGED due

----------------------------------------------------------------------------
(* Steps 1 to 4: checks *)

\* Step 1: a message arrives and its content goes through the schema.
Receive(r, e) ==
  /\ pc[r] = "idle"
  /\ env' = [env EXCEPT ![r] = e]
  /\ before' = [before EXCEPT ![r] = {q \in Requests : pc[q] = "done"}]
  /\ underLock' = [underLock EXCEPT ![r] = actif]
  /\ \/ ValidateCommand(e.content) /\ Goto(r, "precheck") /\ UNCHANGED <<due, outcome>>
     \/ ~ValidateCommand(e.content) /\ Refuse(r, "schema_invalid", "denied")
  /\ UNCHANGED <<db, dlq, posted, seen, applied>>

\* Steps 2 and 3: already consumed?  then the author.
Precheck(r) ==
  /\ pc[r] = "precheck"
  /\ \/ cmd(r) \in consumed /\ Refuse(r, "idempotent_refuse_precheck", "consumed")
     \/ /\ cmd(r) \notin consumed
        /\ CeoSansSignature(env[r].author, env[r].signed)
        /\ Refuse(r, "auth_denied", "denied")
     \/ /\ cmd(r) \notin consumed
        /\ ~CeoSansSignature(env[r].author, env[r].signed)
        /\ Goto(r, "killswitch")
        /\ UNCHANGED <<due, outcome>>
  /\ UNCHANGED <<db, dlq, posted, env, seen, history>>

\* Mutant: a failed read of the kill-switch counts as inactive.
GetKillSwitchFailOpen(r) ==
  /\ pc[r] = "killswitch"
  /\ \E read \in {actif, FALSE} :
       /\ seen' = [seen EXCEPT ![r].actif = read]
       /\ IF read /\ cmd(r).type # "agent.killswitch.deactivate"
          THEN Refuse(r, "killswitch_blocked", "dlq")
          ELSE Goto(r, "context") /\ UNCHANGED <<due, outcome>>
  /\ UNCHANGED <<db, dlq, posted, env, history>>

GetKillSwitch(r) ==
  /\ pc[r] = "killswitch"
  /\ seen' = [seen EXCEPT ![r].actif = actif]
  /\ IF actif /\ cmd(r).type # "agent.killswitch.deactivate"
     THEN Refuse(r, "killswitch_blocked", "dlq")
     ELSE Goto(r, "context") /\ UNCHANGED <<due, outcome>>
  /\ UNCHANGED <<db, dlq, posted, env, history>>

\* SELECT ... FROM sinistres WHERE id = claim_id: one row or none
SinistreOf(c) == {sinistres[k] : k \in Claims \cap {c.claim_id}}

FindSinistre(r) ==
  /\ pc[r] = "context"
  /\ seen' = [seen EXCEPT ![r].sinistre =
       IF IsClaimCommand(cmd(r)) THEN SinistreOf(cmd(r)) ELSE {}]
  /\ Goto(r, "policy")
  /\ UNCHANGED <<db, dlq, posted, env, due, outcome, history>>

\* commandes_consommees is read again, then the policy decides.
EvaluatePolicy(r) ==
  /\ pc[r] = "policy"
  /\ LET ctx == [actif |-> seen[r].actif, sinistre |-> seen[r].sinistre,
                 commandConsumed |-> cmd(r) \in consumed]
     IN IF Evaluate(cmd(r), ctx, role(r))
        THEN Goto(r, "consume") /\ UNCHANGED <<due, outcome>>
        ELSE Refuse(r, "policy_denied", "denied")
  /\ seen' = [seen EXCEPT ![r] = NothingSeen]
  /\ UNCHANGED <<db, dlq, posted, env, history>>

----------------------------------------------------------------------------
(* Steps 5 and 6: consumption, approval row, audit *)

\* INSERT INTO commandes_consommees ... ON CONFLICT DO NOTHING
InsertConsumed(r) ==
  /\ consumed' = consumed \cup {cmd(r)}
  /\ UNCHANGED <<sinistres, actif, approbations, ledger, audit>>

\* Mutant: the number of inserted rows is not looked at.
MarkConsumedWithoutConflict(r) ==
  /\ pc[r] = "consume"
  /\ InsertConsumed(r)
  /\ Goto(r, IF IsClaimCommand(cmd(r)) THEN "open" ELSE "audit")
  /\ UNCHANGED <<dlq, posted, env, seen, due, outcome, history>>

MarkConsumed(r) ==
  /\ pc[r] = "consume"
  /\ InsertConsumed(r)
  /\ IF cmd(r) \in consumed
     THEN Refuse(r, "idempotent_refuse", "consumed")
     ELSE /\ Goto(r, IF IsClaimCommand(cmd(r)) THEN "open" ELSE "audit")
          /\ UNCHANGED <<due, outcome>>
  /\ UNCHANGED <<dlq, posted, env, seen, history>>

HasApprobation(c) == \E a \in approbations : a.correlation_id = c

\* Mutant: a status the CHECK of the table does not know.
InsertApprobationWrongStatut(r) ==
  /\ approbations' = IF HasApprobation(corr(r)) THEN approbations
       ELSE approbations \cup
         {[correlation_id |-> corr(r), type |-> cmd(r).type, claim_id |-> cmd(r).claim_id,
           montant_eur |-> IF cmd(r).type = "claim.settlement.approve" THEN cmd(r).amount ELSE 0,
           statut |-> "demande", decided |-> FALSE]}
  /\ UNCHANGED <<sinistres, actif, consumed, ledger, audit>>

\* The second transaction of markConsumed, ON CONFLICT (correlation_id) DO NOTHING
InsertApprobation(r) ==
  /\ approbations' = IF HasApprobation(corr(r)) THEN approbations
       ELSE approbations \cup
         {[correlation_id |-> corr(r), type |-> cmd(r).type, claim_id |-> cmd(r).claim_id,
           montant_eur |-> IF cmd(r).type = "claim.settlement.approve" THEN cmd(r).amount ELSE 0,
           statut |-> "en_attente", decided |-> FALSE]}
  /\ UNCHANGED <<sinistres, actif, consumed, ledger, audit>>

\* Mutant: a conflict on the correlation id is taken for a consumed command.
OpenApprobationConflictIsConsumed(r) ==
  /\ pc[r] = "open"
  /\ InsertApprobation(r)
  /\ IF HasApprobation(corr(r)) THEN Refuse(r, "idempotent_refuse", "consumed")
     ELSE Goto(r, "audit") /\ UNCHANGED <<due, outcome>>
  /\ UNCHANGED <<dlq, posted, env, seen, history>>

OpenApprobation(r) ==
  /\ pc[r] = "open"
  /\ InsertApprobation(r)
  /\ Goto(r, "audit")
  /\ UNCHANGED <<dlq, posted, env, seen, due, outcome, history>>

InsertAudit(r) ==
  /\ audit' = audit \cup {AuditEntry(r, cmd(r).type)}
  /\ UNCHANGED <<sinistres, actif, consumed, approbations, ledger>>

\* Mutant: the audit before the effect is best-effort, like the others.
AppendAuditBestEffort(r) ==
  /\ pc[r] = "audit"
  /\ SafeAudit(r, cmd(r).type)
  /\ Goto(r, "effect")
  /\ UNCHANGED <<sinistres, actif, consumed, approbations, ledger, dlq, posted, env, seen,
                 due, outcome, history>>

AppendAudit(r) ==
  /\ pc[r] = "audit"
  /\ InsertAudit(r)
  /\ Goto(r, "effect")
  /\ UNCHANGED <<dlq, posted, env, seen, due, outcome, history>>

----------------------------------------------------------------------------
(* Step 7: the business effect, one transaction *)

\* Mutant: the UPDATE looks at the correlation id alone.
SetStatutWhatever(c, from, to) ==
  {IF a.correlation_id = c THEN [a EXCEPT !.statut = to] ELSE a : a \in approbations}

\* UPDATE approbations SET statut WHERE correlation_id = c, in the given statuses
SetStatut(c, from, to) ==
  {IF a.correlation_id = c /\ a.statut \in from THEN [a EXCEPT !.statut = to] ELSE a :
     a \in approbations}

SettlementAmount(c) == -Lesser(c.amount, ThresholdEur)

\* Mutant: the claim is not closed in the transaction of the ledger row.
SettleClaimEffectLedgerOnly(r) ==
  /\ cmd(r).type = "claim.settlement.approve"
  /\ ledger' = Append(ledger, [correlation_id |-> corr(r), claim_id |-> cmd(r).claim_id,
                               montant |-> SettlementAmount(cmd(r))])
  /\ approbations' = SetStatut(corr(r), {"en_attente"}, "approuve")
  /\ UNCHANGED <<sinistres, actif, underLock>>

SettleClaimEffect(r) ==
  /\ cmd(r).type = "claim.settlement.approve"
  /\ ledger' = Append(ledger, [correlation_id |-> corr(r), claim_id |-> cmd(r).claim_id,
                               montant |-> SettlementAmount(cmd(r))])
  /\ sinistres' = [sinistres EXCEPT ![cmd(r).claim_id].statut = "regle"]
  /\ approbations' = SetStatut(corr(r), {"en_attente"}, "approuve")
  /\ UNCHANGED <<actif, underLock>>

\* The approval row is overwritten whatever its status.
RejectClaimEffect(r) ==
  /\ cmd(r).type = "claim.settlement.reject"
  /\ sinistres' = [sinistres EXCEPT ![cmd(r).claim_id].statut = "refuse"]
  /\ approbations' = SetStatut(corr(r), {"en_attente", "approuve", "refuse"}, "refuse")
  /\ UNCHANGED <<actif, ledger, underLock>>

KillSwitchEffect(r) ==
  /\ cmd(r).type \in {"agent.killswitch.activate", "agent.killswitch.deactivate"}
  /\ actif' = (cmd(r).type = "agent.killswitch.activate")
  /\ underLock' = [q \in Requests |-> underLock[q] /\ actif']
  /\ UNCHANGED <<sinistres, approbations, ledger>>

PricingExceptionEffect(r) ==
  /\ cmd(r).type = "policy.pricing.exception.approve"
  /\ approbations' = IF HasApprobation(corr(r)) THEN approbations
       ELSE approbations \cup
         {[correlation_id |-> corr(r), type |-> cmd(r).type, claim_id |-> cmd(r).claim_id,
           montant_eur |-> cmd(r).amount, statut |-> "approuve", decided |-> TRUE]}
  /\ UNCHANGED <<sinistres, actif, ledger, underLock>>

ReportEffect(r) ==
  /\ cmd(r).type = "finance.report.request"
  /\ UNCHANGED <<sinistres, actif, approbations, ledger, underLock>>

CommitEffect(r) ==
  /\ \/ SettleClaimEffect(r)
     \/ RejectClaimEffect(r)
     \/ KillSwitchEffect(r)
     \/ PricingExceptionEffect(r)
     \/ ReportEffect(r)
  /\ applied' = applied \cup {r}
  /\ UNCHANGED <<consumed, audit, before>>

\* Mutant: an error of the effect is swallowed like one of the reply.
ApplyEffectErrorSwallowed(r) ==
  /\ pc[r] = "effect"
  /\ CommitEffect(r) \/ UNCHANGED <<db, history>>
  /\ Goto(r, IF IsClaimCommand(cmd(r)) THEN "resolve" ELSE "reply")
  /\ UNCHANGED <<dlq, posted, env, seen, due, outcome>>

ApplyEffect(r) ==
  /\ pc[r] = "effect"
  /\ CommitEffect(r)
  /\ Goto(r, IF IsClaimCommand(cmd(r)) THEN "resolve" ELSE "reply")
  /\ UNCHANGED <<dlq, posted, env, seen, due, outcome>>

----------------------------------------------------------------------------
(* Steps 7b and 8: approval, reply, final audit *)

\* UPDATE approbations ... WHERE correlation_id = c AND statut = 'en_attente'
Decided(c, approve) ==
  {IF a.correlation_id = c /\ a.statut = "en_attente"
   THEN [a EXCEPT !.statut = IF approve THEN "approuve" ELSE "refuse", !.decided = TRUE]
   ELSE a : a \in approbations}

\* Step 7b: an error is swallowed.
DecideApprobation(r) ==
  /\ pc[r] = "resolve"
  /\ approbations' \in
       {approbations, Decided(corr(r), cmd(r).type = "claim.settlement.approve")}
  /\ Goto(r, "reply")
  /\ UNCHANGED <<sinistres, actif, consumed, ledger, audit, dlq, posted, env, seen, due,
                 outcome, history>>

\* A failure to post is swallowed too.
PostMessage(r) ==
  /\ pc[r] = "reply"
  /\ posted' \in {posted, posted \cup {r}}
  /\ Goto(r, "executed")
  /\ UNCHANGED <<db, dlq, env, seen, due, outcome, history>>

AuditExecuted(r) ==
  /\ pc[r] = "executed"
  /\ SafeAudit(r, "executed")
  /\ Goto(r, "done")
  /\ outcome' = [outcome EXCEPT ![r] = "executed"]
  /\ UNCHANGED <<sinistres, actif, consumed, approbations, ledger, dlq, posted, env, seen,
                 due, history>>

----------------------------------------------------------------------------
(* Refusals, errors, crash *)

\* The kill-switch refusal is thrown after its audit row: on to the DLQ.
AuditRefusal(r) ==
  /\ pc[r] = "refuse"
  /\ SafeAudit(r, due[r])
  /\ Goto(r, IF outcome[r] = "dlq" THEN "dlq" ELSE "done")
  /\ UNCHANGED <<sinistres, actif, consumed, approbations, ledger, dlq, posted, env, seen,
                 due, outcome, history>>

DeadLetter(r) ==
  /\ pc[r] = "dlq"
  /\ dlq' = dlq \cup {r}
  /\ SafeAudit(r, "dlq")
  /\ Goto(r, "done")
  /\ outcome' = [outcome EXCEPT ![r] = "dlq"]
  /\ UNCHANGED <<sinistres, actif, consumed, approbations, ledger, posted, env, seen, due,
                 history>>

\* Mutant: an error after the consumption gives the command back.
CallFailsGivingBack(r) ==
  /\ pc[r] \in FallibleStages
  /\ Fail(r)
  /\ consumed' = IF pc[r] \in {"open", "audit", "effect"} THEN consumed \ {cmd(r)} ELSE consumed
  /\ UNCHANGED <<sinistres, actif, approbations, ledger, audit, dlq, posted, env, seen, history>>

\* A database call fails without effect.
CallFails(r) ==
  /\ pc[r] \in FallibleStages
  /\ Fail(r)
  /\ UNCHANGED <<db, dlq, posted, env, seen, history>>

\* A write is committed but its caller sees an error.
AckLost(r) ==
  /\ \/ pc[r] = "consume" /\ InsertConsumed(r) /\ UNCHANGED history
     \/ pc[r] = "open" /\ InsertApprobation(r) /\ UNCHANGED history
     \/ pc[r] = "audit" /\ InsertAudit(r) /\ UNCHANGED history
     \/ pc[r] = "effect" /\ CommitEffect(r)
  /\ Fail(r)
  /\ UNCHANGED <<dlq, posted, env, seen>>

\* The process dies and is restarted: open transactions roll back, memory is lost.
LoseMemory ==
  /\ pc' = [r \in Requests |-> IF InFlight(r) THEN "done" ELSE pc[r]]
  /\ outcome' = [r \in Requests |-> IF InFlight(r) THEN "lost" ELSE outcome[r]]
  /\ dlq' = {}
  /\ UNCHANGED <<db, posted, env, seen, due, history>>

Crash == (dlq # {} \/ \E r \in Requests : InFlight(r)) /\ LoseMemory

----------------------------------------------------------------------------
Step(r) ==
  \/ Precheck(r) \/ GetKillSwitch(r) \/ FindSinistre(r) \/ EvaluatePolicy(r)
  \/ MarkConsumed(r) \/ OpenApprobation(r) \/ AppendAudit(r) \/ ApplyEffect(r)
  \/ DecideApprobation(r) \/ PostMessage(r) \/ AuditExecuted(r)
  \/ AuditRefusal(r) \/ DeadLetter(r)
  \/ CallFails(r) \/ AckLost(r)

Next ==
  \/ \E r \in Requests : (\E e \in Envelopes : Receive(r, e)) \/ Step(r)
  \/ Crash

Spec == Init /\ [][Next]_vars

----------------------------------------------------------------------------
(* Properties *)

\* Types of every variable (tables, request stages and history).
TypeOK ==
  /\ sinistres \in [Claims -> SinistreRow] /\ actif \in BOOLEAN
  /\ consumed \subseteq Contents
  /\ approbations \subseteq ApprobationRow
  /\ ledger \in Seq(LedgerRow) /\ audit \subseteq AuditRow
  /\ dlq \subseteq Requests /\ posted \subseteq Requests
  /\ pc \in [Requests -> Stage] /\ env \in [Requests -> Envelope]
  /\ seen \in [Requests -> [actif : BOOLEAN, sinistre : SUBSET SinistreRow]]
  /\ due \in [Requests -> RefusalAction] /\ outcome \in [Requests -> Outcome]
  /\ applied \subseteq Requests
  /\ before \in [Requests -> SUBSET Requests]
  /\ underLock \in [Requests -> BOOLEAN]

\* Idempotency by content (pipeline.ts step 5): however often a content
\* arrives, through concurrent requests, retries after an error or a crash,
\* its effect is committed at most once.
AppliedAtMostOnce ==
  \A p, q \in applied : cmd(p) = cmd(q) => p = q

\* "Immutable audit before effect" (pipeline.ts step 6): no effect is
\* committed unless the command was consumed and its `command.<type>` row is
\* in audit_log under the same correlation id.
AuditedBeforeApplied ==
  \A r \in applied : cmd(r) \in consumed /\ AuditEntry(r, cmd(r).type) \in audit

\* A content recorded as consumed is never dropped in silence: a request
\* with that content has committed the effect, is still on its way to it, or
\* ended with an error, a dead letter or a crash (markConsumed runs before
\* the effect and is not undone).
NoSilentLoss ==
  \A c \in consumed : \E r \in Requests :
    /\ cmd(r) = c
    /\ \/ r \in applied
       \/ pc[r] \in {"open", "audit", "effect", "dlq"}
       \/ pc[r] = "done" /\ outcome[r] \in {"dlq", "error", "lost"}

\* What the caller is told is what happened (PipelineResult.outcome):
\* 'executed' and a posted reply only after the commit, 'denied' and
\* 'consumed' only when this request changed nothing.
TruthfulOutcome ==
  /\ \A r \in Requests : pc[r] = "done" /\ outcome[r] = "executed" => r \in applied
  /\ \A r \in Requests : outcome[r] \in {"denied", "consumed"} => r \notin applied
  /\ posted \subseteq applied

SignedCeo(r) == env[r].signed /\ env[r].author \in CeoPubkeys

\* Whatever the path to the commit, a CEO-reserved effect comes from a signed
\* CEO, and an unsigned settlement from an allowlisted agent that is not a CEO
\* key, on a claim within the global threshold (resolveRole, the
\* ceo_sans_signature refusal and policy.ts together).
EffectAuthorised ==
  \A r \in applied :
    /\ RequiresCeo(cmd(r).type) => SignedCeo(r)
    /\ cmd(r).type = "claim.settlement.approve" /\ ~SignedCeo(r) =>
         /\ ~env[r].signed /\ env[r].author \in AllowedUnsigned \ CeoPubkeys
         /\ Portfolio[cmd(r).claim_id].montant_eur <= ThresholdEur

\* Every settlement row is an expense within the threshold, on a claim that
\* was open and not blocked by compliance, and it covers the claim's amount
\* whenever that amount is within the threshold (settleClaimEffect takes the
\* ceiling, the policy has compared the ceiling with the claim).
SettlementCovers ==
  \A i \in DOMAIN ledger :
    LET s == Portfolio[ledger[i].claim_id] paid == -ledger[i].montant IN
    /\ paid > 0 /\ paid <= ThresholdEur
    /\ s.statut \in {"ouvert", "en_traitement"} /\ ~s.compliance_bloque
    /\ s.montant_eur <= ThresholdEur => s.montant_eur <= paid

\* The tables changed by one effect agree at every instant, crashes and lost
\* acknowledgements included: a claim with a settlement row is closed, a claim
\* that became 'regle' has its row, and an applied claim command has left no
\* approval of its correlation id pending.
BooksAgree ==
  /\ \A i \in DOMAIN ledger : sinistres[ledger[i].claim_id].statut \in {"regle", "refuse"}
  /\ \A k \in Claims : sinistres[k].statut = "regle" /\ Portfolio[k].statut # "regle" =>
       \E i \in DOMAIN ledger : ledger[i].claim_id = k
  /\ \A r \in applied : IsClaimCommand(cmd(r)) =>
       \E a \in approbations : a.correlation_id = corr(r) /\ a.statut # "en_attente"

\* A request that arrives after the kill-switch was activated has no effect
\* for as long as the switch stays on.
LockedOut ==
  \A r \in Requests : underLock[r] => r \notin applied

\* A refusal of the claim that r settles has committed, and it had arrived
\* before r was answered.
Undone(r) ==
  \E q \in applied :
    /\ cmd(q).type = "claim.settlement.reject" /\ cmd(q).claim_id = cmd(r).claim_id
    /\ r \notin before[q]

\* A claim decided by a request that was answered is not settled by a request
\* that arrives later, and a later request refuses it only when it was refused
\* before, or when a refusal that overlapped the settlement undid it: claims are
\* decided twice by requests that overlap, or in the wake of such requests.
SerialDecisions ==
  \A q \in applied : \A p \in before[q] \cap applied :
    IsClaimCommand(cmd(p)) /\ IsClaimCommand(cmd(q)) /\ cmd(p).claim_id = cmd(q).claim_id
      => /\ cmd(q).type = "claim.settlement.reject"
         /\ cmd(p).type = "claim.settlement.approve" => Undone(p)

\* The life of a content as the callers see it (module CommandRegister).
Register == INSTANCE CommandRegister WITH
  Callers <- Requests,
  taken <- consumed,
  done <- {<<r, cmd(r)>> : r \in applied}

\* The pipeline implements the register: a content is taken once and never
\* given back, and applied at most once, by one request, after it was taken.
ImplementsRegister == Register!Spec

----------------------------------------------------------------------------
(* Statements of the documentation that the code does not keep *)

\* README.md:75 of the bridge, rule 2 "Claim not found or wrong status -> deny"
\* taken to its end: a claim is settled once.  The status is read (pipeline.ts
\* step 4) long before the unconditional UPDATE of settleClaimEffect.
OneSettlementPerClaim ==
  \A i, j \in DOMAIN ledger : ledger[i].claim_id = ledger[j].claim_id => i = j

\* README.md:130 of the bridge: a retryable error is "retried upstream".  The
\* retry of a command whose first attempt failed and is over, answered
\* 'consumed' (nothing left to do), must find the effect applied.
RetryCompletes ==
  \A q \in Requests : \A p \in before[q] :
    /\ outcome[p] = "error" /\ cmd(p) = cmd(q)
    /\ pc[q] = "done" /\ outcome[q] = "consumed"
    => \E r \in Requests : cmd(r) = cmd(q) /\ (r \in applied \/ InFlight(r))
=============================================================================
