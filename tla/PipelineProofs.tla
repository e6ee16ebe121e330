--------------------------- MODULE PipelineProofs ---------------------------
(***************************************************************************)
(* Theorems about Pipeline, for every set of requests, contents, authors,  *)
(* claims and every threshold.                                             *)
(*                                                                         *)
(* They are proved of SharedSpec: the pipeline on tables that others write *)
(* too, within the bounds of Elsewhere.  Spec implements it, and so does   *)
(* Bridge (module BridgeProofs), so that each holds of both.               *)
(***************************************************************************)
EXTENDS Pipeline, TLAPS

----------------------------------------------------------------------------
(* The pipeline among other writers of its tables *)

\* One row per correlation id, as the unique key of the table has it.
RowsKeyed == \A a, b \in approbations : a.correlation_id = b.correlation_id => a = b

\* An approval keeps its subject and moves on only.
RowsMoveOn ==
  \A a \in approbations : \E b \in approbations' :
    /\ b = [a EXCEPT !.statut = b.statut, !.decided = b.decided]
    /\ a.statut = "refuse" => b.statut = "refuse"
    /\ b.statut = "en_attente" => a.statut = "en_attente"
    /\ a.decided => b.decided

\* What others may do between the steps of the pipeline: open and decide
\* approvals, or move the switch.
Elsewhere ==
  /\ \/ /\ RowsMoveOn /\ RowsKeyed' /\ approbations' \subseteq ApprobationRow
        /\ UNCHANGED <<actif, underLock>>
     \/ /\ actif' \in BOOLEAN
        /\ underLock' = [q \in Requests |-> underLock[q] /\ actif']
        /\ UNCHANGED approbations
  /\ UNCHANGED <<sinistres, consumed, ledger, audit, process, applied, before>>

\* Any message may arrive; a crash may also find nothing to lose.
SharedNext ==
  \/ \E r \in Requests : (\E e \in Envelope : Receive(r, e)) \/ Step(r)
  \/ LoseMemory
  \/ Elsewhere

SharedSpec == Init /\ [][SharedNext]_vars

\* The pipeline alone is the pipeline among others that do nothing.
LEMMA PipelineIsShared == Spec => SharedSpec
<1>1. [Next]_vars => [SharedNext]_vars
  BY EnvelopesAssumption DEF Next, SharedNext, Crash
<1> QED
  BY <1>1, PTL DEF Spec, SharedSpec

----------------------------------------------------------------------------
(* Type correctness *)

\* A content names a claim and an amount; a valid one has a command type.
LEMMA ContentType ==
  ASSUME NEW c \in Contents
  PROVE  /\ c \in Content
         /\ c.claim_id \in ClaimIds /\ c.amount \in Nat
         /\ ValidateCommand(c) => c.type \in CommandType
  BY ContentsAssumption DEF Content, ValidateCommand

\* What a settlement pays is an integer.
LEMMA SettlementAmountType ==
  ASSUME NEW c \in Contents
  PROVE  SettlementAmount(c) \in Int
  BY ContentType, ThresholdAssumption DEF SettlementAmount, Lesser

\* The initial state is well typed.
LEMMA TypeInit == Init => TypeOK
<1> SUFFICES ASSUME Init PROVE TypeOK
  OBVIOUS
<1>1. (CHOOSE e \in Envelopes : TRUE) \in Envelope
  BY EnvelopesAssumption
<1>2. ledger \in Seq(LedgerRow)
  BY DEF Init
<1>3. sinistres \in [Claims -> SinistreRow]
  BY PortfolioAssumption DEF Init
<1>4. seen \in [Requests -> [actif : BOOLEAN, sinistre : SUBSET SinistreRow]]
  BY DEF Init, NothingSeen
<1> QED
  BY <1>1, <1>2, <1>3, <1>4, BacklogAssumption DEF Init, TypeOK, Stage, Outcome, RefusalAction

\* The types of the values a request carries.
LEMMA RequestType ==
  ASSUME TypeOK, NEW r \in Requests
  PROVE  /\ env[r] \in Envelope /\ cmd(r) \in Contents /\ corr(r) \in Correlations
         /\ cmd(r).claim_id \in ClaimIds /\ cmd(r).amount \in Nat
         /\ cmd(r).type \in CommandType \cup {"invalid"}
  BY ContentsAssumption DEF TypeOK, Envelope, cmd, corr, Content

\* Audit rows keep their type, whichever action they record.
LEMMA SafeAuditType ==
  ASSUME TypeOK, NEW r \in Requests,
         NEW action \in CommandType \cup RefusalAction \cup {"executed", "dlq"}
  PROVE  /\ audit \cup {AuditEntry(r, action)} \subseteq AuditRow
         /\ SafeAudit(r, action) => audit' \subseteq AuditRow
  BY RequestType DEF TypeOK, AuditRow, AuditEntry, SafeAudit

\* Setting the status of a row keeps its type.
LEMMA RowUpdate ==
  /\ \A s \in SinistreRow : \A x \in Statut : [s EXCEPT !.statut = x] \in SinistreRow
  /\ \A a \in ApprobationRow : \A x \in {"en_attente", "approuve", "refuse"} :
       /\ [a EXCEPT !.statut = x] \in ApprobationRow
       /\ [a EXCEPT !.statut = x, !.decided = TRUE] \in ApprobationRow
<1>1. ASSUME NEW s \in SinistreRow, NEW x \in Statut
      PROVE  [s EXCEPT !.statut = x] \in SinistreRow
  BY DEF SinistreRow
<1>2. ASSUME NEW a \in ApprobationRow, NEW x \in {"en_attente", "approuve", "refuse"}
      PROVE  /\ [a EXCEPT !.statut = x] \in ApprobationRow
             /\ [a EXCEPT !.statut = x, !.decided = TRUE] \in ApprobationRow
  BY DEF ApprobationRow
<1> QED
  BY <1>1, <1>2

\* Setting the status of approval rows keeps the table well typed.
LEMMA SetStatutType ==
  ASSUME TypeOK, NEW c, NEW from, NEW to \in {"en_attente", "approuve", "refuse"}
  PROVE  SetStatut(c, from, to) \subseteq ApprobationRow
  BY RowUpdate DEF TypeOK, SetStatut

\* So does deciding them.
LEMMA DecidedType ==
  ASSUME TypeOK, NEW c, NEW approve
  PROVE  Decided(c, approve) \subseteq ApprobationRow
  BY RowUpdate DEF TypeOK, Decided

\* The effect transaction keeps the tables well typed.
LEMMA CommitEffectType ==
  ASSUME TypeOK, NEW r \in Requests, CommitEffect(r)
  PROVE  /\ sinistres' \in [Claims -> SinistreRow] /\ actif' \in BOOLEAN
         /\ approbations' \subseteq ApprobationRow /\ ledger' \in Seq(LedgerRow)
         /\ applied' \subseteq Requests /\ underLock' \in [Requests -> BOOLEAN]
         /\ consumed' = consumed /\ audit' = audit /\ before' = before
<1>1. CASE SettleClaimEffect(r)
  <2>1. [correlation_id |-> corr(r), claim_id |-> cmd(r).claim_id,
         montant |-> SettlementAmount(cmd(r))] \in LedgerRow
    BY RequestType, SettlementAmountType DEF LedgerRow
  <2>2. ledger' \in Seq(LedgerRow)
    BY <1>1, <2>1 DEF SettleClaimEffect, TypeOK
  <2>3. sinistres' \in [Claims -> SinistreRow]
    BY <1>1, RowUpdate DEF SettleClaimEffect, TypeOK, Statut
  <2> QED
    BY <1>1, <2>2, <2>3, SetStatutType DEF SettleClaimEffect, TypeOK, CommitEffect
<1>2. CASE RejectClaimEffect(r)
  <2>1. sinistres' \in [Claims -> SinistreRow]
    BY <1>2, RowUpdate DEF RejectClaimEffect, TypeOK, Statut
  <2> QED
    BY <1>2, <2>1, SetStatutType DEF RejectClaimEffect, TypeOK, CommitEffect
<1>3. CASE KillSwitchEffect(r)
  BY <1>3 DEF KillSwitchEffect, TypeOK, CommitEffect
<1>4. CASE PricingExceptionEffect(r)
  <2> DEFINE row == [correlation_id |-> corr(r), type |-> cmd(r).type,
                     claim_id |-> cmd(r).claim_id, montant_eur |-> cmd(r).amount,
                     statut |-> "approuve", decided |-> TRUE]
  <2>1. row \in ApprobationRow
    BY <1>4, RequestType DEF PricingExceptionEffect, ApprobationRow, CommandType
  <2>2. approbations' \in {approbations, approbations \cup {row}}
    BY <1>4 DEF PricingExceptionEffect
  <2>3. approbations' \subseteq ApprobationRow
    BY <2>1, <2>2 DEF TypeOK
  <2> QED
    BY <1>4, <2>3 DEF PricingExceptionEffect, TypeOK, CommitEffect
<1>5. CASE ReportEffect(r)
  BY <1>5 DEF ReportEffect, TypeOK, CommitEffect
<1> QED
  BY <1>1, <1>2, <1>3, <1>4, <1>5 DEF CommitEffect

\* So does the approval row the pipeline opens.
LEMMA InsertApprobationType ==
  ASSUME TypeOK, NEW r \in Requests, InsertApprobation(r), IsClaimCommand(cmd(r))
  PROVE  approbations' \subseteq ApprobationRow
<1> DEFINE row == [correlation_id |-> corr(r), type |-> cmd(r).type,
                   claim_id |-> cmd(r).claim_id,
                   montant_eur |-> IF cmd(r).type = "claim.settlement.approve"
                                   THEN cmd(r).amount ELSE 0,
                   statut |-> "en_attente", decided |-> FALSE]
<1>1. row \in ApprobationRow
  BY RequestType DEF IsClaimCommand, ApprobationRow, CommandType
<1>2. approbations' \in {approbations, approbations \cup {row}}
  BY DEF InsertApprobation
<1> QED
  BY <1>1, <1>2 DEF TypeOK

\* Beyond types: a request past the schema carries a typed command, and one
\* about to open an approval carries a claim command.  The type of audit and
\* approval rows rests on it.
ControlOK ==
  \A r \in Requests :
    /\ pc[r] \in FallibleStages => cmd(r).type \in CommandType
    /\ pc[r] = "open" => IsClaimCommand(cmd(r))

\* No request has a position that constrains its envelope at first.
LEMMA ControlInit == Init => ControlOK
  BY DEF Init, ControlOK, FallibleStages

\* A refusal keeps pc, due and outcome in their types.
LEMMA RefuseType ==
  ASSUME TypeOK, NEW r \in Requests, NEW action \in RefusalAction, NEW o \in Outcome,
         Refuse(r, action, o)
  PROVE  /\ pc' \in [Requests -> Stage] /\ due' \in [Requests -> RefusalAction]
         /\ outcome' \in [Requests -> Outcome]
  BY DEF TypeOK, Refuse, Goto, Stage

\* So does a call that fails or whose acknowledgement is lost.
LEMMA FailType ==
  ASSUME TypeOK, NEW r \in Requests, Fail(r)
  PROVE  /\ pc' \in [Requests -> Stage] /\ due' \in [Requests -> RefusalAction]
         /\ outcome' \in [Requests -> Outcome]
<1>1. pc' \in [Requests -> Stage]
  BY DEF TypeOK, Fail, Goto, Stage
<1>2. outcome' \in [Requests -> Outcome]
  BY DEF TypeOK, Fail, Outcome
<1> QED
  BY <1>1, <1>2 DEF TypeOK, Fail

\* A step that only moves its request on keeps pc in its type.
LEMMA GotoType ==
  ASSUME TypeOK, NEW r \in Requests, NEW stage \in Stage, Goto(r, stage)
  PROVE  pc' \in [Requests -> Stage]
  BY DEF TypeOK, Goto

\* Every step of a request keeps every variable in its type.
LEMMA TypeStep ==
  ASSUME TypeOK, ControlOK, NEW r \in Requests, Step(r)
  PROVE  TypeOK'
<1>1. CASE Precheck(r)
  <2>1. \/ Refuse(r, "idempotent_refuse_precheck", "consumed")
        \/ Refuse(r, "auth_denied", "denied")
        \/ Goto(r, "killswitch") /\ UNCHANGED <<due, outcome>>
    BY <1>1 DEF Precheck
  <2>2. /\ pc' \in [Requests -> Stage] /\ due' \in [Requests -> RefusalAction]
        /\ outcome' \in [Requests -> Outcome]
    BY <2>1, RefuseType, GotoType DEF RefusalAction, Outcome, Stage, TypeOK
  <2> QED
    BY <1>1, <2>2 DEF Precheck, TypeOK, db, history
<1>2. CASE GetKillSwitch(r)
  <2>1. \/ Refuse(r, "killswitch_blocked", "dlq")
        \/ Goto(r, "context") /\ UNCHANGED <<due, outcome>>
    BY <1>2 DEF GetKillSwitch
  <2>2. /\ pc' \in [Requests -> Stage] /\ due' \in [Requests -> RefusalAction]
        /\ outcome' \in [Requests -> Outcome]
    BY <2>1, RefuseType, GotoType DEF RefusalAction, Outcome, Stage, TypeOK
  <2>3. seen' \in [Requests -> [actif : BOOLEAN, sinistre : SUBSET SinistreRow]]
    BY <1>2 DEF GetKillSwitch, TypeOK
  <2> QED
    BY <1>2, <2>2, <2>3 DEF GetKillSwitch, TypeOK, db, history
<1>3. CASE FindSinistre(r)
  <2> DEFINE rows == IF IsClaimCommand(cmd(r)) THEN SinistreOf(cmd(r)) ELSE {}
  <2>1. rows \subseteq SinistreRow
    BY DEF SinistreOf, TypeOK
  <2>2. seen' = [seen EXCEPT ![r].sinistre = rows]
    BY <1>3 DEF FindSinistre
  <2>3. seen' \in [Requests -> [actif : BOOLEAN, sinistre : SUBSET SinistreRow]]
    <3> HIDE DEF rows
    <3> QED
      BY <2>1, <2>2 DEF TypeOK
  <2>4. pc' \in [Requests -> Stage]
    BY <1>3, GotoType DEF FindSinistre, Stage
  <2> QED
    BY <1>3, <2>3, <2>4 DEF FindSinistre, TypeOK, db, history
<1>4. CASE EvaluatePolicy(r)
  <2>1. \/ Refuse(r, "policy_denied", "denied")
        \/ Goto(r, "consume") /\ UNCHANGED <<due, outcome>>
    BY <1>4 DEF EvaluatePolicy
  <2>2. /\ pc' \in [Requests -> Stage] /\ due' \in [Requests -> RefusalAction]
        /\ outcome' \in [Requests -> Outcome]
    BY <2>1, RefuseType, GotoType DEF RefusalAction, Outcome, Stage, TypeOK
  <2>3. seen' \in [Requests -> [actif : BOOLEAN, sinistre : SUBSET SinistreRow]]
    BY <1>4 DEF EvaluatePolicy, TypeOK, NothingSeen
  <2> QED
    BY <1>4, <2>2, <2>3 DEF EvaluatePolicy, TypeOK, db, history
<1>5. CASE MarkConsumed(r)
  <2>1. \/ Refuse(r, "idempotent_refuse", "consumed")
        \/ Goto(r, "open") /\ UNCHANGED <<due, outcome>>
        \/ Goto(r, "audit") /\ UNCHANGED <<due, outcome>>
    BY <1>5 DEF MarkConsumed
  <2>2. /\ pc' \in [Requests -> Stage] /\ due' \in [Requests -> RefusalAction]
        /\ outcome' \in [Requests -> Outcome]
    BY <2>1, RefuseType, GotoType DEF RefusalAction, Outcome, Stage, TypeOK
  <2> QED
    BY <1>5, <2>2, RequestType DEF MarkConsumed, InsertConsumed, TypeOK, history
<1>6. CASE OpenApprobation(r)
  <2>1. approbations' \subseteq ApprobationRow
    BY <1>6, InsertApprobationType DEF OpenApprobation, ControlOK
  <2>2. pc' \in [Requests -> Stage]
    BY <1>6, GotoType DEF OpenApprobation, Stage
  <2> QED
    BY <1>6, <2>1, <2>2 DEF OpenApprobation, InsertApprobation, TypeOK, history
<1>7. CASE AppendAudit(r)
  <2>1. cmd(r).type \in CommandType
    BY <1>7 DEF AppendAudit, ControlOK, FallibleStages
  <2>2. audit' \subseteq AuditRow
    BY <1>7, <2>1, SafeAuditType DEF AppendAudit, InsertAudit
  <2>3. pc' \in [Requests -> Stage]
    BY <1>7, GotoType DEF AppendAudit, Stage
  <2> QED
    BY <1>7, <2>2, <2>3 DEF AppendAudit, InsertAudit, TypeOK, history
<1>8. CASE ApplyEffect(r)
  <2>1. Goto(r, "resolve") \/ Goto(r, "reply")
    BY <1>8 DEF ApplyEffect
  <2>2. pc' \in [Requests -> Stage]
    BY <2>1, GotoType DEF Stage
  <2>3. CommitEffect(r)
    BY <1>8 DEF ApplyEffect
  <2> QED
    BY <1>8, <2>2, <2>3, CommitEffectType DEF ApplyEffect, TypeOK
<1>9. CASE DecideApprobation(r)
  <2>1. approbations' \subseteq ApprobationRow
    BY <1>9, DecidedType DEF DecideApprobation, TypeOK
  <2>2. pc' \in [Requests -> Stage]
    BY <1>9, GotoType DEF DecideApprobation, Stage
  <2> QED
    BY <1>9, <2>1, <2>2 DEF DecideApprobation, TypeOK, history
<1>10. CASE PostMessage(r)
  <2>1. pc' \in [Requests -> Stage]
    BY <1>10, GotoType DEF PostMessage, Stage
  <2> QED
    BY <1>10, <2>1 DEF PostMessage, TypeOK, db, history
<1>11. CASE AuditExecuted(r)
  <2>1. audit' \subseteq AuditRow
    BY <1>11, SafeAuditType DEF AuditExecuted
  <2>2. pc' \in [Requests -> Stage]
    BY <1>11, GotoType DEF AuditExecuted, Stage
  <2> QED
    BY <1>11, <2>1, <2>2 DEF AuditExecuted, TypeOK, history, Outcome
<1>12. CASE AuditRefusal(r)
  <2>1. due[r] \in RefusalAction
    BY DEF TypeOK
  <2>2. audit' \subseteq AuditRow
    BY <1>12, <2>1, SafeAuditType DEF AuditRefusal
  <2>3. Goto(r, "dlq") \/ Goto(r, "done")
    BY <1>12 DEF AuditRefusal
  <2>4. pc' \in [Requests -> Stage]
    BY <2>3, GotoType DEF Stage
  <2> QED
    BY <1>12, <2>2, <2>4 DEF AuditRefusal, TypeOK, history
<1>13. CASE DeadLetter(r)
  <2>1. audit' \subseteq AuditRow
    BY <1>13, SafeAuditType DEF DeadLetter
  <2>2. pc' \in [Requests -> Stage]
    BY <1>13, GotoType DEF DeadLetter, Stage
  <2> QED
    BY <1>13, <2>1, <2>2 DEF DeadLetter, TypeOK, history, Outcome
<1>14. CASE CallFails(r)
  BY <1>14, FailType DEF CallFails, TypeOK, db, history
<1>15. CASE AckLost(r)
  <2>1. /\ pc' \in [Requests -> Stage] /\ due' \in [Requests -> RefusalAction]
        /\ outcome' \in [Requests -> Outcome]
    BY <1>15, FailType DEF AckLost
  <2>2. UNCHANGED <<dlq, posted, env, seen>>
    BY <1>15 DEF AckLost
  <2>3. CASE pc[r] = "consume" /\ InsertConsumed(r) /\ UNCHANGED history
    BY <2>1, <2>2, <2>3, RequestType DEF InsertConsumed, TypeOK, history
  <2>4. CASE pc[r] = "open" /\ InsertApprobation(r) /\ UNCHANGED history
    <3>1. approbations' \subseteq ApprobationRow
      BY <2>4, InsertApprobationType DEF ControlOK
    <3> QED
      BY <2>1, <2>2, <2>4, <3>1 DEF InsertApprobation, TypeOK, history
  <2>5. CASE pc[r] = "audit" /\ InsertAudit(r) /\ UNCHANGED history
    <3>1. cmd(r).type \in CommandType
      BY <2>5 DEF ControlOK, FallibleStages
    <3>2. audit' \subseteq AuditRow
      BY <2>5, <3>1, SafeAuditType DEF InsertAudit
    <3> QED
      BY <2>1, <2>2, <2>5, <3>2 DEF InsertAudit, TypeOK, history
  <2>6. CASE pc[r] = "effect" /\ CommitEffect(r)
    BY <2>1, <2>2, <2>6, CommitEffectType DEF TypeOK
  <2> QED
    BY <1>15, <2>3, <2>4, <2>5, <2>6 DEF AckLost
<1> QED
  BY <1>1, <1>2, <1>3, <1>4, <1>5, <1>6, <1>7, <1>8, <1>9, <1>10, <1>11, <1>12, <1>13,
     <1>14, <1>15 DEF Step

\* An arrival keeps every variable in its type, and so does a crash.
LEMMA TypeReceive ==
  ASSUME TypeOK, NEW r \in Requests, NEW e \in Envelope, Receive(r, e)
  PROVE  TypeOK'
<1>2. \/ Refuse(r, "schema_invalid", "denied")
      \/ Goto(r, "precheck") /\ UNCHANGED <<due, outcome>>
  BY DEF Receive
<1>3. /\ pc' \in [Requests -> Stage] /\ due' \in [Requests -> RefusalAction]
      /\ outcome' \in [Requests -> Outcome]
  BY <1>2, RefuseType, GotoType DEF RefusalAction, Outcome, Stage, TypeOK
<1>4. /\ env' \in [Requests -> Envelope] /\ before' \in [Requests -> SUBSET Requests]
      /\ underLock' \in [Requests -> BOOLEAN]
  BY DEF Receive, TypeOK
<1> QED
  BY <1>3, <1>4 DEF Receive, TypeOK, db

\* A crash keeps every variable in its type.
LEMMA TypeCrash ==
  ASSUME TypeOK, LoseMemory
  PROVE  TypeOK'
<1>1. /\ pc' \in [Requests -> Stage]
      /\ outcome' \in [Requests -> Outcome]
  BY DEF LoseMemory, TypeOK, Stage, Outcome
<1> QED
  BY <1>1 DEF LoseMemory, TypeOK, db, history

\* Only Receive writes an envelope, and only of an idle request.
LEMMA EnvelopeStable ==
  ASSUME NEW r \in Requests, Step(r)
  PROVE  env' = env
  BY DEF Step, Precheck, GetKillSwitch, FindSinistre, EvaluatePolicy, MarkConsumed,
         OpenApprobation, AppendAudit, ApplyEffect, DecideApprobation, PostMessage,
         AuditExecuted, AuditRefusal, DeadLetter, CallFails, AckLost

\* Where a step can take a request, and that it moves no other one.
LEMMA StepMoves ==
  ASSUME TypeOK, NEW r \in Requests, Step(r)
  PROVE  /\ \A q \in Requests \ {r} : pc'[q] = pc[q]
         /\ pc[r] # "idle" /\ pc'[r] # "idle"
         /\ pc'[r] \in FallibleStages => pc[r] \in FallibleStages
         /\ pc'[r] = "open" => pc[r] = "consume" /\ IsClaimCommand(cmd(r))
         /\ pc'[r] = "audit" => pc[r] \in {"consume", "open"}
         /\ pc'[r] = "effect" => pc[r] = "audit"
<1> USE DEF Goto, Refuse, Fail, FallibleStages, TypeOK
<1>1. CASE Precheck(r)
  BY <1>1 DEF Precheck
<1>2. CASE GetKillSwitch(r)
  BY <1>2 DEF GetKillSwitch
<1>3. CASE FindSinistre(r)
  BY <1>3 DEF FindSinistre
<1>4. CASE EvaluatePolicy(r)
  BY <1>4 DEF EvaluatePolicy
<1>5. CASE MarkConsumed(r)
  BY <1>5 DEF MarkConsumed
<1>6. CASE OpenApprobation(r)
  BY <1>6 DEF OpenApprobation
<1>7. CASE AppendAudit(r)
  BY <1>7 DEF AppendAudit
<1>8. CASE ApplyEffect(r)
  BY <1>8 DEF ApplyEffect
<1>9. CASE DecideApprobation(r) \/ PostMessage(r) \/ AuditExecuted(r)
  BY <1>9 DEF DecideApprobation, PostMessage, AuditExecuted
<1>10. CASE AuditRefusal(r) \/ DeadLetter(r)
  BY <1>10 DEF AuditRefusal, DeadLetter
<1>11. CASE CallFails(r)
  BY <1>11 DEF CallFails
<1>12. CASE AckLost(r)
  BY <1>12 DEF AckLost
<1> QED
  BY <1>1, <1>2, <1>3, <1>4, <1>5, <1>6, <1>7, <1>8, <1>9, <1>10, <1>11, <1>12 DEF Step

\* Where a request is keeps agreeing with the envelope it carries.
LEMMA ControlNext ==
  ASSUME TypeOK, ControlOK, [SharedNext]_vars
  PROVE  ControlOK'
<1>1. CASE UNCHANGED vars
  BY <1>1 DEF vars, process, ControlOK, cmd
<1>2. ASSUME NEW r \in Requests, NEW e \in Envelope, Receive(r, e)
      PROVE  ControlOK'
  <2>1. pc'[r] \in {"precheck", "refuse"} /\ (pc'[r] = "precheck" => ValidateCommand(e.content))
    BY <1>2 DEF Receive, Goto, Refuse, TypeOK
  <2>2. cmd(r)' = e.content
    BY <1>2 DEF Receive, TypeOK, cmd
  <2>3. \A q \in Requests \ {r} : pc'[q] = pc[q] /\ cmd(q)' = cmd(q)
    BY <1>2 DEF Receive, Goto, Refuse, TypeOK, cmd
  <2> QED
    BY <2>1, <2>2, <2>3 DEF ControlOK, ValidateCommand, FallibleStages
<1>3. ASSUME NEW r \in Requests, Step(r)
      PROVE  ControlOK'
  <2>1. \A q \in Requests : cmd(q)' = cmd(q)
    BY <1>3, EnvelopeStable DEF cmd
  <2> QED
    BY <1>3, <2>1, StepMoves DEF ControlOK, IsClaimCommand
<1>4. CASE LoseMemory
  BY <1>4 DEF LoseMemory, ControlOK, FallibleStages, cmd, TypeOK
<1>5. CASE Elsewhere
  BY <1>5 DEF Elsewhere, process, ControlOK, cmd
<1> QED
  BY <1>1, <1>2, <1>3, <1>4, <1>5 DEF SharedNext

\* Every step keeps the types, whoever takes it.
LEMMA SharedTypesNext ==
  ASSUME TypeOK, ControlOK, [SharedNext]_vars
  PROVE  TypeOK' /\ ControlOK'
<1>1. CASE UNCHANGED vars
  BY <1>1, ControlNext DEF vars, db, process, history, TypeOK
<1>2. CASE Elsewhere
  BY <1>2, ControlNext DEF Elsewhere, process, TypeOK
<1> QED
  BY <1>1, <1>2, TypeReceive, TypeStep, TypeCrash, ControlNext DEF SharedNext

\* Types hold in every state of the pipeline among other writers.
LEMMA SharedTypes == SharedSpec => [](TypeOK /\ ControlOK)
<1>1. Init => TypeOK /\ ControlOK
  BY TypeInit, ControlInit
<1>2. TypeOK /\ ControlOK /\ [SharedNext]_vars => TypeOK' /\ ControlOK'
  BY SharedTypesNext
<1> QED
  BY <1>1, <1>2, PTL DEF SharedSpec

\* Every reachable state is well typed: in particular every row written to
\* Postgres satisfies the CHECK constraints and column types of its table, for
\* any schedule of requests, errors, lost acknowledgements and crashes.
THEOREM TypeCorrect == Spec => [](TypeOK /\ ControlOK)
BY SharedTypes, PipelineIsShared, PTL

----------------------------------------------------------------------------
(* Idempotency, audit before effect, refinement *)

\* What one step of a request may do to the tables and history the
\* idempotency argument is about.
LEMMA StepTables ==
  ASSUME TypeOK, NEW r \in Requests, Step(r)
  PROVE  /\ audit \subseteq audit'
         /\ \/ consumed' = consumed
            \/ pc[r] = "consume" /\ consumed' = consumed \cup {cmd(r)}
         /\ \/ applied' = applied
            \/ pc[r] = "effect" /\ applied' = applied \cup {r} /\ consumed' = consumed
         /\ pc[r] = "consume" /\ pc'[r] \in {"open", "audit"} =>
              cmd(r) \notin consumed /\ consumed' = consumed \cup {cmd(r)}
         /\ pc'[r] = "effect" => AuditEntry(r, cmd(r).type) \in audit'
         /\ pc[r] = "effect" => pc'[r] \notin FallibleStages \cup {"idle"}
<1> USE DEF Goto, Refuse, Fail, FallibleStages, TypeOK, db, history
<1>1. CASE Precheck(r)
  BY <1>1 DEF Precheck
<1>2. CASE GetKillSwitch(r)
  BY <1>2 DEF GetKillSwitch
<1>3. CASE FindSinistre(r)
  BY <1>3 DEF FindSinistre
<1>4. CASE EvaluatePolicy(r)
  BY <1>4 DEF EvaluatePolicy
<1>5. CASE MarkConsumed(r)
  BY <1>5 DEF MarkConsumed, InsertConsumed
<1>6. CASE OpenApprobation(r)
  BY <1>6 DEF OpenApprobation, InsertApprobation
<1>7. CASE AppendAudit(r)
  BY <1>7 DEF AppendAudit, InsertAudit
<1>8. CASE ApplyEffect(r)
  BY <1>8 DEF ApplyEffect, CommitEffect
<1>9. CASE DecideApprobation(r) \/ PostMessage(r)
  BY <1>9 DEF DecideApprobation, PostMessage
<1>10. CASE AuditExecuted(r) \/ AuditRefusal(r) \/ DeadLetter(r)
  BY <1>10 DEF AuditExecuted, AuditRefusal, DeadLetter, SafeAudit
<1>11. CASE CallFails(r)
  BY <1>11 DEF CallFails
<1>12. CASE AckLost(r)
  BY <1>12 DEF AckLost, InsertConsumed, InsertApprobation, InsertAudit, CommitEffect
<1> QED
  BY <1>1, <1>2, <1>3, <1>4, <1>5, <1>6, <1>7, <1>8, <1>9, <1>10, <1>11, <1>12 DEF Step

\* A request that won the insertion into commandes_consommees and has not
\* failed before the effect: it may still commit, or has committed.
Owner(r) == r \in applied \/ pc[r] \in {"open", "audit", "effect"}

\* AppliedAtMostOnce is not inductive: it must also be known that two requests
\* with one content are never both on their way to the effect, which holds
\* because each of them found the content absent from commandes_consommees and
\* put it there in the same statement.
OnceInv ==
  /\ \A r \in Requests : pc[r] \in FallibleStages \cup {"idle"} => r \notin applied
  /\ \A r \in Requests : Owner(r) => cmd(r) \in consumed
  /\ \A p, q \in Requests : Owner(p) /\ Owner(q) /\ cmd(p) = cmd(q) => p = q
  /\ \A r \in Requests :
       r \in applied \/ pc[r] = "effect" => AuditEntry(r, cmd(r).type) \in audit

\* Nothing is taken or applied at first.
LEMMA OnceInit == Init => OnceInv
  BY DEF Init, OnceInv, Owner, FallibleStages

\* An arrival takes and applies nothing.
LEMMA OnceReceive ==
  ASSUME TypeOK, OnceInv, NEW r \in Requests, NEW e \in Envelope, Receive(r, e)
  PROVE  OnceInv'
<1>1. /\ pc[r] = "idle" /\ pc'[r] \in {"precheck", "refuse"}
      /\ \A q \in Requests \ {r} : pc'[q] = pc[q] /\ env'[q] = env[q]
      /\ UNCHANGED <<consumed, audit, applied>>
  BY DEF Receive, Goto, Refuse, TypeOK, db
<1>2. r \notin applied /\ ~Owner(r)'
  BY <1>1 DEF OnceInv, Owner
<1>3. \A q \in Requests \ {r} : Owner(q)' <=> Owner(q)
  BY <1>1 DEF Owner
<1>4. \A q \in Requests \ {r} :
        cmd(q)' = cmd(q) /\ AuditEntry(q, cmd(q).type)' = AuditEntry(q, cmd(q).type)
  BY <1>1 DEF cmd, corr, AuditEntry
<1> QED
  BY <1>1, <1>2, <1>3, <1>4 DEF OnceInv, FallibleStages

\* A step of a request takes, records and applies in that order.
LEMMA OnceStep ==
  ASSUME TypeOK, OnceInv, NEW r \in Requests, Step(r)
  PROVE  OnceInv'
<1>1. \A q \in Requests :
        cmd(q)' = cmd(q) /\ AuditEntry(q, cmd(q).type)' = AuditEntry(q, cmd(q).type)
  BY EnvelopeStable DEF cmd, corr, AuditEntry
<1>2. \A q \in Requests \ {r} : Owner(q)' <=> Owner(q)
  BY StepMoves, StepTables DEF Owner
\* A new owner has just inserted its content.
<1>3. ~Owner(r) /\ Owner(r)' => cmd(r) \notin consumed /\ cmd(r) \in consumed'
  <2> SUFFICES ASSUME ~Owner(r), Owner(r)'
               PROVE  cmd(r) \notin consumed /\ cmd(r) \in consumed'
    OBVIOUS
  <2>1. pc'[r] \in {"open", "audit", "effect"}
    BY StepTables DEF Owner
  <2> QED
    BY <2>1, StepMoves, StepTables DEF Owner
<1>4. consumed \subseteq consumed' /\ audit \subseteq audit'
  BY StepTables
<1>5. ASSUME NEW q \in Requests, pc'[q] \in FallibleStages \cup {"idle"}
      PROVE  q \notin applied'
  <2>1. CASE q = r
    BY <1>5, <2>1, StepMoves, StepTables DEF OnceInv
  <2>2. CASE q # r
    BY <1>5, <2>2, StepMoves, StepTables DEF OnceInv
  <2> QED
    BY <2>1, <2>2
<1>6. \A q \in Requests : Owner(q)' => cmd(q)' \in consumed'
  BY <1>1, <1>2, <1>3, <1>4 DEF OnceInv
<1>7. \A p, q \in Requests : Owner(p)' /\ Owner(q)' /\ cmd(p)' = cmd(q)' => p = q
  BY <1>1, <1>2, <1>3 DEF OnceInv
<1>8. ASSUME NEW q \in Requests, q \in applied' \/ pc'[q] = "effect"
      PROVE  AuditEntry(q, cmd(q).type) \in audit'
  <2>1. CASE q = r
    BY <1>4, <1>8, <2>1, StepTables DEF OnceInv
  <2>2. CASE q # r
    BY <1>4, <1>8, <2>2, StepMoves, StepTables DEF OnceInv
  <2> QED
    BY <2>1, <2>2
<1> QED
  BY <1>1, <1>5, <1>6, <1>7, <1>8 DEF OnceInv

\* A crash forgets positions and no table.
LEMMA OnceCrash ==
  ASSUME TypeOK, OnceInv, LoseMemory
  PROVE  OnceInv'
<1>1. \A q \in Requests : pc'[q] \in {"done", pc[q]} /\ (InFlight(q) => pc'[q] = "done")
  BY DEF LoseMemory, TypeOK
<1>2. UNCHANGED <<consumed, audit, applied, env>>
  BY DEF LoseMemory, db, history
<1>3. \A q \in Requests : Owner(q)' => Owner(q)
  BY <1>1, <1>2 DEF Owner
<1> QED
  BY <1>1, <1>2, <1>3 DEF OnceInv, Owner, cmd, corr, AuditEntry, FallibleStages

\* The idempotency invariant holds in every reachable state.
LEMMA OnceInvariant == SharedSpec => [](TypeOK /\ ControlOK /\ OnceInv)
<1>1. TypeOK /\ OnceInv /\ [SharedNext]_vars => OnceInv'
  <2> SUFFICES ASSUME TypeOK, OnceInv, [SharedNext]_vars
               PROVE  OnceInv'
    OBVIOUS
  <2>1. CASE UNCHANGED vars
    BY <2>1 DEF vars, db, process, history, OnceInv, Owner, cmd, corr, AuditEntry
  <2>2. CASE Elsewhere
    BY <2>2 DEF Elsewhere, process, OnceInv, Owner, cmd, corr, AuditEntry
  <2> QED
    BY <2>1, <2>2, OnceReceive, OnceStep, OnceCrash DEF SharedNext
<1> QED
  BY <1>1, OnceInit, SharedTypes, PTL DEF SharedSpec

\* Both facts about the effect follow from it.
LEMMA OnceFacts ==
  ASSUME TypeOK, OnceInv
  PROVE  AppliedAtMostOnce /\ AuditedBeforeApplied
  BY DEF TypeOK, OnceInv, Owner, AppliedAtMostOnce, AuditedBeforeApplied

\* A content is applied at most once, however many requests carry it and
\* whatever fails between them.
THEOREM AtMostOnce == Spec => []AppliedAtMostOnce
BY OnceFacts, OnceInvariant, PipelineIsShared, PTL

\* No effect without its audit row and its consumption record.
THEOREM AuditBeforeEffect == Spec => []AuditedBeforeApplied
BY OnceFacts, OnceInvariant, PipelineIsShared, PTL

\* The pipeline implements the command register: every step takes one content,
\* applies one taken content for the first time, or leaves both alone.
LEMMA SharedRegister == SharedSpec => ImplementsRegister
<1> DEFINE pairs == {<<r, cmd(r)>> : r \in applied}
<1>1. Init => Register!Init
  BY DEF Init, Register!Init
<1>2. TypeOK /\ OnceInv /\ [SharedNext]_vars => [Register!Next]_<<consumed, pairs>>
  <2> SUFFICES ASSUME TypeOK, OnceInv, [SharedNext]_vars
               PROVE  Register!Next \/ UNCHANGED <<consumed, pairs>>
    OBVIOUS
  <2>1. ASSUME NEW r \in Requests, Step(r)
        PROVE  Register!Next \/ UNCHANGED <<consumed, pairs>>
    <3>1. \A q \in Requests : cmd(q)' = cmd(q)
      BY <2>1, EnvelopeStable DEF cmd
    <3>2. cmd(r) \in Contents
      BY RequestType
    <3>3. CASE applied' = applied
      <4>1. pairs' = pairs
        BY <3>1, <3>3 DEF TypeOK
      <4>2. CASE consumed' = consumed
        BY <4>1, <4>2
      <4>3. CASE consumed' = consumed \cup {cmd(r)} /\ consumed' # consumed
        <5>1. Register!Take(cmd(r))
          BY <4>1, <4>3 DEF Register!Take
        <5> QED
          BY <5>1, <3>2 DEF Register!Next
      <4> QED
        BY <2>1, <4>2, <4>3, StepTables
    <3>4. CASE applied' # applied
      <4>1. pc[r] = "effect" /\ applied' = applied \cup {r} /\ consumed' = consumed
        BY <2>1, <3>4, StepTables
      <4>2. r \notin applied /\ Owner(r)
        BY <4>1 DEF OnceInv, FallibleStages, Owner
      <4>3. pairs' = pairs \cup {<<r, cmd(r)>>}
        BY <3>1, <4>1 DEF TypeOK
      <4>4. cmd(r) \in consumed /\ \A q \in applied : cmd(q) # cmd(r)
        BY <4>2 DEF OnceInv, Owner, TypeOK
      <4>5. PICK c \in Contents : c = cmd(r)
        BY <3>2
      <4>6. Register!Apply(r, c)
        BY <4>1, <4>3, <4>4, <4>5 DEF Register!Apply
      <4> QED
        BY <4>6 DEF Register!Next
    <3> QED
      BY <3>3, <3>4
  <2>2. ASSUME NEW r \in Requests, NEW e \in Envelope, Receive(r, e)
        PROVE  UNCHANGED <<consumed, pairs>>
    <3>1. r \notin applied /\ UNCHANGED <<consumed, applied>>
      BY <2>2 DEF Receive, OnceInv, db
    <3>2. \A q \in applied : cmd(q)' = cmd(q)
      BY <2>2, <3>1 DEF Receive, TypeOK, cmd
    <3> QED
      BY <3>1, <3>2
  <2>3. CASE LoseMemory
    BY <2>3 DEF LoseMemory, db, history, cmd
  <2>4. CASE UNCHANGED vars
    BY <2>4 DEF vars, db, process, history, cmd
  <2>5. CASE Elsewhere
    BY <2>5 DEF Elsewhere, process, cmd
  <2> QED
    BY <2>1, <2>2, <2>3, <2>4, <2>5 DEF SharedNext
<1> QED
  BY <1>1, <1>2, OnceInvariant, PTL DEF SharedSpec, ImplementsRegister, Register!Spec

\* So does the pipeline alone.
THEOREM RegisterRefinement == Spec => ImplementsRegister
BY SharedRegister, PipelineIsShared, PTL

----------------------------------------------------------------------------
(* The kill-switch *)

PastSwitch == {"context", "policy", "consume", "open", "audit", "effect"}

\* LockedOut is not inductive: of the requests that arrived under the lock, only
\* a deactivation gets past the reading of the switch, and its effect ends the
\* lock.
LockInv ==
  \A r \in Requests : underLock[r] =>
    /\ actif
    /\ r \notin applied
    /\ pc[r] \in PastSwitch => cmd(r).type = "agent.killswitch.deactivate"

\* An effect either leaves the lock alone or ends it for every request.
LEMMA EffectLock ==
  ASSUME TypeOK, NEW r \in Requests, CommitEffect(r)
  PROVE  /\ \A q \in Requests : underLock'[q] => underLock[q] /\ (actif => actif')
         /\ cmd(r).type = "agent.killswitch.deactivate" => \A q \in Requests : ~underLock'[q]
<1>1. CASE KillSwitchEffect(r)
  BY <1>1 DEF KillSwitchEffect, TypeOK
<1>2. CASE ~KillSwitchEffect(r)
  BY <1>2 DEF CommitEffect, SettleClaimEffect, RejectClaimEffect, PricingExceptionEffect,
              ReportEffect, TypeOK
<1> QED
  BY <1>1, <1>2

\* The stages after the reading of the switch are entered through it.
LEMMA StepPastSwitch ==
  ASSUME TypeOK, NEW r \in Requests, Step(r), pc'[r] \in PastSwitch
  PROVE  \/ pc[r] \in PastSwitch
         \/ actif => cmd(r).type = "agent.killswitch.deactivate"
<1> USE DEF Goto, Refuse, Fail, TypeOK, PastSwitch
<1>1. CASE pc[r] = "precheck" \/ pc[r] \in {"resolve", "reply", "executed", "refuse", "dlq"}
  <2>1. pc'[r] \notin PastSwitch
    BY <1>1 DEF Step, Precheck, GetKillSwitch, FindSinistre, EvaluatePolicy, MarkConsumed,
         OpenApprobation, AppendAudit, ApplyEffect, DecideApprobation, PostMessage,
         AuditExecuted, AuditRefusal, DeadLetter, CallFails, AckLost
  <2> QED
    BY <2>1
<1>2. CASE pc[r] = "killswitch"
  <2>1. GetKillSwitch(r) \/ CallFails(r)
    BY <1>2 DEF Step, Precheck, GetKillSwitch, FindSinistre, EvaluatePolicy, MarkConsumed,
         OpenApprobation, AppendAudit, ApplyEffect, DecideApprobation, PostMessage,
         AuditExecuted, AuditRefusal, DeadLetter, CallFails, AckLost
  <2> QED
    BY <1>2, <2>1 DEF GetKillSwitch, CallFails
<1>3. pc[r] \in Stage \ {"idle", "done"}
  BY StepMoves DEF Step, Precheck, GetKillSwitch, FindSinistre, EvaluatePolicy, MarkConsumed,
         OpenApprobation, AppendAudit, ApplyEffect, DecideApprobation, PostMessage,
         AuditExecuted, AuditRefusal, DeadLetter, CallFails, AckLost, FallibleStages
<1> QED
  BY <1>1, <1>2, <1>3 DEF Stage

\* A step of a locked-out request stops before the effect.
LEMMA LockStep ==
  ASSUME TypeOK, LockInv, NEW r \in Requests, Step(r)
  PROVE  LockInv'
<1>1. \A q \in Requests : cmd(q)' = cmd(q)
  BY EnvelopeStable DEF cmd
<1>2. CASE CommitEffect(r) /\ pc[r] = "effect"
  <2>1. applied' = applied \cup {r}
    BY <1>2 DEF CommitEffect
  <2>2. ~underLock'[r]
    BY <1>2, EffectLock DEF LockInv, PastSwitch
  <2>3. \A q \in Requests \ {r} : pc'[q] = pc[q]
    BY StepMoves
  <2> QED
    BY <1>1, <1>2, <2>1, <2>2, <2>3, EffectLock DEF LockInv
<1>3. CASE UNCHANGED <<actif, applied, underLock>>
  <2>1. \A q \in Requests \ {r} : pc'[q] = pc[q]
    BY StepMoves
  <2>2. pc'[r] \in PastSwitch =>
          \/ pc[r] \in PastSwitch
          \/ actif => cmd(r).type = "agent.killswitch.deactivate"
    BY StepPastSwitch DEF PastSwitch
  <2> QED
    BY <1>1, <1>3, <2>1, <2>2 DEF LockInv
<1>4. (CommitEffect(r) /\ pc[r] = "effect") \/ UNCHANGED <<actif, applied, underLock>>
  BY DEF Step, Precheck, GetKillSwitch, FindSinistre, EvaluatePolicy, MarkConsumed,
         OpenApprobation, AppendAudit, ApplyEffect, DecideApprobation, PostMessage,
         AuditExecuted, AuditRefusal, DeadLetter, CallFails, AckLost, InsertConsumed,
         InsertApprobation, InsertAudit, db, history
<1> QED
  BY <1>2, <1>3, <1>4

\* The lock invariant holds in every reachable state.
LEMMA LockInvariant == SharedSpec => [](TypeOK /\ LockInv)
<1>1. Init => LockInv
  BY DEF Init, LockInv
<1>2. TypeOK /\ OnceInv /\ LockInv /\ [SharedNext]_vars => LockInv'
  <2> SUFFICES ASSUME TypeOK, OnceInv, LockInv, [SharedNext]_vars
               PROVE  LockInv'
    OBVIOUS
  <2>1. ASSUME NEW r \in Requests, NEW e \in Envelope, Receive(r, e)
        PROVE  LockInv'
    <3>1. /\ r \notin applied /\ UNCHANGED <<actif, applied>>
          /\ pc'[r] \in {"precheck", "refuse"} /\ underLock'[r] = actif
          /\ \A q \in Requests \ {r} :
               pc'[q] = pc[q] /\ underLock'[q] = underLock[q] /\ cmd(q)' = cmd(q)
      BY <2>1 DEF Receive, Goto, Refuse, TypeOK, OnceInv, db, cmd
    <3> QED
      BY <3>1 DEF LockInv, PastSwitch
  <2>2. ASSUME NEW r \in Requests, Step(r)
        PROVE  LockInv'
    BY <2>2, LockStep
  <2>3. CASE LoseMemory
    BY <2>3 DEF LoseMemory, db, history, LockInv, PastSwitch, cmd, TypeOK
  <2>4. CASE UNCHANGED vars
    BY <2>4 DEF vars, db, process, history, LockInv, cmd
  <2>5. CASE Elsewhere
    <3>1. UNCHANGED <<pc, env, applied>>
      BY <2>5 DEF Elsewhere, process
    <3>2. \A r \in Requests : underLock'[r] => underLock[r] /\ (actif => actif')
      BY <2>5 DEF Elsewhere, TypeOK
    <3> QED
      BY <3>1, <3>2 DEF LockInv, cmd
  <2> QED
    BY <2>1, <2>2, <2>3, <2>4, <2>5 DEF SharedNext
<1> QED
  BY <1>1, <1>2, OnceInvariant, PTL DEF SharedSpec

\* A request that arrives while the kill-switch is on commits nothing before
\* the switch has been turned off.
THEOREM LockedOutHolds == Spec => []LockedOut
<1>1. LockInv => LockedOut
  BY DEF LockInv, LockedOut
<1> QED
  BY <1>1, LockInvariant, PipelineIsShared, PTL

----------------------------------------------------------------------------
(* What the caller is told *)

\* TruthfulOutcome is not inductive: where a request is tells whether it has
\* committed, and an outcome is written only on the way out.
OutcomeInv ==
  /\ \A r \in Requests : pc[r] \in FallibleStages \cup {"idle"} => outcome[r] = "none"
  /\ \A r \in Requests :
       pc[r] \in {"resolve", "reply", "executed"} => r \in applied /\ outcome[r] = "none"
  /\ \A r \in Requests : pc[r] = "refuse" => r \notin applied
  /\ \A r \in Requests : outcome[r] \in {"denied", "consumed"} => r \notin applied
  /\ \A r \in Requests : outcome[r] = "executed" => r \in applied
  /\ posted \subseteq applied

\* A step of one request leaves the position, the result and the readings of
\* the others alone.
LEMMA StepOthers ==
  ASSUME TypeOK, NEW r \in Requests, Step(r)
  PROVE  \A q \in Requests \ {r} :
           pc'[q] = pc[q] /\ outcome'[q] = outcome[q] /\ seen'[q] = seen[q]
<1> USE DEF Goto, Refuse, Fail, TypeOK
<1>1. CASE Precheck(r) \/ GetKillSwitch(r) \/ FindSinistre(r) \/ EvaluatePolicy(r)
  BY <1>1 DEF Precheck, GetKillSwitch, FindSinistre, EvaluatePolicy
<1>2. CASE MarkConsumed(r) \/ OpenApprobation(r) \/ AppendAudit(r) \/ ApplyEffect(r)
  BY <1>2 DEF MarkConsumed, OpenApprobation, AppendAudit, ApplyEffect
<1>3. CASE DecideApprobation(r) \/ PostMessage(r) \/ AuditExecuted(r)
  BY <1>3 DEF DecideApprobation, PostMessage, AuditExecuted
<1>4. CASE AuditRefusal(r) \/ DeadLetter(r)
  BY <1>4 DEF AuditRefusal, DeadLetter
<1>5. CASE CallFails(r) \/ AckLost(r)
  BY <1>5 DEF CallFails, AckLost
<1> QED
  BY <1>1, <1>2, <1>3, <1>4, <1>5 DEF Step

\* Only the effect transaction moves the claims, the switch and the ledger.
LEMMA StepCommits ==
  ASSUME TypeOK, NEW r \in Requests, Step(r)
  PROVE  /\ before' = before
         /\ \/ UNCHANGED <<sinistres, actif, ledger, applied, underLock>>
            \/ /\ pc[r] = "effect" /\ CommitEffect(r)
               /\ pc'[r] \in {"resolve", "reply", "done", "dlq"}
<1> USE DEF db, history
<1>1. CASE ApplyEffect(r)
  BY <1>1 DEF ApplyEffect, CommitEffect, Goto, TypeOK
<1>2. CASE AckLost(r)
  BY <1>2 DEF AckLost, CommitEffect, InsertConsumed, InsertApprobation, InsertAudit, Fail,
              Goto, TypeOK
<1>3. CASE ~ApplyEffect(r) /\ ~AckLost(r)
  BY <1>3 DEF Step, Precheck, GetKillSwitch, FindSinistre, EvaluatePolicy, MarkConsumed,
       OpenApprobation, AppendAudit, DecideApprobation, PostMessage, AuditExecuted,
       AuditRefusal, DeadLetter, CallFails, InsertConsumed, InsertApprobation, InsertAudit
<1> QED
  BY <1>1, <1>2, <1>3

\* What a step makes of the outcome of its request, and when it commits.
LEMMA StepOutcome ==
  ASSUME TypeOK, NEW r \in Requests, Step(r)
  PROVE  /\ outcome'[r] # outcome[r] =>
              \/ pc[r] \in FallibleStages /\ pc'[r] \in {"refuse", "done"}
                 /\ outcome'[r] \in {"denied", "consumed", "dlq", "error"}
                 /\ (outcome'[r] \in {"denied", "consumed"} => pc[r] # "effect")
              \/ pc[r] = "executed" /\ outcome'[r] = "executed" /\ pc'[r] = "done"
              \/ pc[r] = "dlq" /\ outcome'[r] = "dlq" /\ pc'[r] = "done"
         /\ pc'[r] \in FallibleStages => outcome'[r] = outcome[r]
         /\ pc'[r] = "refuse" => pc[r] \in FallibleStages \ {"effect"}
         /\ pc'[r] \in {"resolve", "reply", "executed"} =>
              /\ pc[r] \in {"resolve", "reply"} \/ (pc[r] = "effect" /\ r \in applied')
              /\ outcome'[r] = outcome[r]
         /\ posted' \subseteq posted \cup (IF pc[r] = "reply" THEN {r} ELSE {})
<1> USE DEF Goto, Refuse, Fail, FallibleStages, TypeOK
<1>1. CASE Precheck(r) \/ GetKillSwitch(r) \/ FindSinistre(r) \/ EvaluatePolicy(r)
  BY <1>1 DEF Precheck, GetKillSwitch, FindSinistre, EvaluatePolicy
<1>2. CASE MarkConsumed(r) \/ OpenApprobation(r) \/ AppendAudit(r)
  BY <1>2 DEF MarkConsumed, OpenApprobation, AppendAudit
<1>3. CASE ApplyEffect(r)
  BY <1>3 DEF ApplyEffect, CommitEffect
<1>4. CASE DecideApprobation(r) \/ PostMessage(r) \/ AuditExecuted(r)
  BY <1>4 DEF DecideApprobation, PostMessage, AuditExecuted
<1>5. CASE AuditRefusal(r) \/ DeadLetter(r)
  BY <1>5 DEF AuditRefusal, DeadLetter
<1>6. CASE CallFails(r) \/ AckLost(r)
  BY <1>6 DEF CallFails, AckLost
<1> QED
  BY <1>1, <1>2, <1>3, <1>4, <1>5, <1>6 DEF Step

\* The outcome invariant holds in every reachable state.
LEMMA OutcomeInvariant == SharedSpec => []OutcomeInv
<1>1. Init => OutcomeInv
  BY DEF Init, OutcomeInv
<1>2. TypeOK /\ OnceInv /\ OutcomeInv /\ [SharedNext]_vars => OutcomeInv'
  <2> SUFFICES ASSUME TypeOK, OnceInv, OutcomeInv, [SharedNext]_vars
               PROVE  OutcomeInv'
    OBVIOUS
  <2>1. ASSUME NEW r \in Requests, NEW e \in Envelope, Receive(r, e)
        PROVE  OutcomeInv'
    <3>1. /\ r \notin applied /\ UNCHANGED <<applied, posted>>
          /\ \/ pc'[r] = "precheck" /\ outcome'[r] = outcome[r]
             \/ pc'[r] = "refuse" /\ outcome'[r] = "denied"
          /\ \A q \in Requests \ {r} : pc'[q] = pc[q] /\ outcome'[q] = outcome[q]
      BY <2>1 DEF Receive, Goto, Refuse, TypeOK, OnceInv, FallibleStages
    <3>2. pc[r] = "idle"
      BY <2>1 DEF Receive
    <3> QED
      BY <3>1, <3>2 DEF OutcomeInv, FallibleStages
  <2>2. ASSUME NEW r \in Requests, Step(r)
        PROVE  OutcomeInv'
    <3>1. applied \subseteq applied' /\ (applied' # applied => pc[r] = "effect" /\ applied' = applied \cup {r})
      BY <2>2, StepTables
    <3>2. \A q \in Requests \ {r} : (q \in applied' <=> q \in applied)
      BY <3>1
    <3>3. pc[r] # "effect" => (r \in applied' <=> r \in applied)
      BY <3>1
    <3>4. /\ pc'[r] \in FallibleStages \cup {"idle"} => outcome'[r] = "none"
          /\ pc'[r] \in {"resolve", "reply", "executed"} => r \in applied' /\ outcome'[r] = "none"
      BY <2>2, <3>1, StepMoves, StepOutcome DEF OutcomeInv, FallibleStages
    <3>5. pc'[r] = "refuse" => r \notin applied'
      BY <2>2, <3>3, StepOutcome DEF OnceInv
    <3>6. outcome'[r] \in {"denied", "consumed"} => r \notin applied'
      <4>1. CASE outcome'[r] = outcome[r]
        <5>1. outcome[r] \in {"denied", "consumed"} => pc[r] # "effect"
          BY DEF OutcomeInv, FallibleStages
        <5> QED
          BY <4>1, <5>1, <3>3 DEF OutcomeInv
      <4>2. CASE outcome'[r] # outcome[r]
        BY <2>2, <4>2, <3>3, StepOutcome DEF OnceInv
      <4> QED
        BY <4>1, <4>2
    <3>7. outcome'[r] = "executed" => r \in applied'
      BY <2>2, <3>1, StepOutcome DEF OutcomeInv
    <3>8. posted' \subseteq applied'
      BY <2>2, <3>1, StepOutcome DEF OutcomeInv
    <3>9. \A q \in Requests \ {r} : pc'[q] = pc[q] /\ outcome'[q] = outcome[q]
      BY <2>2, StepOthers
    <3> QED
      BY <3>2, <3>4, <3>5, <3>6, <3>7, <3>8, <3>9 DEF OutcomeInv
  <2>3. CASE LoseMemory
    BY <2>3 DEF LoseMemory, history, OutcomeInv, InFlight, FallibleStages, TypeOK
  <2>4. CASE UNCHANGED vars
    BY <2>4 DEF vars, process, history, OutcomeInv
  <2>5. CASE Elsewhere
    BY <2>5 DEF Elsewhere, process, OutcomeInv
  <2> QED
    BY <2>1, <2>2, <2>3, <2>4, <2>5 DEF SharedNext
<1> QED
  BY <1>1, <1>2, OnceInvariant, PTL DEF SharedSpec

\* What the caller reads in the result is what has happened, crashes, lost
\* acknowledgements and swallowed failures included.
THEOREM TruthfulOutcomeHolds == Spec => []TruthfulOutcome
<1>1. OutcomeInv => TruthfulOutcome
  BY DEF OutcomeInv, TruthfulOutcome
<1> QED
  BY <1>1, OutcomeInvariant, PipelineIsShared, PTL

----------------------------------------------------------------------------
(* Who may do what, on which claims *)

\* What a row of sinistres keeps of the claim it started as: all but a status
\* that an effect wrote.
RowOf(s, k) ==
  /\ s.montant_eur = Portfolio[k].montant_eur
  /\ s.compliance_bloque = Portfolio[k].compliance_bloque
  /\ s.statut \in {Portfolio[k].statut, "regle", "refuse"}

\* What the policy has established of a request it let through.
Vetted(r) ==
  /\ RequiresCeo(cmd(r).type) => role(r) = "ceo"
  /\ IsClaimCommand(cmd(r)) => cmd(r).claim_id \in Claims
  /\ cmd(r).type = "claim.settlement.approve" =>
       /\ role(r) \in {"ceo", "agent-sinistres"}
       /\ Portfolio[cmd(r).claim_id].statut \in {"ouvert", "en_traitement"}
       /\ ~Portfolio[cmd(r).claim_id].compliance_bloque
       /\ role(r) = "agent-sinistres" => Portfolio[cmd(r).claim_id].montant_eur <= ThresholdEur
       /\ Portfolio[cmd(r).claim_id].montant_eur <= Plafond(cmd(r), role(r))

Allowed == {"consume", "open", "audit", "effect"}

\* EffectAuthorised and SettlementCovers, with what makes them inductive: what
\* a request has passed at each stage, and that the row it read is that of its
\* claim, whatever its status has become since.
VettedInv ==
  /\ \A k \in Claims : RowOf(sinistres[k], k)
  /\ \A r \in Requests :
       /\ pc[r] \in FallibleStages => ValidateCommand(cmd(r))
       /\ pc[r] \in PastSwitch \cup {"killswitch"} \/ r \in applied =>
            ~CeoSansSignature(env[r].author, env[r].signed)
       /\ pc[r] = "policy" => \A s \in seen[r].sinistre :
            IsClaimCommand(cmd(r)) /\ cmd(r).claim_id \in Claims /\ RowOf(s, cmd(r).claim_id)
       /\ pc[r] \in Allowed \/ r \in applied => Vetted(r)
  /\ SettlementCovers

\* What the policy lets through is vetted, if what it was shown is the claim.
LEMMA EvaluateVets ==
  ASSUME TypeOK, NEW r \in Requests, NEW ctx, Evaluate(cmd(r), ctx, role(r)),
         \A s \in ctx.sinistre :
           IsClaimCommand(cmd(r)) /\ cmd(r).claim_id \in Claims /\ RowOf(s, cmd(r).claim_id)
  PROVE  Vetted(r)
<1>1. CASE cmd(r).type = "claim.settlement.approve"
  <2>1. EvaluateClaimApprove(cmd(r), ctx.sinistre, role(r))
    BY <1>1 DEF Evaluate
  <2>2. role(r) \in {"ceo", "agent-sinistres"}
    BY <2>1 DEF EvaluateClaimApprove
  <2>3. PICK s \in ctx.sinistre :
          /\ s.statut \in {"ouvert", "en_traitement"}
          /\ role(r) = "agent-sinistres" => s.montant_eur <= ThresholdEur
          /\ s.montant_eur <= Plafond(cmd(r), role(r))
          /\ ~s.compliance_bloque
    BY <2>1 DEF EvaluateClaimApprove
  <2>4. /\ cmd(r).claim_id \in Claims /\ s.montant_eur = Portfolio[cmd(r).claim_id].montant_eur
        /\ s.compliance_bloque = Portfolio[cmd(r).claim_id].compliance_bloque
        /\ s.statut = Portfolio[cmd(r).claim_id].statut
    BY <2>3 DEF RowOf
  <2> QED
    BY <1>1, <2>2, <2>3, <2>4 DEF Vetted, RequiresCeo
<1>2. CASE cmd(r).type = "claim.settlement.reject"
  <2>1. EvaluateClaimReject(ctx.sinistre, role(r))
    BY <1>2 DEF Evaluate
  <2> QED
    BY <1>2, <2>1 DEF EvaluateClaimReject, Vetted
<1>3. CASE ~IsClaimCommand(cmd(r))
  BY <1>3 DEF Evaluate, EvaluatePricingException, EvaluateKillswitchActivate,
              EvaluateKillswitchDeactivate, EvaluateFinanceRequest, Vetted, RequiresCeo,
              IsClaimCommand
<1> QED
  BY <1>1, <1>2, <1>3 DEF IsClaimCommand

\* What a request has passed when it enters a stage.
LEMMA StepVets ==
  ASSUME TypeOK, NEW r \in Requests, Step(r)
  PROVE  /\ pc'[r] = "killswitch" => ~CeoSansSignature(env[r].author, env[r].signed)
         /\ pc'[r] \in PastSwitch => pc[r] \in PastSwitch \cup {"killswitch"}
         /\ pc'[r] = "policy" =>
              seen'[r].sinistre = IF IsClaimCommand(cmd(r)) THEN SinistreOf(cmd(r)) ELSE {}
         /\ pc'[r] \in Allowed => \/ pc[r] \in Allowed
                                  \/ /\ pc[r] = "policy"
                                     /\ Evaluate(cmd(r),
                                          [actif |-> seen[r].actif, sinistre |-> seen[r].sinistre,
                                           commandConsumed |-> cmd(r) \in consumed], role(r))
<1> USE DEF Goto, Refuse, Fail, TypeOK, PastSwitch, Allowed
<1>1. CASE Precheck(r) \/ GetKillSwitch(r)
  BY <1>1 DEF Precheck, GetKillSwitch
<1>2. CASE FindSinistre(r)
  BY <1>2 DEF FindSinistre
<1>3. CASE EvaluatePolicy(r)
  BY <1>3 DEF EvaluatePolicy
<1>4. CASE MarkConsumed(r) \/ OpenApprobation(r) \/ AppendAudit(r) \/ ApplyEffect(r)
  BY <1>4 DEF MarkConsumed, OpenApprobation, AppendAudit, ApplyEffect
<1>5. CASE DecideApprobation(r) \/ PostMessage(r) \/ AuditExecuted(r)
  BY <1>5 DEF DecideApprobation, PostMessage, AuditExecuted
<1>6. CASE AuditRefusal(r) \/ DeadLetter(r)
  BY <1>6 DEF AuditRefusal, DeadLetter
<1>7. CASE CallFails(r) \/ AckLost(r)
  BY <1>7 DEF CallFails, AckLost
<1> QED
  BY <1>1, <1>2, <1>3, <1>4, <1>5, <1>6, <1>7 DEF Step

\* An effect changes nothing of a claim but its status.
LEMMA EffectRows ==
  ASSUME TypeOK, NEW r \in Requests, CommitEffect(r), \A k \in Claims : RowOf(sinistres[k], k)
  PROVE  \A k \in Claims : RowOf(sinistres'[k], k)
<1>1. ASSUME NEW x \in {"regle", "refuse"}, NEW k \in Claims,
             sinistres' = [sinistres EXCEPT ![cmd(r).claim_id].statut = x]
      PROVE  RowOf(sinistres'[k], k)
  <2>1. sinistres[k] \in SinistreRow
    BY DEF TypeOK
  <2>2. sinistres'[k] \in {sinistres[k], [sinistres[k] EXCEPT !.statut = x]}
    BY <1>1 DEF TypeOK
  <2> QED
    BY <2>1, <2>2 DEF RowOf, SinistreRow
<1> QED
  BY <1>1 DEF CommitEffect, SettleClaimEffect, RejectClaimEffect, KillSwitchEffect,
              PricingExceptionEffect, ReportEffect

\* What a vetted settlement pays covers its claim.
LEMMA VettedCovers ==
  ASSUME TypeOK, NEW r \in Requests, Vetted(r), ValidateCommand(cmd(r)),
         cmd(r).type = "claim.settlement.approve"
  PROVE  LET s == Portfolio[cmd(r).claim_id] paid == -SettlementAmount(cmd(r)) IN
           /\ paid > 0 /\ paid <= ThresholdEur
           /\ s.statut \in {"ouvert", "en_traitement"} /\ ~s.compliance_bloque
           /\ s.montant_eur <= ThresholdEur => s.montant_eur <= paid
<1> DEFINE s == Portfolio[cmd(r).claim_id]
<1>1. /\ s.statut \in {"ouvert", "en_traitement"} /\ ~s.compliance_bloque
      /\ s.montant_eur <= Plafond(cmd(r), role(r)) /\ cmd(r).claim_id \in Claims
  BY DEF Vetted, IsClaimCommand
<1>2. s.montant_eur \in Nat
  BY <1>1, PortfolioAssumption DEF SinistreRow
<1>3. cmd(r).amount \in Nat /\ cmd(r).amount > 0
  BY RequestType DEF ValidateCommand
<1>4. SettlementAmount(cmd(r)) = -Lesser(cmd(r).amount, ThresholdEur)
  BY DEF SettlementAmount
<1>5. Plafond(cmd(r), role(r)) \in {cmd(r).amount, Lesser(cmd(r).amount, ThresholdEur)}
  BY DEF Plafond
<1>6. Lesser(cmd(r).amount, ThresholdEur) \in {cmd(r).amount, ThresholdEur}
      /\ Lesser(cmd(r).amount, ThresholdEur) <= cmd(r).amount
      /\ Lesser(cmd(r).amount, ThresholdEur) <= ThresholdEur
  BY <1>3, ThresholdAssumption DEF Lesser
<1> HIDE DEF s
<1>7. /\ -SettlementAmount(cmd(r)) > 0 /\ -SettlementAmount(cmd(r)) <= ThresholdEur
      /\ s.montant_eur <= ThresholdEur => s.montant_eur <= -SettlementAmount(cmd(r))
  BY <1>1, <1>2, <1>3, <1>4, <1>5, <1>6, ThresholdAssumption
<1> QED
  BY <1>1, <1>7 DEF s

\* Whatever commits leaves the ledger covering its claims.
LEMMA EffectCovers ==
  ASSUME TypeOK, NEW r \in Requests, CommitEffect(r), Vetted(r), ValidateCommand(cmd(r)),
         SettlementCovers
  PROVE  SettlementCovers'
<1>1. CASE SettleClaimEffect(r)
  <2> DEFINE row == [correlation_id |-> corr(r), claim_id |-> cmd(r).claim_id,
                     montant |-> SettlementAmount(cmd(r))]
  <2>1. ledger' = Append(ledger, row) /\ cmd(r).type = "claim.settlement.approve"
    BY <1>1 DEF SettleClaimEffect
  <2>2. row.claim_id = cmd(r).claim_id /\ row.montant = SettlementAmount(cmd(r))
    OBVIOUS
  <2> HIDE DEF row
  <2>3. ledger \in Seq(LedgerRow)
    BY DEF TypeOK
  <2>4. ASSUME NEW i \in DOMAIN ledger'
        PROVE  ledger'[i] = row \/ (i \in DOMAIN ledger /\ ledger'[i] = ledger[i])
    BY <2>1, <2>3, <2>4
  <2>5. LET s == Portfolio[row.claim_id] paid == -row.montant IN
           /\ paid > 0 /\ paid <= ThresholdEur
           /\ s.statut \in {"ouvert", "en_traitement"} /\ ~s.compliance_bloque
           /\ s.montant_eur <= ThresholdEur => s.montant_eur <= paid
    BY <2>1, <2>2, VettedCovers
  <2> QED
    BY <2>4, <2>5 DEF SettlementCovers
<1>2. CASE ledger' = ledger
  BY <1>2 DEF SettlementCovers
<1> QED
  BY <1>1, <1>2 DEF CommitEffect, RejectClaimEffect, KillSwitchEffect,
                    PricingExceptionEffect, ReportEffect

\* A step keeps what was established of every request.
LEMMA VettedStep ==
  ASSUME TypeOK, OnceInv, VettedInv, NEW r \in Requests, Step(r)
  PROVE  VettedInv'
<1>1. \A q \in Requests :
        cmd(q)' = cmd(q) /\ role(q)' = role(q) /\ env'[q] = env[q] /\ (Vetted(q)' <=> Vetted(q))
  BY EnvelopeStable DEF cmd, role, Vetted
<1>2. /\ \A k \in Claims : RowOf(sinistres'[k], k)
      /\ SettlementCovers'
  <2>1. CASE UNCHANGED <<sinistres, ledger>>
    BY <2>1 DEF VettedInv, SettlementCovers
  <2>2. CASE pc[r] = "effect" /\ CommitEffect(r)
    <3>1. Vetted(r) /\ ValidateCommand(cmd(r))
      BY <2>2 DEF VettedInv, Allowed, FallibleStages
    <3> QED
      BY <2>2, <3>1, EffectRows, EffectCovers DEF VettedInv
  <2> QED
    BY <2>1, <2>2, StepCommits
<1>3. \A q \in Requests : q \in applied' => q \in applied \/ (q = r /\ pc[r] = "effect")
  BY StepTables
<1>4. \A q \in Requests \ {r} : pc'[q] = pc[q] /\ seen'[q] = seen[q]
  BY StepOthers
<1>5. pc'[r] \in FallibleStages => ValidateCommand(cmd(r))
  BY StepMoves DEF VettedInv
<1>6. pc'[r] \in PastSwitch \cup {"killswitch"} \/ r \in applied' =>
        ~CeoSansSignature(env[r].author, env[r].signed)
  <2>1. pc[r] = "effect" => pc[r] \in PastSwitch
    BY DEF PastSwitch
  <2> QED
    BY <1>3, <2>1, StepVets DEF VettedInv
<1>7. ASSUME pc'[r] = "policy", NEW s \in seen'[r].sinistre
      PROVE  IsClaimCommand(cmd(r)) /\ cmd(r).claim_id \in Claims /\ RowOf(s, cmd(r).claim_id)
  <2>1. IsClaimCommand(cmd(r)) /\ s \in SinistreOf(cmd(r))
    BY <1>7, StepVets
  <2> QED
    BY <2>1 DEF SinistreOf, VettedInv
<1>8. ASSUME pc'[r] \in Allowed \/ r \in applied'
      PROVE  Vetted(r)
  <2>1. CASE pc[r] \in Allowed \/ r \in applied
    BY <2>1 DEF VettedInv
  <2>2. CASE pc[r] \notin Allowed /\ r \notin applied
    <3>1. /\ pc[r] = "policy"
          /\ Evaluate(cmd(r), [actif |-> seen[r].actif, sinistre |-> seen[r].sinistre,
                               commandConsumed |-> cmd(r) \in consumed], role(r))
      BY <1>3, <1>8, <2>2, StepVets DEF Allowed
    <3>2. \A s \in seen[r].sinistre :
            IsClaimCommand(cmd(r)) /\ cmd(r).claim_id \in Claims /\ RowOf(s, cmd(r).claim_id)
      BY <3>1 DEF VettedInv
    <3> QED
      BY <3>1, <3>2, EvaluateVets
  <2> QED
    BY <2>1, <2>2
<1>9. ASSUME NEW q \in Requests
      PROVE  /\ pc'[q] \in FallibleStages => ValidateCommand(cmd(q))
             /\ pc'[q] \in PastSwitch \cup {"killswitch"} \/ q \in applied' =>
                  ~CeoSansSignature(env[q].author, env[q].signed)
             /\ pc'[q] = "policy" => \A s \in seen'[q].sinistre :
                  IsClaimCommand(cmd(q)) /\ cmd(q).claim_id \in Claims /\ RowOf(s, cmd(q).claim_id)
             /\ pc'[q] \in Allowed \/ q \in applied' => Vetted(q)
  <2>1. CASE q = r
    BY <1>5, <1>6, <1>7, <1>8, <2>1
  <2>2. CASE q # r
    BY <1>3, <1>4, <2>2 DEF VettedInv
  <2> QED
    BY <2>1, <2>2
<1> QED
  BY <1>1, <1>2, <1>9 DEF VettedInv

\* The invariant of the policy holds in every reachable state.
LEMMA VettedInvariant == SharedSpec => []VettedInv
<1>1. Init => VettedInv
  <2> SUFFICES ASSUME Init PROVE VettedInv
    OBVIOUS
  <2>1. SettlementCovers
    BY DEF Init, SettlementCovers
  <2>2. \A k \in Claims : RowOf(sinistres[k], k)
    BY DEF Init, RowOf
  <2> QED
    BY <2>1, <2>2 DEF Init, VettedInv, FallibleStages, PastSwitch, Allowed
<1>2. TypeOK /\ OnceInv /\ VettedInv /\ [SharedNext]_vars => VettedInv'
  <2> SUFFICES ASSUME TypeOK, OnceInv, VettedInv, [SharedNext]_vars
               PROVE  VettedInv'
    OBVIOUS
  <2>1. ASSUME NEW r \in Requests, NEW e \in Envelope, Receive(r, e)
        PROVE  VettedInv'
    <3>1. /\ r \notin applied /\ UNCHANGED <<sinistres, ledger, applied, seen>>
          /\ pc'[r] \in {"precheck", "refuse"}
          /\ pc'[r] = "precheck" => ValidateCommand(e.content)
          /\ env'[r] = e
          /\ \A q \in Requests \ {r} : pc'[q] = pc[q] /\ env'[q] = env[q]
      BY <2>1 DEF Receive, Goto, Refuse, TypeOK, OnceInv, FallibleStages, db
    <3>2. cmd(r)' = e.content
      BY <3>1 DEF cmd
    <3>3. \A q \in Requests \ {r} :
            cmd(q)' = cmd(q) /\ role(q)' = role(q) /\ (Vetted(q)' <=> Vetted(q))
      BY <3>1 DEF cmd, role, Vetted
    <3> QED
      BY <3>1, <3>2, <3>3 DEF VettedInv, FallibleStages, PastSwitch, Allowed, SettlementCovers
  <2>2. ASSUME NEW r \in Requests, Step(r)
        PROVE  VettedInv'
    BY <2>2, VettedStep
  <2>3. CASE LoseMemory
    <3>1. UNCHANGED <<sinistres, ledger, applied, seen, env>>
      BY <2>3 DEF LoseMemory, db, history
    <3>2. \A q \in Requests : pc'[q] = pc[q] \/ pc'[q] = "done"
      BY <2>3 DEF LoseMemory, TypeOK
    <3>3. \A q \in Requests : cmd(q)' = cmd(q) /\ (Vetted(q)' <=> Vetted(q))
      BY <3>1 DEF cmd, role, Vetted
    <3> QED
      BY <3>1, <3>2, <3>3 DEF VettedInv, FallibleStages, PastSwitch, Allowed, SettlementCovers
  <2>4. CASE UNCHANGED vars \/ Elsewhere
    <3>1. UNCHANGED <<sinistres, ledger, applied, seen, env, pc>>
      BY <2>4 DEF vars, db, process, history, Elsewhere
    <3>2. \A q \in Requests : cmd(q)' = cmd(q) /\ (Vetted(q)' <=> Vetted(q))
      BY <3>1 DEF cmd, role, Vetted
    <3> QED
      BY <3>1, <3>2 DEF VettedInv, SettlementCovers
  <2> QED
    BY <2>1, <2>2, <2>3, <2>4 DEF SharedNext
<1> QED
  BY <1>1, <1>2, OnceInvariant, PTL DEF SharedSpec

\* Both facts about who settles what follow from it.
LEMMA VettedFacts ==
  ASSUME TypeOK, VettedInv
  PROVE  EffectAuthorised /\ SettlementCovers
<1>1. ASSUME NEW r \in applied
      PROVE  /\ RequiresCeo(cmd(r).type) => SignedCeo(r)
             /\ cmd(r).type = "claim.settlement.approve" /\ ~SignedCeo(r) =>
                  /\ ~env[r].signed /\ env[r].author \in AllowedUnsigned \ CeoPubkeys
                  /\ Portfolio[cmd(r).claim_id].montant_eur <= ThresholdEur
  <2>1. r \in Requests /\ Vetted(r) /\ ~CeoSansSignature(env[r].author, env[r].signed)
    BY DEF TypeOK, VettedInv
  <2>2. role(r) = "ceo" <=> SignedCeo(r)
    BY DEF role, ResolveRole, SignedCeo
  <2>3. role(r) = "agent-sinistres" => ~env[r].signed /\ env[r].author \in AllowedUnsigned
    BY DEF role, ResolveRole
  <2> QED
    BY <2>1, <2>2, <2>3 DEF Vetted, CeoSansSignature
<1> QED
  BY <1>1 DEF EffectAuthorised, VettedInv

\* Nobody but a signed CEO has a reserved effect, and an unsigned settlement is
\* an allowlisted agent's on a claim within the threshold.
THEOREM EffectAuthorisedHolds == Spec => []EffectAuthorised
BY VettedFacts, VettedInvariant, TypeCorrect, PipelineIsShared, PTL

\* Every payment is within the threshold, on an open claim, and covers it.
THEOREM SettlementCoversHolds == Spec => []SettlementCovers
BY VettedFacts, VettedInvariant, TypeCorrect, PipelineIsShared, PTL

----------------------------------------------------------------------------
(* How the approval rows move *)

\* A row is itself with its status and its decision.
LEMMA RowItself ==
  ASSUME NEW a \in ApprobationRow
  PROVE  a = [a EXCEPT !.statut = a.statut, !.decided = a.decided]
  BY DEF ApprobationRow

\* Rows that are left alone move on.
LEMMA UnchangedRows ==
  ASSUME TypeOK, UNCHANGED approbations
  PROVE  RowsMoveOn /\ (RowsKeyed => RowsKeyed')
<1>1. \A a \in approbations : a \in ApprobationRow
  BY DEF TypeOK
<1> QED
  BY <1>1, RowItself DEF RowsMoveOn, RowsKeyed

\* So does a row under a correlation id that had none.
LEMMA InsertedRow ==
  ASSUME TypeOK, NEW row, approbations' = approbations \cup {row},
         ~HasApprobation(row.correlation_id)
  PROVE  RowsMoveOn /\ (RowsKeyed => RowsKeyed')
<1>1. \A a \in approbations : a \in ApprobationRow
  BY DEF TypeOK
<1>2. RowsMoveOn
  BY <1>1, RowItself DEF RowsMoveOn
<1>3. RowsKeyed => RowsKeyed'
  BY DEF RowsKeyed, HasApprobation
<1> QED
  BY <1>2, <1>3

\* Rows that are each replaced by one that moved on.
LEMMA MappedRows ==
  ASSUME TypeOK, NEW F, approbations' = {F[a] : a \in approbations},
         \A a \in approbations :
           /\ F[a] = [a EXCEPT !.statut = F[a].statut, !.decided = F[a].decided]
           /\ a.statut = "refuse" => F[a].statut = "refuse"
           /\ F[a].statut = "en_attente" => a.statut = "en_attente"
           /\ a.decided => F[a].decided
           /\ F[a].correlation_id = a.correlation_id
  PROVE  RowsMoveOn /\ (RowsKeyed => RowsKeyed')
<1>1. RowsMoveOn
  <2> SUFFICES ASSUME NEW a \in approbations
               PROVE  \E b \in approbations' :
                        /\ b = [a EXCEPT !.statut = b.statut, !.decided = b.decided]
                        /\ a.statut = "refuse" => b.statut = "refuse"
                        /\ b.statut = "en_attente" => a.statut = "en_attente"
                        /\ a.decided => b.decided
    BY Zenon DEF RowsMoveOn
  <2>1. F[a] \in approbations'
    OBVIOUS
  <2> WITNESS F[a] \in approbations'
  <2> QED
    OBVIOUS
<1>2. ASSUME RowsKeyed, NEW x \in approbations', NEW y \in approbations',
             x.correlation_id = y.correlation_id
      PROVE  x = y
  <2>1. PICK a \in approbations : x = F[a]
    OBVIOUS
  <2>2. PICK b \in approbations : y = F[b]
    OBVIOUS
  <2>3. a.correlation_id = b.correlation_id
    BY <1>2, <2>1, <2>2
  <2>4. a = b
    BY <1>2, <2>3 DEF RowsKeyed
  <2> QED
    BY <2>1, <2>2, <2>4
<1> QED
  BY <1>1, <1>2, Zenon DEF RowsKeyed

\* So do the rows of a correlation id that an effect or a decision closes.
LEMMA ClosedRows ==
  ASSUME TypeOK, NEW c, NEW approve \in BOOLEAN,
         \/ approbations' = SetStatut(c, {"en_attente"}, "approuve")
         \/ approbations' = SetStatut(c, {"en_attente", "approuve", "refuse"}, "refuse")
         \/ approbations' = Decided(c, approve)
  PROVE  RowsMoveOn /\ (RowsKeyed => RowsKeyed')
<1>1. \A a \in approbations : a \in ApprobationRow
  BY DEF TypeOK
<1>2. CASE approbations' = SetStatut(c, {"en_attente"}, "approuve")
  <2> DEFINE F == [a \in approbations |->
                     IF a.correlation_id = c /\ a.statut \in {"en_attente"}
                     THEN [a EXCEPT !.statut = "approuve"] ELSE a]
  <2>1. approbations' = {F[a] : a \in approbations}
    BY <1>2 DEF SetStatut
  <2>2. ASSUME NEW a \in approbations
        PROVE  /\ F[a] = [a EXCEPT !.statut = F[a].statut, !.decided = F[a].decided]
               /\ a.statut = "refuse" => F[a].statut = "refuse"
               /\ F[a].statut = "en_attente" => a.statut = "en_attente"
               /\ a.decided => F[a].decided
               /\ F[a].correlation_id = a.correlation_id
    BY <1>1 DEF ApprobationRow
  <2> HIDE DEF F
  <2> QED
    BY <2>1, <2>2, MappedRows
<1>3. CASE approbations' = SetStatut(c, {"en_attente", "approuve", "refuse"}, "refuse")
  <2> DEFINE F == [a \in approbations |->
                     IF a.correlation_id = c /\ a.statut \in {"en_attente", "approuve", "refuse"}
                     THEN [a EXCEPT !.statut = "refuse"] ELSE a]
  <2>1. approbations' = {F[a] : a \in approbations}
    BY <1>3 DEF SetStatut
  <2>2. ASSUME NEW a \in approbations
        PROVE  /\ F[a] = [a EXCEPT !.statut = F[a].statut, !.decided = F[a].decided]
               /\ a.statut = "refuse" => F[a].statut = "refuse"
               /\ F[a].statut = "en_attente" => a.statut = "en_attente"
               /\ a.decided => F[a].decided
               /\ F[a].correlation_id = a.correlation_id
    BY <1>1 DEF ApprobationRow
  <2> HIDE DEF F
  <2> QED
    BY <2>1, <2>2, MappedRows
<1>4. CASE approbations' = Decided(c, approve)
  <2> DEFINE to == IF approve THEN "approuve" ELSE "refuse"
             F == [a \in approbations |->
                     IF a.correlation_id = c /\ a.statut = "en_attente"
                     THEN [a EXCEPT !.statut = to, !.decided = TRUE] ELSE a]
  <2>1. approbations' = {F[a] : a \in approbations}
    BY <1>4 DEF Decided
  <2>2. to # "en_attente"
    OBVIOUS
  <2> HIDE DEF to
  <2>3. ASSUME NEW a \in approbations
        PROVE  /\ F[a] = [a EXCEPT !.statut = F[a].statut, !.decided = F[a].decided]
               /\ a.statut = "refuse" => F[a].statut = "refuse"
               /\ F[a].statut = "en_attente" => a.statut = "en_attente"
               /\ a.decided => F[a].decided
               /\ F[a].correlation_id = a.correlation_id
    BY <1>1, <2>2 DEF ApprobationRow
  <2> HIDE DEF F
  <2> QED
    BY <2>1, <2>3, MappedRows
<1> QED
  BY <1>2, <1>3, <1>4

\* So do the rows under every step of the pipeline.
LEMMA StepRows ==
  ASSUME TypeOK, NEW r \in Requests, Step(r)
  PROVE  RowsMoveOn /\ (RowsKeyed => RowsKeyed')
<1>1. CASE UNCHANGED approbations
  BY <1>1, UnchangedRows
<1>2. CASE InsertApprobation(r)
  <2> DEFINE row == [correlation_id |-> corr(r), type |-> cmd(r).type,
                     claim_id |-> cmd(r).claim_id,
                     montant_eur |-> IF cmd(r).type = "claim.settlement.approve"
                                     THEN cmd(r).amount ELSE 0,
                     statut |-> "en_attente", decided |-> FALSE]
  <2>1. row.correlation_id = corr(r)
    OBVIOUS
  <2>2. \/ UNCHANGED approbations
        \/ approbations' = approbations \cup {row} /\ ~HasApprobation(corr(r))
    BY <1>2 DEF InsertApprobation
  <2> HIDE DEF row
  <2> QED
    BY <2>1, <2>2, UnchangedRows, InsertedRow
<1>3. CASE PricingExceptionEffect(r)
  <2> DEFINE row == [correlation_id |-> corr(r), type |-> cmd(r).type,
                     claim_id |-> cmd(r).claim_id, montant_eur |-> cmd(r).amount,
                     statut |-> "approuve", decided |-> TRUE]
  <2>1. row.correlation_id = corr(r)
    OBVIOUS
  <2>2. \/ UNCHANGED approbations
        \/ approbations' = approbations \cup {row} /\ ~HasApprobation(corr(r))
    BY <1>3 DEF PricingExceptionEffect
  <2> HIDE DEF row
  <2> QED
    BY <2>1, <2>2, UnchangedRows, InsertedRow
<1>4. CASE SettleClaimEffect(r) \/ RejectClaimEffect(r)
  BY <1>4, ClosedRows DEF SettleClaimEffect, RejectClaimEffect
<1>5. CASE DecideApprobation(r)
  <2>1. (cmd(r).type = "claim.settlement.approve") \in BOOLEAN
    OBVIOUS
  <2>2. \/ UNCHANGED approbations
        \/ approbations' = Decided(corr(r), cmd(r).type = "claim.settlement.approve")
    BY <1>5 DEF DecideApprobation
  <2> QED
    BY <2>1, <2>2, UnchangedRows, ClosedRows
<1>6. \/ UNCHANGED approbations \/ InsertApprobation(r) \/ PricingExceptionEffect(r)
      \/ SettleClaimEffect(r) \/ RejectClaimEffect(r) \/ DecideApprobation(r)
  <2>1. CommitEffect(r) => \/ UNCHANGED approbations \/ PricingExceptionEffect(r)
                           \/ SettleClaimEffect(r) \/ RejectClaimEffect(r)
    BY DEF CommitEffect, KillSwitchEffect, ReportEffect
  <2> QED
    BY <2>1 DEF Step, Precheck, GetKillSwitch, FindSinistre, EvaluatePolicy, MarkConsumed,
       OpenApprobation, AppendAudit, ApplyEffect, PostMessage, AuditExecuted,
       AuditRefusal, DeadLetter, CallFails, AckLost, InsertConsumed, InsertAudit, db
<1> QED
  BY <1>1, <1>2, <1>3, <1>4, <1>5, <1>6

\* So they do in every step, whoever takes it.
LEMMA SharedRows ==
  ASSUME TypeOK, [SharedNext]_vars
  PROVE  RowsMoveOn /\ (RowsKeyed => RowsKeyed')
<1>1. ASSUME NEW r \in Requests, NEW e \in Envelope, Receive(r, e)
      PROVE  UNCHANGED approbations
  BY <1>1 DEF Receive, db
<1>2. LoseMemory \/ UNCHANGED vars => UNCHANGED approbations
  BY DEF LoseMemory, vars, db
<1>3. Elsewhere => (RowsMoveOn /\ RowsKeyed') \/ UNCHANGED approbations
  BY DEF Elsewhere
<1> QED
  BY <1>1, <1>2, <1>3, UnchangedRows, StepRows DEF SharedNext

\* One row per correlation id, at first and ever after.
LEMMA KeyedInvariant == SharedSpec => []RowsKeyed
<1>1. Init => RowsKeyed
  BY BacklogAssumption DEF Init, RowsKeyed
<1>2. TypeOK /\ RowsKeyed /\ [SharedNext]_vars => RowsKeyed'
  BY SharedRows
<1> QED
  BY <1>1, <1>2, SharedTypes, PTL DEF SharedSpec

\* A row that is there stays there, and what was closed stays closed.
LEMMA RowsStay ==
  ASSUME TypeOK, RowsMoveOn, NEW c
  PROVE  /\ HasApprobation(c) => HasApprobation(c)'
         /\ (\E a \in approbations : a.correlation_id = c /\ a.statut # "en_attente") =>
              \E a \in approbations' : a.correlation_id = c /\ a.statut # "en_attente"
<1>1. ASSUME NEW a \in approbations
      PROVE  \E b \in approbations' :
               /\ b.correlation_id = a.correlation_id
               /\ b.statut = "en_attente" => a.statut = "en_attente"
  <2>1. PICK b \in approbations' :
          /\ b = [a EXCEPT !.statut = b.statut, !.decided = b.decided]
          /\ b.statut = "en_attente" => a.statut = "en_attente"
    BY DEF RowsMoveOn
  <2>2. a \in ApprobationRow
    BY DEF TypeOK
  <2>3. b.correlation_id = a.correlation_id
    BY <2>1, <2>2 DEF ApprobationRow
  <2> QED
    BY <2>1, <2>3
<1> QED
  BY <1>1 DEF HasApprobation

----------------------------------------------------------------------------
(* The tables agree *)

\* BooksAgree, with the claims of the ledger and the approval row every claim
\* command on its way to the effect has.
BooksInv ==
  /\ BooksAgree
  /\ \A i \in DOMAIN ledger : ledger[i].claim_id \in Claims
  /\ \A r \in Requests :
       pc[r] \in {"audit", "effect"} /\ IsClaimCommand(cmd(r)) => HasApprobation(corr(r))

\* A claim command gets to its audit through its approval row.
LEMMA StepOpens ==
  ASSUME TypeOK, NEW r \in Requests, Step(r), IsClaimCommand(cmd(r))
  PROVE  /\ pc'[r] = "audit" => HasApprobation(corr(r))'
         /\ pc'[r] = "effect" => pc[r] = "audit"
<1>1. corr(r)' = corr(r)
  BY EnvelopeStable DEF corr
<1>2. ASSUME pc'[r] = "audit"
      PROVE  OpenApprobation(r)
  BY <1>2 DEF Step, Precheck, GetKillSwitch, FindSinistre, EvaluatePolicy, MarkConsumed,
       AppendAudit, ApplyEffect, DecideApprobation, PostMessage, AuditExecuted,
       AuditRefusal, DeadLetter, CallFails, AckLost, Fail, Goto, Refuse, TypeOK
<1>3. OpenApprobation(r) => HasApprobation(corr(r))'
  <2> SUFFICES ASSUME OpenApprobation(r), ~HasApprobation(corr(r))
               PROVE  HasApprobation(corr(r))'
    BY <1>1 DEF OpenApprobation, InsertApprobation, HasApprobation
  <2> DEFINE row == [correlation_id |-> corr(r), type |-> cmd(r).type,
                     claim_id |-> cmd(r).claim_id,
                     montant_eur |-> IF cmd(r).type = "claim.settlement.approve"
                                     THEN cmd(r).amount ELSE 0,
                     statut |-> "en_attente", decided |-> FALSE]
  <2>1. row \in approbations' /\ row.correlation_id = corr(r)
    BY DEF OpenApprobation, InsertApprobation
  <2> QED
    BY <1>1, <2>1 DEF HasApprobation
<1> QED
  BY <1>2, <1>3, StepMoves

\* The effect of a claim command leaves no approval of its correlation id
\* pending.
LEMMA EffectCloses ==
  ASSUME TypeOK, NEW r \in Requests, CommitEffect(r), IsClaimCommand(cmd(r)),
         HasApprobation(corr(r))
  PROVE  \E a \in approbations' : a.correlation_id = corr(r) /\ a.statut # "en_attente"
<1>1. PICK a \in approbations : a.correlation_id = corr(r)
  BY DEF HasApprobation
<1>2. a \in ApprobationRow
  BY DEF TypeOK
<1>3. CASE SettleClaimEffect(r)
  <2> DEFINE b == IF a.correlation_id = corr(r) /\ a.statut \in {"en_attente"}
                  THEN [a EXCEPT !.statut = "approuve"] ELSE a
  <2>1. b \in approbations'
    BY <1>3 DEF SettleClaimEffect, SetStatut
  <2>2. b.correlation_id = corr(r) /\ b.statut # "en_attente"
    BY <1>1, <1>2 DEF ApprobationRow
  <2> QED
    BY <2>1, <2>2
<1>4. CASE RejectClaimEffect(r)
  <2> DEFINE b == IF a.correlation_id = corr(r) /\ a.statut \in {"en_attente", "approuve", "refuse"}
                  THEN [a EXCEPT !.statut = "refuse"] ELSE a
  <2>1. b \in approbations'
    BY <1>4 DEF RejectClaimEffect, SetStatut
  <2>2. b.correlation_id = corr(r) /\ b.statut # "en_attente"
    BY <1>1, <1>2 DEF ApprobationRow
  <2> QED
    BY <2>1, <2>2
<1> QED
  BY <1>3, <1>4 DEF CommitEffect, KillSwitchEffect, PricingExceptionEffect, ReportEffect,
                    IsClaimCommand

\* The claims and the ledger agree after an effect.
LEMMA EffectBooks ==
  ASSUME TypeOK, NEW r \in Requests, CommitEffect(r),
         IsClaimCommand(cmd(r)) => cmd(r).claim_id \in Claims,
         \A i \in DOMAIN ledger :
           /\ ledger[i].claim_id \in Claims
           /\ sinistres[ledger[i].claim_id].statut \in {"regle", "refuse"},
         \A k \in Claims : sinistres[k].statut = "regle" /\ Portfolio[k].statut # "regle" =>
           \E i \in DOMAIN ledger : ledger[i].claim_id = k
  PROVE  /\ \A i \in DOMAIN ledger' :
              /\ ledger'[i].claim_id \in Claims
              /\ sinistres'[ledger'[i].claim_id].statut \in {"regle", "refuse"}
         /\ \A k \in Claims : sinistres'[k].statut = "regle" /\ Portfolio[k].statut # "regle" =>
              \E i \in DOMAIN ledger' : ledger'[i].claim_id = k
<1> DEFINE claim == cmd(r).claim_id
<1>1. \A k \in Claims : sinistres[k] \in SinistreRow
  BY DEF TypeOK
<1>2. ledger \in Seq(LedgerRow) /\ sinistres \in [Claims -> SinistreRow]
  BY DEF TypeOK
<1>3. CASE SettleClaimEffect(r)
  <2> DEFINE row == [correlation_id |-> corr(r), claim_id |-> cmd(r).claim_id,
                     montant |-> SettlementAmount(cmd(r))]
  <2>1. ledger' = Append(ledger, row) /\ row.claim_id = claim /\ claim \in Claims
    BY <1>3 DEF SettleClaimEffect, IsClaimCommand
  <2>2. sinistres' = [sinistres EXCEPT ![claim].statut = "regle"]
    BY <1>3 DEF SettleClaimEffect
  <2>3. sinistres'[claim].statut = "regle" /\ \A k \in Claims \ {claim} : sinistres'[k] = sinistres[k]
    BY <1>1, <1>2, <2>1, <2>2 DEF SinistreRow
  <2> HIDE DEF row, claim
  <2>4. /\ Len(ledger) + 1 \in DOMAIN ledger' /\ ledger'[Len(ledger) + 1] = row
        /\ \A i \in DOMAIN ledger : i \in DOMAIN ledger' /\ ledger'[i] = ledger[i]
        /\ \A i \in DOMAIN ledger' : i \in DOMAIN ledger \/ ledger'[i] = row
    BY <1>2, <2>1
  <2>5. ASSUME NEW i \in DOMAIN ledger'
        PROVE  /\ ledger'[i].claim_id \in Claims
               /\ sinistres'[ledger'[i].claim_id].statut \in {"regle", "refuse"}
    BY <2>1, <2>3, <2>4
  <2>6. ASSUME NEW k \in Claims, sinistres'[k].statut = "regle", Portfolio[k].statut # "regle"
        PROVE  \E i \in DOMAIN ledger' : ledger'[i].claim_id = k
    BY <2>1, <2>3, <2>4, <2>6
  <2> QED
    BY <2>5, <2>6
<1>4. CASE RejectClaimEffect(r)
  <2>1. ledger' = ledger /\ claim \in Claims /\ sinistres' = [sinistres EXCEPT ![claim].statut = "refuse"]
    BY <1>4 DEF RejectClaimEffect, IsClaimCommand
  <2>2. sinistres'[claim].statut = "refuse" /\ \A k \in Claims \ {claim} : sinistres'[k] = sinistres[k]
    BY <1>1, <1>2, <2>1 DEF SinistreRow
  <2> QED
    BY <2>1, <2>2
<1>5. CASE UNCHANGED <<ledger, sinistres>>
  BY <1>5
<1> QED
  BY <1>3, <1>4, <1>5 DEF CommitEffect, KillSwitchEffect, PricingExceptionEffect, ReportEffect

\* A step keeps the tables in agreement.
LEMMA BooksStep ==
  ASSUME TypeOK, OnceInv, VettedInv, BooksInv, NEW r \in Requests, Step(r)
  PROVE  BooksInv'
<1>1. \A q \in Requests : cmd(q)' = cmd(q) /\ corr(q)' = corr(q)
  BY EnvelopeStable DEF cmd, corr
<1>2. /\ \A i \in DOMAIN ledger' :
           /\ ledger'[i].claim_id \in Claims
           /\ sinistres'[ledger'[i].claim_id].statut \in {"regle", "refuse"}
      /\ \A k \in Claims : sinistres'[k].statut = "regle" /\ Portfolio[k].statut # "regle" =>
           \E i \in DOMAIN ledger' : ledger'[i].claim_id = k
  <2>1. CASE UNCHANGED <<sinistres, ledger>>
    BY <2>1 DEF BooksInv, BooksAgree
  <2>2. CASE pc[r] = "effect" /\ CommitEffect(r)
    <3>1. IsClaimCommand(cmd(r)) => cmd(r).claim_id \in Claims
      BY <2>2 DEF VettedInv, Allowed, Vetted
    <3> QED
      BY <2>2, <3>1, EffectBooks DEF BooksInv, BooksAgree
  <2> QED
    BY <2>1, <2>2, StepCommits
<1>3. RowsMoveOn
  BY StepRows
<1>4. ASSUME NEW q \in Requests, pc'[q] \in {"audit", "effect"}, IsClaimCommand(cmd(q))
      PROVE  HasApprobation(corr(q))'
  <2>1. CASE q # r
    BY <1>1, <1>3, <1>4, <2>1, StepOthers, RowsStay DEF BooksInv
  <2>2. CASE q = r
    BY <1>1, <1>3, <1>4, <2>2, StepOpens, RowsStay DEF BooksInv
  <2> QED
    BY <2>1, <2>2
<1>5. ASSUME NEW q \in applied', IsClaimCommand(cmd(q))
      PROVE  \E a \in approbations' : a.correlation_id = corr(q) /\ a.statut # "en_attente"
  <2>1. CASE q \in applied
    BY <1>3, <1>5, <2>1, RowsStay DEF BooksInv, BooksAgree
  <2>2. CASE q \notin applied
    <3>1. q = r /\ pc[r] = "effect" /\ CommitEffect(r)
      BY <2>2, StepTables, StepCommits
    <3>2. HasApprobation(corr(r))
      BY <1>5, <3>1 DEF BooksInv
    <3> QED
      BY <1>5, <3>1, <3>2, EffectCloses
  <2> QED
    BY <2>1, <2>2
<1>6. applied' \subseteq Requests
  BY StepTables DEF TypeOK
<1>7. BooksAgree'
  BY <1>1, <1>2, <1>5, <1>6 DEF BooksAgree
<1> QED
  BY <1>1, <1>2, <1>4, <1>7 DEF BooksInv

\* The tables agree in every reachable state.
LEMMA BooksInvariant == SharedSpec => []BooksInv
<1>1. Init => BooksInv
  <2> SUFFICES ASSUME Init PROVE BooksInv
    OBVIOUS
  <2>1. DOMAIN ledger = {} /\ applied = {} /\ sinistres = Portfolio
    BY DEF Init
  <2>2. \A r \in Requests : pc[r] = "idle"
    BY DEF Init
  <2> QED
    BY <2>1, <2>2 DEF BooksInv, BooksAgree
<1>2. TypeOK /\ OnceInv /\ VettedInv /\ BooksInv /\ [SharedNext]_vars => BooksInv'
  <2> SUFFICES ASSUME TypeOK, OnceInv, VettedInv, BooksInv, [SharedNext]_vars
               PROVE  BooksInv'
    OBVIOUS
  <2>1. RowsMoveOn
    BY SharedRows
  <2>2. ASSUME UNCHANGED <<sinistres, ledger, applied>>,
               \A q \in Requests : pc'[q] \in {"audit", "effect"} =>
                 pc'[q] = pc[q] /\ cmd(q)' = cmd(q) /\ corr(q)' = corr(q),
               \A q \in applied : cmd(q)' = cmd(q) /\ corr(q)' = corr(q)
        PROVE  BooksInv'
    <3>1. ASSUME NEW q \in Requests, pc'[q] \in {"audit", "effect"}, IsClaimCommand(cmd(q))'
          PROVE  HasApprobation(corr(q))'
      BY <2>1, <2>2, <3>1, RowsStay DEF BooksInv, IsClaimCommand
    <3>2. ASSUME NEW q \in applied', IsClaimCommand(cmd(q))'
          PROVE  \E a \in approbations' : a.correlation_id = corr(q)' /\ a.statut # "en_attente"
      <4>1. q \in applied /\ IsClaimCommand(cmd(q)) /\ corr(q)' = corr(q)
        BY <2>2, <3>2 DEF IsClaimCommand
      <4> QED
        BY <2>1, <4>1, RowsStay DEF BooksInv, BooksAgree
    <3>3. BooksAgree'
      BY <2>2, <3>2 DEF BooksInv, BooksAgree
    <3> QED
      BY <2>2, <3>1, <3>3 DEF BooksInv
  <2>3. ASSUME NEW r \in Requests, NEW e \in Envelope, Receive(r, e)
        PROVE  BooksInv'
    <3>1. /\ r \notin applied /\ UNCHANGED <<sinistres, ledger, applied>>
          /\ pc'[r] \notin {"audit", "effect"}
          /\ \A q \in Requests \ {r} : pc'[q] = pc[q] /\ cmd(q)' = cmd(q) /\ corr(q)' = corr(q)
      BY <2>3 DEF Receive, Goto, Refuse, TypeOK, OnceInv, FallibleStages, db, cmd, corr
    <3> QED
      BY <2>2, <3>1 DEF TypeOK
  <2>4. ASSUME NEW r \in Requests, Step(r)
        PROVE  BooksInv'
    BY <2>4, BooksStep
  <2>5. CASE LoseMemory
    <3>1. /\ UNCHANGED <<sinistres, ledger, applied, env>>
          /\ \A q \in Requests : pc'[q] \in {pc[q], "done"}
      BY <2>5 DEF LoseMemory, db, history, TypeOK
    <3> QED
      BY <2>2, <3>1 DEF cmd, corr
  <2>6. CASE UNCHANGED vars \/ Elsewhere
    <3>1. UNCHANGED <<sinistres, ledger, applied, env, pc>>
      BY <2>6 DEF vars, db, process, history, Elsewhere
    <3> QED
      BY <2>2, <3>1 DEF cmd, corr
  <2> QED
    BY <2>3, <2>4, <2>5, <2>6 DEF SharedNext
<1> QED
  BY <1>1, <1>2, OnceInvariant, VettedInvariant, PTL DEF SharedSpec

\* A claim with a settlement row is closed, a claim that became 'regle' has its
\* row, and no applied claim command has left its approval pending.
THEOREM BooksAgreeHolds == Spec => []BooksAgree
<1>1. BooksInv => BooksAgree
  BY DEF BooksInv
<1> QED
  BY <1>1, BooksInvariant, PipelineIsShared, PTL

----------------------------------------------------------------------------
(* No content is lost in silence *)

\* Where the request is that answers for a consumed content.
Accounted(r) ==
  \/ r \in applied
  \/ pc[r] \in {"open", "audit", "effect", "dlq"}
  \/ pc[r] = "done" /\ outcome[r] \in {"dlq", "error", "lost"}

\* A request that answers for its content goes on doing so, and one that takes a
\* content begins to.
LEMMA StepAccounts ==
  ASSUME TypeOK, NEW r \in Requests, Step(r)
  PROVE  /\ Accounted(r) => Accounted(r)'
         /\ consumed' # consumed => Accounted(r)'
<1> USE DEF Goto, Refuse, Fail, TypeOK, Accounted
<1>1. CASE Precheck(r) \/ GetKillSwitch(r) \/ FindSinistre(r) \/ EvaluatePolicy(r)
  BY <1>1 DEF Precheck, GetKillSwitch, FindSinistre, EvaluatePolicy, db, history
<1>2. CASE MarkConsumed(r)
  BY <1>2 DEF MarkConsumed, InsertConsumed, history
<1>3. CASE OpenApprobation(r) \/ AppendAudit(r)
  BY <1>3 DEF OpenApprobation, AppendAudit, InsertApprobation, InsertAudit, history
<1>4. CASE ApplyEffect(r)
  BY <1>4 DEF ApplyEffect, CommitEffect
<1>5. CASE DecideApprobation(r) \/ PostMessage(r) \/ AuditExecuted(r)
  BY <1>5 DEF DecideApprobation, PostMessage, AuditExecuted, db, history
<1>6. CASE AuditRefusal(r) \/ DeadLetter(r)
  BY <1>6 DEF AuditRefusal, DeadLetter, history
<1>7. CASE CallFails(r)
  BY <1>7 DEF CallFails, db, history
<1>8. CASE AckLost(r)
  BY <1>8 DEF AckLost, InsertConsumed, InsertApprobation, InsertAudit, CommitEffect, history
<1> QED
  BY <1>1, <1>2, <1>3, <1>4, <1>5, <1>6, <1>7, <1>8 DEF Step

\* Every consumed content is answered for, whatever fails after it was consumed.
LEMMA LossInvariant == SharedSpec => []NoSilentLoss
<1>1. Init => NoSilentLoss
  BY DEF Init, NoSilentLoss
<1>2. TypeOK /\ OnceInv /\ NoSilentLoss /\ [SharedNext]_vars => NoSilentLoss'
  <2> SUFFICES ASSUME TypeOK, OnceInv, NoSilentLoss, [SharedNext]_vars,
                      NEW c \in consumed'
               PROVE  \E r \in Requests : cmd(r)' = c /\ Accounted(r)'
    BY Zenon DEF NoSilentLoss, Accounted
  <2> DEFINE Witness(r) == r \in Requests /\ cmd(r) = c /\ Accounted(r)
  <2>1. c \in consumed => \E r \in Requests : Witness(r)
    BY DEF NoSilentLoss, Accounted
  <2>2. ASSUME NEW r \in Requests, NEW e \in Envelope, Receive(r, e)
        PROVE  \E q \in Requests : cmd(q)' = c /\ Accounted(q)'
    <3>1. c \in consumed /\ r \notin applied /\ pc[r] = "idle" /\ UNCHANGED applied
      BY <2>2 DEF Receive, OnceInv, FallibleStages, db
    <3>2. \A q \in Requests \ {r} : cmd(q)' = cmd(q) /\ pc'[q] = pc[q] /\ outcome'[q] = outcome[q]
      BY <2>2 DEF Receive, Goto, Refuse, TypeOK, cmd
    <3>3. PICK q \in Requests : Witness(q)
      BY <2>1, <3>1
    <3>4. q # r
      BY <3>1, <3>3 DEF Accounted
    <3> QED
      BY <3>1, <3>2, <3>3, <3>4 DEF Accounted
  <2>3. ASSUME NEW r \in Requests, Step(r)
        PROVE  \E q \in Requests : cmd(q)' = c /\ Accounted(q)'
    <3>1. \A q \in Requests : cmd(q)' = cmd(q)
      BY <2>3, EnvelopeStable DEF cmd
    <3>2. CASE c \notin consumed
      <4>1. c = cmd(r) /\ consumed' # consumed
        BY <2>3, <3>2, StepTables
      <4> QED
        BY <2>3, <3>1, <4>1, StepAccounts
    <3>3. CASE c \in consumed
      <4>1. PICK q \in Requests : Witness(q)
        BY <2>1, <3>3
      <4>2. CASE q = r
        BY <2>3, <3>1, <4>1, <4>2, StepAccounts
      <4>3. CASE q # r
        BY <2>3, <3>1, <4>1, <4>3, StepOthers, StepTables DEF Accounted
      <4> QED
        BY <4>2, <4>3
    <3> QED
      BY <3>2, <3>3
  <2>4. CASE LoseMemory
    <3>1. UNCHANGED <<consumed, applied, env>>
      BY <2>4 DEF LoseMemory, db, history
    <3>2. \A q \in Requests :
            (pc'[q] = "done" /\ outcome'[q] = "lost") \/ (pc'[q] = pc[q] /\ outcome'[q] = outcome[q])
      <4>1. /\ pc' = [q \in Requests |-> IF InFlight(q) THEN "done" ELSE pc[q]]
            /\ outcome' = [q \in Requests |-> IF InFlight(q) THEN "lost" ELSE outcome[q]]
        BY <2>4 DEF LoseMemory
      <4> QED
        BY <4>1
    <3>3. PICK q \in Requests : Witness(q)
      BY <2>1, <3>1
    <3> QED
      BY <3>1, <3>2, <3>3 DEF Accounted, cmd
  <2>5. CASE UNCHANGED vars \/ Elsewhere
    <3>1. UNCHANGED <<consumed, applied, env, pc, outcome>>
      BY <2>5 DEF vars, db, process, history, Elsewhere
    <3>2. PICK q \in Requests : Witness(q)
      BY <2>1, <3>1
    <3> QED
      BY <3>1, <3>2 DEF Accounted, cmd
  <2> QED
    BY <2>2, <2>3, <2>4, <2>5 DEF SharedNext
<1> QED
  BY <1>1, <1>2, OnceInvariant, PTL DEF SharedSpec

\* A content recorded as consumed was applied, is on its way, or ended in an
\* error, a dead letter or a crash.
THEOREM NoSilentLossHolds == Spec => []NoSilentLoss
BY LossInvariant, PipelineIsShared, PTL

----------------------------------------------------------------------------
(* Decisions of one claim *)

Settles(r) == cmd(r).type = "claim.settlement.approve"

\* The row s of a claim shows that p decided it.
Follows(s, p) ==
  /\ s.statut \in {"regle", "refuse"}
  /\ Settles(p) => s.statut = "regle" \/ Undone(p)

\* SerialDecisions is not inductive: it rests on the status of a decided claim,
\* as it is and as a later request has read it.
SerialInv ==
  /\ \A q \in Requests : \A p \in before[q] : pc[p] = "done"
  /\ \A p \in applied : IsClaimCommand(cmd(p)) => Follows(sinistres[cmd(p).claim_id], p)
  /\ \A q \in Requests : \A p \in before[q] \cap applied :
       IsClaimCommand(cmd(p)) /\ IsClaimCommand(cmd(q)) /\ cmd(p).claim_id = cmd(q).claim_id =>
         /\ pc[q] = "policy" => \A s \in seen[q].sinistre : Follows(s, p)
         /\ pc[q] \in Allowed \/ q \in applied =>
              ~Settles(q) /\ (Settles(p) => Undone(p))

\* A request takes no step before it arrives and none after it was answered.
LEMMA StepActive ==
  ASSUME TypeOK, NEW r \in Requests, Step(r)
  PROVE  pc[r] \in Stage \ {"idle", "done"}
  BY DEF TypeOK, Step, Precheck, GetKillSwitch, FindSinistre, EvaluatePolicy, MarkConsumed,
         OpenApprobation, AppendAudit, ApplyEffect, DecideApprobation, PostMessage,
         AuditExecuted, AuditRefusal, DeadLetter, CallFails, AckLost, FallibleStages

\* A settlement that was undone stays undone, and a row that shows a decision
\* goes on showing it.
LEMMA UndoneStays ==
  ASSUME TypeOK, applied \subseteq applied', NEW p \in applied,
         \A q \in applied : before'[q] = before[q] /\ cmd(q)' = cmd(q)
  PROVE  /\ Undone(p) => Undone(p)'
         /\ \A s : Follows(s, p) => Follows(s, p)'
<1>1. cmd(p)' = cmd(p)
  OBVIOUS
<1>2. Undone(p) => Undone(p)'
  BY <1>1 DEF Undone
<1> QED
  BY <1>1, <1>2 DEF Follows, Settles

\* What the policy lets through after the claim was decided is a refusal, and
\* the decision was one or was undone.
LEMMA LaterIsRefusal ==
  ASSUME TypeOK, NEW q \in Requests, NEW p, NEW ctx, Evaluate(cmd(q), ctx, role(q)),
         IsClaimCommand(cmd(q)), \A s \in ctx.sinistre : Follows(s, p)
  PROVE  ~Settles(q) /\ (Settles(p) => Undone(p))
<1>1. cmd(q).type # "claim.settlement.approve"
  <2> SUFFICES ASSUME cmd(q).type = "claim.settlement.approve"
               PROVE  FALSE
    OBVIOUS
  <2>1. \E s \in ctx.sinistre : s.statut \in {"ouvert", "en_traitement"}
    BY DEF Evaluate, EvaluateClaimApprove
  <2> QED
    BY <2>1 DEF Follows
<1>2. \E s \in ctx.sinistre : s.statut \notin {"regle", "cloture"}
  BY <1>1 DEF Evaluate, EvaluateClaimReject, IsClaimCommand
<1> QED
  BY <1>1, <1>2 DEF Follows, Settles

\* The status of every decided claim shows the decisions after an effect.
LEMMA EffectShows ==
  ASSUME TypeOK, OnceInv, VettedInv, SerialInv, NEW r \in Requests, Step(r),
         pc[r] = "effect", CommitEffect(r), NEW p \in applied', IsClaimCommand(cmd(p)),
         NEW s, s = sinistres'[cmd(p).claim_id]
  PROVE  Follows(s, p)'
<1> DEFINE k == cmd(p).claim_id
<1>1. \A q \in Requests : cmd(q)' = cmd(q)
  BY EnvelopeStable DEF cmd
<1>2. applied' = applied \cup {r} /\ before' = before
  BY StepCommits DEF CommitEffect
<1>3. p \in Requests /\ r \notin applied
  BY <1>2 DEF TypeOK, OnceInv, FallibleStages
<1>4. k \in Claims /\ (IsClaimCommand(cmd(r)) => cmd(r).claim_id \in Claims)
  BY <1>2, <1>3 DEF VettedInv, Vetted, Allowed
<1>5. \A x \in Claims : sinistres[x] \in SinistreRow
  BY DEF TypeOK
<1>6. applied \subseteq Requests /\ p \in Requests
  BY <1>2 DEF TypeOK
<1>7. p \in applied => (Undone(p) => Undone(p)') /\ \A x : Follows(x, p) => Follows(x, p)'
  BY <1>1, <1>2, <1>6, UndoneStays
<1>8. cmd(p)' = cmd(p) /\ cmd(r)' = cmd(r)
  BY <1>1, <1>3
<1>9. CASE SettleClaimEffect(r) /\ cmd(r).claim_id = k
  <2>1. IsClaimCommand(cmd(r))
    BY <1>9 DEF SettleClaimEffect, IsClaimCommand
  <2>2. sinistres \in [Claims -> SinistreRow] /\ sinistres[k] \in SinistreRow
    BY <1>4, <1>5 DEF TypeOK
  <2>3. sinistres' = [sinistres EXCEPT ![k].statut = "regle"]
    BY <1>9 DEF SettleClaimEffect
  <2>4. s.statut = "regle"
    <3> HIDE DEF k
    <3>1. s = [sinistres[k] EXCEPT !.statut = "regle"]
      BY <1>4, <2>2, <2>3 DEF k
    <3> QED
      BY <2>2, <3>1 DEF SinistreRow
  <2> QED
    BY <2>4 DEF Follows
<1>10. CASE RejectClaimEffect(r) /\ cmd(r).claim_id = k
  <2>1. cmd(r).type = "claim.settlement.reject"
    BY <1>10 DEF RejectClaimEffect
  <2>2. sinistres \in [Claims -> SinistreRow] /\ sinistres[k] \in SinistreRow
    BY <1>4, <1>5 DEF TypeOK
  <2>3. sinistres' = [sinistres EXCEPT ![k].statut = "refuse"]
    BY <1>10 DEF RejectClaimEffect
  <2>4. s.statut = "refuse"
    <3> HIDE DEF k
    <3>1. s = [sinistres[k] EXCEPT !.statut = "refuse"]
      BY <1>4, <2>2, <2>3 DEF k
    <3> QED
      BY <2>2, <3>1 DEF SinistreRow
  <2>5. ASSUME Settles(p)
        PROVE  Undone(p)'
    <3>1. p \in applied
      BY <1>2, <2>1, <2>5 DEF Settles
    <3>2. CASE p \in before[r]
      <4>1. IsClaimCommand(cmd(r))
        BY <2>1 DEF IsClaimCommand
      <4>2. pc[r] \in Allowed
        BY DEF Allowed
      <4>3. Undone(p)
        BY <1>10, <2>5, <3>1, <3>2, <4>1, <4>2 DEF SerialInv
      <4> QED
        BY <1>7, <3>1, <4>3
    <3>3. CASE p \notin before[r]
      BY <1>2, <1>8, <1>10, <2>1, <3>3 DEF Undone
    <3> QED
      BY <3>2, <3>3
  <2>6. Settles(p)' <=> Settles(p)
    BY <1>8 DEF Settles
  <2> QED
    BY <2>4, <2>5, <2>6 DEF Follows
<1>11. CASE p \in applied /\ s = sinistres[k]
  <2>1. Follows(s, p)
    BY <1>11 DEF SerialInv
  <2> QED
    BY <1>7, <1>11, <2>1
<1>12. p \in applied \/ (IsClaimCommand(cmd(r)) /\ cmd(r).claim_id = k)
  BY <1>2
<1>13. \/ SettleClaimEffect(r) \/ RejectClaimEffect(r)
       \/ ~IsClaimCommand(cmd(r)) /\ sinistres' = sinistres
  BY DEF CommitEffect, KillSwitchEffect, PricingExceptionEffect, ReportEffect, IsClaimCommand
<1>14. cmd(r).claim_id # k => s = sinistres[k]
  <2> HIDE DEF k
  <2>1. s = sinistres'[k]
    BY DEF k
  <2> QED
    BY <1>4, <1>13, <2>1 DEF SettleClaimEffect, RejectClaimEffect, TypeOK, IsClaimCommand
<1> QED
  BY <1>9, <1>10, <1>11, <1>12, <1>13, <1>14

\* A step keeps the order of the decisions.
LEMMA SerialStep ==
  ASSUME TypeOK, OnceInv, VettedInv, SerialInv, NEW r \in Requests, Step(r)
  PROVE  SerialInv'
<1>1. \A q \in Requests : cmd(q)' = cmd(q)
  BY EnvelopeStable DEF cmd
<1>2. before' = before
  BY StepCommits
<1>3. applied \subseteq applied' /\ \A q \in applied' : q \in applied \/ (q = r /\ pc[r] = "effect")
  BY StepTables
<1>4. \A q \in Requests \ {r} : pc'[q] = pc[q] /\ seen'[q] = seen[q]
  BY StepOthers
<1>5. applied \subseteq Requests /\ applied' \subseteq Requests /\ \A q \in Requests : before[q] \subseteq Requests
  BY <1>3 DEF TypeOK
<1>6. \A p \in applied : (Undone(p) => Undone(p)') /\ \A s : Follows(s, p) => Follows(s, p)'
  BY <1>1, <1>2, <1>3, <1>5, UndoneStays
<1>7. ASSUME NEW q \in Requests, NEW p \in before'[q]
      PROVE  pc'[p] = "done" /\ p # r
  BY <1>2, <1>4, <1>5, <1>7, StepActive DEF SerialInv
<1>8. ASSUME NEW p \in applied', IsClaimCommand(cmd(p)),
             NEW s, s = sinistres'[cmd(p).claim_id]
      PROVE  Follows(s, p)'
  <2>1. CASE pc[r] = "effect" /\ CommitEffect(r)
    BY <1>8, <2>1, EffectShows
  <2>2. CASE UNCHANGED <<sinistres, applied>>
    <3>1. p \in applied /\ Follows(s, p)
      BY <1>8, <2>2 DEF SerialInv
    <3> QED
      BY <1>6, <3>1
  <2> QED
    BY <2>1, <2>2, StepCommits
<1>9. ASSUME NEW q \in Requests, NEW p \in before'[q] \cap applied',
             IsClaimCommand(cmd(p)), IsClaimCommand(cmd(q)), cmd(p).claim_id = cmd(q).claim_id
      PROVE  /\ pc'[q] = "policy" => \A s \in seen'[q].sinistre : Follows(s, p)'
             /\ pc'[q] \in Allowed \/ q \in applied' =>
                  ~Settles(q) /\ (Settles(p) => Undone(p)')
  <2>1. p \in before[q] \cap applied
    BY <1>2, <1>3, <1>7, <1>9
  <2>2. /\ pc[q] = "policy" => \A s \in seen[q].sinistre : Follows(s, p)
        /\ pc[q] \in Allowed \/ q \in applied => ~Settles(q) /\ (Settles(p) => Undone(p))
    BY <1>9, <2>1 DEF SerialInv
  <2>3. CASE q # r
    BY <1>3, <1>4, <1>6, <2>1, <2>2, <2>3
  <2>4. CASE q = r
    <3>1. ASSUME pc'[r] = "policy", NEW s \in seen'[r].sinistre
          PROVE  Follows(s, p)'
      <4>1. s \in SinistreOf(cmd(r))
        BY <3>1, StepVets
      <4>2. s = sinistres[cmd(p).claim_id]
        BY <1>9, <2>4, <4>1 DEF SinistreOf
      <4>3. Follows(s, p)
        BY <1>9, <2>1, <4>2 DEF SerialInv
      <4> QED
        BY <1>6, <2>1, <4>3
    <3>2. ASSUME pc'[r] \in Allowed \/ r \in applied'
          PROVE  ~Settles(r) /\ (Settles(p) => Undone(p)')
      <4>1. CASE pc[r] \in Allowed \/ r \in applied
        BY <1>6, <2>1, <2>2, <2>4, <4>1
      <4>2. CASE pc[r] \notin Allowed /\ r \notin applied
        <5> DEFINE ctx == [actif |-> seen[r].actif, sinistre |-> seen[r].sinistre,
                           commandConsumed |-> cmd(r) \in consumed]
        <5>1. pc[r] = "policy" /\ Evaluate(cmd(r), ctx, role(r))
          BY <1>3, <3>2, <4>2, StepVets DEF Allowed
        <5>2. ctx.sinistre = seen[r].sinistre
          OBVIOUS
        <5> HIDE DEF ctx
        <5>3. ~Settles(r) /\ (Settles(p) => Undone(p))
          BY <1>9, <2>2, <2>4, <5>1, <5>2, LaterIsRefusal
        <5> QED
          BY <1>6, <2>1, <5>3
      <4> QED
        BY <4>1, <4>2
    <3> QED
      BY <2>4, <3>1, <3>2
  <2> QED
    BY <2>3, <2>4
<1>10. \A q \in Requests : Settles(q)' <=> Settles(q)
  BY <1>1 DEF Settles
<1>11. \A q \in Requests : \A p \in before'[q] : p \in Requests
  BY <1>2, <1>5
<1>12. ASSUME NEW p \in applied', IsClaimCommand(cmd(p)')
       PROVE  Follows(sinistres[cmd(p).claim_id], p)'
  <2>1. cmd(p)' = cmd(p) /\ IsClaimCommand(cmd(p))
    BY <1>1, <1>5, <1>12
  <2>2. PICK s : s = sinistres'[cmd(p).claim_id]
    OBVIOUS
  <2>3. Follows(s, p)'
    BY <1>8, <2>1, <2>2
  <2> QED
    BY <2>1, <2>2, <2>3 DEF Follows
<1>13. \A q \in Requests : \A p \in before'[q] \cap applied' :
         IsClaimCommand(cmd(p)') /\ IsClaimCommand(cmd(q)') /\ cmd(p)'.claim_id = cmd(q)'.claim_id =>
           /\ pc'[q] = "policy" => \A s \in seen'[q].sinistre : Follows(s, p)'
           /\ pc'[q] \in Allowed \/ q \in applied' =>
                ~Settles(q)' /\ (Settles(p)' => Undone(p)')
  BY <1>1, <1>9, <1>10, <1>11
<1>14. \A p \in applied' : IsClaimCommand(cmd(p)') => Follows(sinistres[cmd(p).claim_id], p)'
  BY <1>12
<1>15. \A q \in Requests : \A p \in before'[q] : pc'[p] = "done"
  BY <1>7
<1> QED
  BY <1>13, <1>14, <1>15 DEF SerialInv, IsClaimCommand, Allowed

\* The order of the decisions holds in every reachable state.
LEMMA SerialInvariant == SharedSpec => []SerialInv
<1>1. Init => SerialInv
  BY DEF Init, SerialInv
<1>2. TypeOK /\ OnceInv /\ VettedInv /\ SerialInv /\ [SharedNext]_vars => SerialInv'
  <2> SUFFICES ASSUME TypeOK, OnceInv, VettedInv, SerialInv, [SharedNext]_vars
               PROVE  SerialInv'
    OBVIOUS
  <2>1. applied \subseteq Requests /\ \A q \in Requests : before[q] \subseteq Requests
    BY DEF TypeOK
  <2>2. ASSUME NEW r \in Requests, NEW e \in Envelope, Receive(r, e)
        PROVE  SerialInv'
    <3>1. /\ r \notin applied /\ pc[r] = "idle" /\ UNCHANGED <<sinistres, applied, seen>>
          /\ pc'[r] \in {"precheck", "refuse"}
          /\ before'[r] = {q \in Requests : pc[q] = "done"}
      BY <2>2 DEF Receive, Goto, Refuse, TypeOK, OnceInv, FallibleStages, db
    <3>2. \A q \in Requests \ {r} : pc'[q] = pc[q] /\ cmd(q)' = cmd(q) /\ before'[q] = before[q]
      BY <2>2 DEF Receive, Goto, Refuse, TypeOK, cmd
    <3>3. \A p \in applied : (Undone(p) => Undone(p)') /\ \A s : Follows(s, p) => Follows(s, p)'
      BY <2>1, <3>1, <3>2, UndoneStays
    <3>4. ASSUME NEW q \in Requests, NEW p \in before'[q]
          PROVE  pc'[p] = "done"
      BY <2>1, <3>1, <3>2, <3>4 DEF SerialInv
    <3>5. \A q \in Requests \ {r} : Settles(q)' <=> Settles(q)
      BY <3>2 DEF Settles
    <3>6. \A p \in applied' : IsClaimCommand(cmd(p))' =>
            Follows(sinistres[cmd(p).claim_id], p)'
      BY <2>1, <3>1, <3>2, <3>3 DEF SerialInv, IsClaimCommand
    <3>7. ASSUME NEW q \in Requests, NEW p \in before'[q] \cap applied',
                 IsClaimCommand(cmd(p))', IsClaimCommand(cmd(q))',
                 cmd(p).claim_id' = cmd(q).claim_id'
          PROVE  /\ pc'[q] = "policy" => \A s \in seen'[q].sinistre : Follows(s, p)'
                 /\ pc'[q] \in Allowed \/ q \in applied' =>
                      ~Settles(q)' /\ (Settles(p)' => Undone(p)')
      <4>1. CASE q = r
        BY <3>1, <4>1 DEF Allowed
      <4>2. CASE q # r
        <5>1. p \in before[q] \cap applied /\ p # r /\ p \in Requests
          BY <2>1, <3>1, <3>2, <3>7, <4>2
        <5>2. cmd(p)' = cmd(p) /\ cmd(q)' = cmd(q) /\ pc'[q] = pc[q] /\ seen' = seen
          BY <3>1, <3>2, <4>2, <5>1
        <5>3. IsClaimCommand(cmd(p)) /\ IsClaimCommand(cmd(q)) /\ cmd(p).claim_id = cmd(q).claim_id
          BY <3>7, <5>2 DEF IsClaimCommand
        <5>4. /\ pc[q] = "policy" => \A s \in seen[q].sinistre : Follows(s, p)
              /\ pc[q] \in Allowed \/ q \in applied => ~Settles(q) /\ (Settles(p) => Undone(p))
          BY <5>1, <5>3 DEF SerialInv
        <5> QED
          BY <3>1, <3>3, <3>5, <4>2, <5>1, <5>2, <5>4
      <4> QED
        BY <4>1, <4>2
    <3> QED
      BY <3>1, <3>4, <3>6, <3>7 DEF SerialInv
  <2>3. ASSUME NEW r \in Requests, Step(r)
        PROVE  SerialInv'
    BY <2>3, SerialStep
  <2>4. CASE LoseMemory \/ UNCHANGED vars \/ Elsewhere
    <3>1. UNCHANGED <<sinistres, applied, seen, before, env>>
      BY <2>4 DEF LoseMemory, vars, db, process, history, Elsewhere
    <3>2. \A q \in Requests : pc'[q] \in {pc[q], "done"}
      BY <2>4 DEF LoseMemory, vars, process, Elsewhere, TypeOK
    <3>3. \A q \in Requests : cmd(q)' = cmd(q) /\ (Settles(q)' <=> Settles(q))
      BY <3>1 DEF cmd, Settles
    <3>4. \A p \in applied : (Undone(p) => Undone(p)') /\ \A s : Follows(s, p) => Follows(s, p)'
      BY <2>1, <3>1, <3>3, UndoneStays
    <3> QED
      BY <2>1, <3>1, <3>2, <3>3, <3>4 DEF SerialInv, Allowed
  <2> QED
    BY <2>2, <2>3, <2>4 DEF SharedNext
<1> QED
  BY <1>1, <1>2, OnceInvariant, VettedInvariant, PTL DEF SharedSpec

\* What a request decides after another was answered is a refusal, of a claim
\* that was refused or whose settlement was undone.
LEMMA SerialFacts ==
  ASSUME TypeOK, SerialInv
  PROVE  SerialDecisions
<1>1. \A q \in applied : q \in Requests
  BY DEF TypeOK
<1> QED
  BY <1>1 DEF SerialInv, SerialDecisions, Settles, IsClaimCommand

\* Only overlapping requests, and those in their wake, decide a claim twice.
THEOREM SerialDecisionsHolds == Spec => []SerialDecisions
BY SerialFacts, SerialInvariant, TypeCorrect, PipelineIsShared, PTL

----------------------------------------------------------------------------
(* Refused claims *)

\* What was applied stays applied, with the message it carries.
LEMMA AppliedStays ==
  ASSUME TypeOK, OnceInv, [SharedNext]_vars
  PROVE  applied \subseteq applied' /\ \A q \in applied : cmd(q)' = cmd(q) /\ corr(q)' = corr(q)
<1>1. ASSUME NEW r \in Requests, NEW e \in Envelope, Receive(r, e)
      PROVE  applied' = applied /\ \A q \in applied : cmd(q)' = cmd(q) /\ corr(q)' = corr(q)
  <2>1. r \notin applied /\ applied' = applied
    BY <1>1 DEF Receive, OnceInv
  <2> QED
    BY <1>1, <2>1 DEF Receive, TypeOK, cmd, corr
<1>2. ASSUME NEW r \in Requests, Step(r)
      PROVE  applied \subseteq applied' /\ \A q \in applied : cmd(q)' = cmd(q) /\ corr(q)' = corr(q)
  BY <1>2, StepTables, EnvelopeStable DEF cmd, corr
<1>3. LoseMemory \/ Elsewhere \/ UNCHANGED vars => UNCHANGED <<applied, env>>
  BY DEF LoseMemory, Elsewhere, vars, process, history
<1> QED
  BY <1>1, <1>2, <1>3 DEF SharedNext, cmd, corr

\* A claim that became 'refuse' was refused by a command.
RefusedInv ==
  \A k \in Claims : sinistres[k].statut = "refuse" /\ Portfolio[k].statut # "refuse" =>
    \E q \in applied : cmd(q).type = "claim.settlement.reject" /\ cmd(q).claim_id = k

\* Only the effect of a refusal refuses a claim.
LEMMA RefusedInvariant == SharedSpec => []RefusedInv
<1>1. Init => RefusedInv
  BY DEF Init, RefusedInv
<1>2. TypeOK /\ OnceInv /\ RefusedInv /\ [SharedNext]_vars => RefusedInv'
  <2> SUFFICES ASSUME TypeOK, OnceInv, RefusedInv, [SharedNext]_vars, NEW k \in Claims,
                      sinistres'[k].statut = "refuse", Portfolio[k].statut # "refuse"
               PROVE  \E q \in applied' :
                        cmd(q).type' = "claim.settlement.reject" /\ cmd(q).claim_id' = k
    BY DEF RefusedInv
  <2>1. CASE sinistres[k].statut = "refuse"
    BY <2>1, AppliedStays DEF RefusedInv
  <2>2. CASE sinistres'[k].statut # sinistres[k].statut
    <3>1. PICK r \in Requests : Step(r)
      BY <2>2 DEF SharedNext, Receive, LoseMemory, Elsewhere, vars, db
    <3>2. CommitEffect(r) /\ env' = env
      BY <2>2, <3>1, StepCommits, EnvelopeStable
    <3>3. sinistres \in [Claims -> SinistreRow]
      BY DEF TypeOK
    <3>4. ASSUME NEW x \in {"regle", "refuse"},
                 sinistres' = [sinistres EXCEPT ![cmd(r).claim_id].statut = x]
          PROVE  x = "refuse" /\ cmd(r).claim_id = k
      <4>1. cmd(r).claim_id = k
        BY <2>2, <3>3, <3>4
      <4>2. sinistres'[k] = [sinistres[k] EXCEPT !.statut = x] /\ sinistres[k] \in SinistreRow
        BY <3>3, <3>4, <4>1
      <4>3. sinistres'[k].statut = x
        BY <4>2 DEF SinistreRow
      <4> QED
        BY <4>1, <4>3
    <3>5. RejectClaimEffect(r) /\ cmd(r).claim_id = k
      BY <2>2, <3>2, <3>4 DEF CommitEffect, SettleClaimEffect, RejectClaimEffect, KillSwitchEffect,
         PricingExceptionEffect, ReportEffect
    <3>6. r \in applied' /\ cmd(r)' = cmd(r)
      BY <3>2 DEF CommitEffect, cmd
    <3> QED
      BY <3>5, <3>6 DEF RejectClaimEffect
  <2> QED
    BY <2>1, <2>2
<1> QED
  BY <1>1, <1>2, OnceInvariant, PTL DEF SharedSpec

----------------------------------------------------------------------------
(* Ledger entries *)

\* The entry of a settlement.
Entry(r) ==
  [correlation_id |-> corr(r), claim_id |-> cmd(r).claim_id, montant |-> SettlementAmount(cmd(r))]

\* Every settlement that was applied has its entry.
EntryInv ==
  \A r \in applied : cmd(r).type = "claim.settlement.approve" =>
    \E i \in DOMAIN ledger : ledger[i] = Entry(r)

\* An entry, once in the ledger, stays where it is.
LEMMA LedgerGrows ==
  ASSUME TypeOK, [SharedNext]_vars
  PROVE  \A i \in DOMAIN ledger : i \in DOMAIN ledger' /\ ledger'[i] = ledger[i]
<1>1. ASSUME NEW r \in Requests, Step(r), ledger' # ledger
      PROVE  ledger' = Append(ledger, Entry(r))
  <2>1. CommitEffect(r)
    BY <1>1, StepCommits
  <2> QED
    BY <1>1, <2>1 DEF CommitEffect, SettleClaimEffect, RejectClaimEffect, KillSwitchEffect,
       PricingExceptionEffect, ReportEffect, Entry
<1>2. PICK row : ledger' = ledger \/ ledger' = Append(ledger, row)
  BY <1>1 DEF SharedNext, Receive, LoseMemory, Elsewhere, vars, db
<1>3. ledger \in Seq(LedgerRow)
  BY DEF TypeOK
<1> QED
  BY <1>2, <1>3

\* Only the transaction that inserts the entry applies a settlement.
LEMMA EntryInvariant == SharedSpec => []EntryInv
<1>1. Init => EntryInv
  BY DEF Init, EntryInv
<1>2. TypeOK /\ OnceInv /\ EntryInv /\ [SharedNext]_vars => EntryInv'
  <2> SUFFICES ASSUME TypeOK, OnceInv, EntryInv, [SharedNext]_vars, NEW q \in applied',
                      cmd(q).type' = "claim.settlement.approve"
               PROVE  \E i \in DOMAIN ledger' : ledger'[i] = Entry(q)'
    BY DEF EntryInv
  <2>1. CASE q \in applied
    <3>1. cmd(q)' = cmd(q) /\ corr(q)' = corr(q)
      BY <2>1, AppliedStays
    <3>2. Entry(q)' = Entry(q) /\ cmd(q).type = "claim.settlement.approve"
      BY <3>1 DEF Entry, SettlementAmount
    <3> QED
      BY <2>1, <3>2, LedgerGrows DEF EntryInv
  <2>2. CASE q \notin applied
    <3>1. PICK r \in Requests : Step(r)
      BY <2>2 DEF SharedNext, Receive, LoseMemory, Elsewhere, vars, history
    <3>2. CommitEffect(r) /\ env' = env
      BY <2>2, <3>1, StepCommits, EnvelopeStable
    <3>3. q = r /\ cmd(r)' = cmd(r) /\ corr(r)' = corr(r)
      BY <2>2, <3>2 DEF CommitEffect, cmd, corr
    <3>4. Entry(q)' = Entry(r)
      BY <3>3 DEF Entry, SettlementAmount
    <3>5. SettleClaimEffect(r)
      BY <3>2, <3>3 DEF CommitEffect, RejectClaimEffect, KillSwitchEffect,
         PricingExceptionEffect, ReportEffect
    <3>6. ledger' = Append(ledger, Entry(r)) /\ ledger \in Seq(LedgerRow)
      BY <3>5 DEF SettleClaimEffect, Entry, TypeOK
    <3>7. Len(ledger) + 1 \in DOMAIN ledger' /\ ledger'[Len(ledger) + 1] = Entry(r)
      BY <3>6
    <3> QED
      BY <3>4, <3>7
  <2> QED
    BY <2>1, <2>2
<1> QED
  BY <1>1, <1>2, OnceInvariant, PTL DEF SharedSpec

=============================================================================
