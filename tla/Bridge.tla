------------------------------- MODULE Bridge -------------------------------
(***************************************************************************)
(* The HTTP handlers of buzz-hermes-bridge (http/server.ts) that change    *)
(* state, composed with the pipeline they call.                            *)
(*                                                                         *)
(* A handler answers at once, awaits a database call of its own, or enters *)
(* the pipeline and answers with its result.  The code between a database  *)
(* call and the next await is a step of its own when it enters the         *)
(* pipeline, so that the commit and the continuation are two instants.     *)
(* The GET routes change nothing and are left out.                         *)
(***************************************************************************)
EXTENDS Pipeline

CONSTANTS
  Bodies,                 \* the HTTP requests that may arrive
  DecisionNonces,         \* nonces of the commands the bridge builds itself
  RequireSignedCommands   \* cfg.requireSignedCommands

\* author: the declared key, or the key of the event when one is attached.
\* content: the command; for "approvals" the settlement asked for; for
\* "killswitch" the command the handler builds.  flag: approve, or active.
Body ==
  [route : {"commands", "approvals", "decide", "killswitch"}, content : Contents,
   author : Pubkeys, event : {"none", "valid", "invalid"}, correlation : Correlations,
   flag : BOOLEAN]

ASSUME BodiesAssumption == Bodies \subseteq Body /\ Bodies # {}
\* The bridge can build a settlement for every settlement it may be asked for.
ASSUME DecisionsAssumption ==
  \A c \in Contents : c.type = "claim.settlement.approve" =>
    \A n \in DecisionNonces : [c EXCEPT !.nonce = n] \in Contents
ASSUME ApprovalsAssumption ==
  \A b \in Bodies : b.route = "approvals" => b.content.type = "claim.settlement.approve"
ASSUME SwitchAssumption == RequireSignedCommands \in BOOLEAN

VARIABLES
  request,  \* the HTTP request each handler serves
  at,       \* what its handler is doing
  status    \* the status it answered: 0 none yet, -1 connection lost

http == <<request, at, status>>
bridgeVars == <<vars, http>>

HandlerStage ==
  {"idle", "create", "decide", "execute", "switch", "record", "pipeline", "done"}

Serving(r) == at[r] \notin {"idle", "done"}

BridgeInit ==
  /\ Init
  /\ request = [r \in Requests |-> CHOOSE b \in Bodies : TRUE]
  /\ at = [r \in Requests |-> "idle"]
  /\ status = [r \in Requests |-> 0]

Reply(r, s) ==
  /\ at' = [at EXCEPT ![r] = "done"]
  /\ status' = [status EXCEPT ![r] = s]

Await(r, stage) == at' = [at EXCEPT ![r] = stage] /\ UNCHANGED status

\* processInboundCommand with the content, author and correlation of b
EnterPipeline(r, b, signed) ==
  /\ Receive(r, [content |-> b.content, author |-> b.author, signed |-> signed,
                 correlation |-> b.correlation])
  /\ Await(r, "pipeline")

----------------------------------------------------------------------------
(* Arrival: the checks before the first await *)

CommandStatus(b) ==
  IF ~ValidateCommand(b.content) THEN 400
  ELSE IF b.event = "invalid" THEN 401
  ELSE IF RequireSignedCommands /\ b.event = "none" /\ RequiresCeo(b.content.type) THEN 401
  ELSE 200

PostCommand(r, b) ==
  /\ at[r] = "idle" /\ b.route = "commands"
  /\ request' = [request EXCEPT ![r] = b]
  /\ IF CommandStatus(b) = 200 THEN EnterPipeline(r, b, b.event = "valid")
     ELSE Reply(r, CommandStatus(b)) /\ UNCHANGED vars

\* A requester must be a known key; a signature is not asked for.  The amount
\* has no maximum here: an approval above it can be given, never executed.
PostApproval(r, b) ==
  /\ at[r] = "idle" /\ b.route = "approvals"
  /\ request' = [request EXCEPT ![r] = b]
  /\ IF b.content.amount = 0 THEN Reply(r, 400)
     ELSE IF b.author \in CeoPubkeys \cup AllowedUnsigned THEN Await(r, "create")
     ELSE Reply(r, 403)
  /\ UNCHANGED vars

\* A decider must be a CEO key, declared or of a verified event.
PostDecision(r, b) ==
  /\ at[r] = "idle" /\ b.route = "decide"
  /\ request' = [request EXCEPT ![r] = b]
  /\ IF b.event = "invalid" THEN Reply(r, 401)
     ELSE IF b.author \in CeoPubkeys THEN Await(r, "decide")
     ELSE Reply(r, 403)
  /\ UNCHANGED vars

\* The decider too; the body has no place for an event.
PostKillswitch(r, b) ==
  /\ at[r] = "idle" /\ b.route = "killswitch"
  /\ request' = [request EXCEPT ![r] = b]
  /\ IF b.author \in CeoPubkeys THEN Await(r, "switch") ELSE Reply(r, 403)
  /\ UNCHANGED vars

----------------------------------------------------------------------------
(* The database calls of the handlers and what follows them *)

\* Mutant: a status the CHECK of the table does not know.
InsertRequestedWrongStatut(b) ==
  approbations' = IF HasApprobation(b.correlation) THEN approbations
    ELSE approbations \cup
      {[correlation_id |-> b.correlation, type |-> b.content.type,
        claim_id |-> b.content.claim_id, montant_eur |-> b.content.amount,
        statut |-> "demande", decided |-> FALSE]}

\* Mutant: a conflict updates the pending row.
InsertRequestedOverwriting(b) ==
  LET row == [correlation_id |-> b.correlation, type |-> b.content.type,
              claim_id |-> b.content.claim_id, montant_eur |-> b.content.amount,
              statut |-> "en_attente", decided |-> FALSE]
      rows == {a \in approbations : a.correlation_id = b.correlation}
  IN approbations' = IF \A a \in rows : a.statut = "en_attente"
                     THEN (approbations \ rows) \cup {row} ELSE approbations

\* INSERT INTO approbations ... ON CONFLICT (correlation_id) DO NOTHING
InsertRequested(b) ==
  approbations' = IF HasApprobation(b.correlation) THEN approbations
    ELSE approbations \cup
      {[correlation_id |-> b.correlation, type |-> b.content.type,
        claim_id |-> b.content.claim_id, montant_eur |-> b.content.amount,
        statut |-> "en_attente", decided |-> FALSE]}

\* Mutant: a failed insertion is swallowed.
CreateApprobationBestEffort(r) ==
  /\ at[r] = "create"
  /\ InsertRequested(request[r]) \/ UNCHANGED approbations
  /\ Reply(r, 200)
  /\ UNCHANGED <<sinistres, actif, consumed, ledger, audit, process, history, request>>

\* 200 also when the correlation id was taken and nothing was inserted.
CreateApprobation(r) ==
  /\ at[r] = "create"
  /\ InsertRequested(request[r])
  /\ Reply(r, 200)
  /\ UNCHANGED <<sinistres, actif, consumed, ledger, audit, process, history, request>>

Undecided(c) == {a \in approbations : a.correlation_id = c /\ a.statut = "en_attente"}

\* The settlement the bridge executes for an approved row; n: its requested_at.
Execution(a, n) ==
  [type |-> "claim.settlement.approve", claim_id |-> a.claim_id,
   amount |-> a.montant_eur, nonce |-> n]

Executable(a) == a.type = "claim.settlement.approve" /\ a.montant_eur # 0

\* So can it for the approvals that were waiting at the start.
ASSUME BacklogExecutable ==
  \A a \in Backlog, n \in DecisionNonces : Executable(a) => Execution(a, n) \in Contents

\* Mutant: the UPDATE does not look at the status of the row.
DecideRowAgain(r) ==
  /\ at[r] = "decide"
  /\ LET b == request[r]
         rows == {a \in approbations : a.correlation_id = b.correlation}
     IN /\ approbations' = (approbations \ rows) \cup
             {[a EXCEPT !.statut = IF b.flag THEN "approuve" ELSE "refuse", !.decided = TRUE] :
                a \in rows}
        /\ \/ rows = {} /\ Reply(r, 409) /\ UNCHANGED request
           \/ \E a \in rows :
                IF b.flag /\ Executable(a)
                THEN /\ Await(r, "execute")
                     /\ \E n \in DecisionNonces :
                          request' = [request EXCEPT ![r].content = Execution(a, n)]
                ELSE Reply(r, 200) /\ UNCHANGED request
  /\ UNCHANGED <<sinistres, actif, consumed, ledger, audit, process, history>>

\* Mutant: an approval that is pending no more is answered like a decision.
DecideRowNeverConflicts(r) ==
  /\ at[r] = "decide"
  /\ LET b == request[r] IN
       /\ approbations' = Decided(b.correlation, b.flag)
       /\ \/ Undecided(b.correlation) = {} /\ Reply(r, 200) /\ UNCHANGED request
          \/ \E a \in Undecided(b.correlation) :
               IF b.flag /\ Executable(a)
               THEN /\ Await(r, "execute")
                    /\ \E n \in DecisionNonces :
                         request' = [request EXCEPT ![r].content = Execution(a, n)]
               ELSE Reply(r, 200) /\ UNCHANGED request
  /\ UNCHANGED <<sinistres, actif, consumed, ledger, audit, process, history>>

\* decideApprobation, and what follows: 409, the answer, or the execution of
\* the approved settlement, which the handler keeps in request[r].content.
DecideRow(r) ==
  /\ at[r] = "decide"
  /\ LET b == request[r] IN
       /\ approbations' = Decided(b.correlation, b.flag)
       /\ \/ Undecided(b.correlation) = {} /\ Reply(r, 409) /\ UNCHANGED request
          \/ \E a \in Undecided(b.correlation) :
               IF b.flag /\ Executable(a)
               THEN /\ Await(r, "execute")
                    /\ \E n \in DecisionNonces :
                         request' = [request EXCEPT ![r].content = Execution(a, n)]
               ELSE Reply(r, 200) /\ UNCHANGED request
  /\ UNCHANGED <<sinistres, actif, consumed, ledger, audit, process, history>>

\* The execution counts as signed by the CEO who decided.
ExecuteDecision(r) ==
  /\ at[r] = "execute"
  /\ EnterPipeline(r, request[r], TRUE)
  /\ UNCHANGED request

SwitchTo(on) ==
  /\ actif' = on
  /\ underLock' = [q \in Requests |-> underLock[q] /\ on]
  /\ UNCHANGED <<applied, before>>

SetKillSwitch(r) ==
  /\ at[r] = "switch"
  /\ SwitchTo(request[r].flag)
  /\ Await(r, "record")
  /\ UNCHANGED <<sinistres, consumed, approbations, ledger, audit, process, request>>

\* Mutant: as a command the CEO signed.
RecordSwitchSigned(r) ==
  /\ at[r] = "record"
  /\ EnterPipeline(r, request[r], TRUE)
  /\ UNCHANGED request

\* The same command goes through the pipeline, unsigned.
RecordSwitch(r) ==
  /\ at[r] = "record"
  /\ EnterPipeline(r, request[r], FALSE)
  /\ UNCHANGED request

\* A database call of a handler fails, with or without having committed: 500.
HandlerFails(r) ==
  /\ \/ at[r] \in {"create", "decide", "switch"} /\ UNCHANGED <<approbations, actif, history>>
     \/ at[r] = "create" /\ InsertRequested(request[r]) /\ UNCHANGED <<actif, history>>
     \/ /\ at[r] = "decide"
        /\ approbations' = Decided(request[r].correlation, request[r].flag)
        /\ UNCHANGED <<actif, history>>
     \/ at[r] = "switch" /\ SwitchTo(request[r].flag) /\ UNCHANGED approbations
  /\ Reply(r, 500)
  /\ UNCHANGED <<sinistres, consumed, ledger, audit, process, request>>

----------------------------------------------------------------------------
PipelineStep(r) == at[r] = "pipeline" /\ Step(r) /\ UNCHANGED http

\* Mutant: only a result is answered, an exception is not.
AnswerResultOnly(r) ==
  /\ at[r] = "pipeline" /\ pc[r] = "done" /\ outcome[r] # "error"
  /\ Reply(r, 200)
  /\ UNCHANGED <<vars, request>>

\* The result of the pipeline, or 500 when it threw a retryable error.
AnswerResult(r) ==
  /\ at[r] = "pipeline" /\ pc[r] = "done"
  /\ Reply(r, IF outcome[r] = "error" THEN 500 ELSE 200)
  /\ UNCHANGED <<vars, request>>

\* The process dies: every connection is lost with it.
BridgeCrash ==
  /\ dlq # {} \/ \E r \in Requests : Serving(r)
  /\ LoseMemory
  /\ at' = [r \in Requests |-> IF Serving(r) THEN "done" ELSE at[r]]
  /\ status' = [r \in Requests |-> IF Serving(r) THEN -1 ELSE status[r]]
  /\ UNCHANGED request

Arrive(r, b) ==
  PostCommand(r, b) \/ PostApproval(r, b) \/ PostDecision(r, b) \/ PostKillswitch(r, b)

Handle(r) ==
  \/ CreateApprobation(r) \/ DecideRow(r) \/ ExecuteDecision(r)
  \/ SetKillSwitch(r) \/ RecordSwitch(r) \/ HandlerFails(r)
  \/ PipelineStep(r) \/ AnswerResult(r)

BridgeNext ==
  \/ \E r \in Requests : (\E b \in Bodies : Arrive(r, b)) \/ Handle(r)
  \/ BridgeCrash

BridgeSpec == BridgeInit /\ [][BridgeNext]_bridgeVars

----------------------------------------------------------------------------
(* Properties *)

\* Types of the handlers' state, on top of the pipeline's.
BridgeTypeOK ==
  /\ TypeOK
  /\ request \in [Requests -> Body] /\ at \in [Requests -> HandlerStage]
  /\ status \in [Requests -> {-1, 0, 200, 400, 401, 403, 409, 500}]

\* The handler has decided the approval of its correlation id and knows it.
Decides(r) ==
  request[r].route = "decide" /\ (at[r] \in {"execute", "pipeline"} \/ status[r] = 200)

\* An approval is decided by one request at most (decideApprobation updates
\* only a pending row): of several concurrent decisions of one correlation id,
\* opposite ones included, at most one goes on and the others get 409 or 500.
OneDecision ==
  \A p, q \in Requests :
    Decides(p) /\ Decides(q) /\ request[p].correlation = request[q].correlation => p = q

\* Above the threshold an applied settlement was sent by a CEO key as a verified
\* event, or it is the one of a recorded approval, claim and amount, that a
\* decision in the name of a CEO key approved.  For a decision the code takes a
\* declared key, without event; DecisionsSigned is what the documents ask for.
LargeClaimNeedsCeo ==
  \A r \in applied :
    /\ cmd(r).type = "claim.settlement.approve"
    /\ Portfolio[cmd(r).claim_id].montant_eur > ThresholdEur
    => /\ request[r].author \in CeoPubkeys
       /\ \/ request[r].route = "commands" /\ request[r].event = "valid"
          \/ /\ request[r].route = "decide" /\ request[r].flag
             /\ \E a \in approbations :
                  /\ a.correlation_id = request[r].correlation /\ a.decided
                  /\ a.claim_id = cmd(r).claim_id /\ a.montant_eur = cmd(r).amount

\* An approval keeps its subject, a refusal stays a refusal, and what was
\* decided never becomes pending again, whichever of the handlers, the
\* pipeline's own approval row, and the effects write the table.
ApprovalsOnlyMoveOn ==
  [][\A a \in approbations : \E b \in approbations' :
       /\ b = [a EXCEPT !.statut = b.statut, !.decided = b.decided]
       /\ a.statut = "refuse" => b.statut = "refuse"
       /\ b.statut = "en_attente" => a.statut = "en_attente"
       /\ a.decided => b.decided]_bridgeVars

\* A request moves the kill-switch once: by the write of POST /killswitch, in
\* the name of a CEO key (declared: see DecisionsSigned), or as a command of the
\* CEO's verified event.  The command that POST /killswitch runs afterwards for
\* the record never undoes what somebody else has set in between.
SwitchMovedOnce ==
  [][actif' # actif =>
       \E r \in Requests :
         /\ request[r].author \in CeoPubkeys
         /\ \/ request[r].route = "killswitch" /\ request[r].flag = actif' /\ at[r] = "switch"
            \/ /\ request[r].route = "commands" /\ request[r].event = "valid"
               /\ r \in applied' \ applied]_bridgeVars

----------------------------------------------------------------------------
(* Statements of the documentation that the code does not keep *)

\* server.ts:116: "In production, /decide and /killswitch require a signed Nostr
\* event".  The event is optional on the one and not in the schema of the other;
\* requireSignedCommands is read by POST /commands only.
DecisionsSigned ==
  RequireSignedCommands =>
    \A r \in Requests :
      request[r].route \in {"decide", "killswitch"} /\ status[r] = 200 =>
        request[r].event = "valid"

\* server.ts:247: "every 'approuve' approval on 'claim.settlement.approve'
\* executes the actual settlement immediately".  The row is decided first;
\* the pipeline may then refuse the settlement, and the answer is ok: true.
ApprovedIsSettled ==
  \A r \in Requests :
    /\ request[r].route = "decide" /\ request[r].flag /\ status[r] = 200
    /\ request[r].content.type = "claim.settlement.approve"
    => r \in applied
=============================================================================
