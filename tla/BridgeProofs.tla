---------------------------- MODULE BridgeProofs ----------------------------
(***************************************************************************)
(* Theorems about Bridge, for every set of requests, bodies, authors,      *)
(* claims, correlation ids and every threshold.                            *)
(*                                                                         *)
(* The handlers only let messages into the pipeline and write approvals    *)
(* and the switch within the bounds of Elsewhere (module PipelineProofs):  *)
(* the bridge implements SharedSpec and keeps all that is proved of it.    *)
(***************************************************************************)
EXTENDS Bridge, PipelineProofs

----------------------------------------------------------------------------
(* Handlers and the requests they serve *)

\* The pipeline runs the command the handler was asked for, in the name of its
\* author, and as a signed one only for a verified event or an approval that a
\* CEO key decided.
Carries(r) ==
  /\ cmd(r) = request[r].content /\ corr(r) = request[r].correlation
  /\ env[r].author = request[r].author
  /\ env[r].signed =>
       \/ request[r].route = "commands" /\ request[r].event = "valid"
       \/ /\ request[r].route = "decide" /\ request[r].flag
          /\ request[r].content.type = "claim.settlement.approve"

\* What a handler has established of its request at each of its stages.
Established(r) ==
  /\ at[r] = "create" =>
       /\ request[r].route = "approvals"
       /\ request[r].content.type = "claim.settlement.approve"
       /\ request[r].content.amount > 0
  /\ at[r] \in {"decide", "execute"} =>
       request[r].route = "decide" /\ request[r].author \in CeoPubkeys
  /\ at[r] = "execute" =>
       request[r].flag /\ request[r].content.type = "claim.settlement.approve"
  /\ at[r] \in {"switch", "record"} =>
       request[r].route = "killswitch" /\ request[r].author \in CeoPubkeys
  /\ at[r] = "pipeline" => request[r].route # "approvals"

Linked(r) ==
  /\ at[r] \notin {"pipeline", "done"} => pc[r] = "idle"
  /\ at[r] = "pipeline" => pc[r] # "idle"
  /\ at[r] # "done" => status[r] = 0
  /\ pc[r] # "idle" => Carries(r)
  /\ Established(r)

\* An approval on a settlement can be executed: it was asked for as one.
RowsExecutable ==
  \A a \in approbations, n \in DecisionNonces : Executable(a) => Execution(a, n) \in Contents

BridgeInv ==
  /\ BridgeTypeOK /\ ControlOK /\ RowsKeyed /\ RowsExecutable
  /\ \A r \in Requests : Linked(r)

\* What a request brings into the pipeline is a message.
LEMMA BodyEnvelope ==
  ASSUME NEW b \in Body, NEW signed \in BOOLEAN
  PROVE  [content |-> b.content, author |-> b.author, signed |-> signed,
          correlation |-> b.correlation] \in Envelope
  BY DEF Body, Envelope

\* The fields of a request.
LEMMA BodyFields ==
  ASSUME NEW b \in Body
  PROVE  /\ b.content \in Contents /\ b.author \in Pubkeys /\ b.correlation \in Correlations
         /\ b.flag \in BOOLEAN /\ b.content.claim_id \in ClaimIds /\ b.content.amount \in Nat
         /\ b.route \in {"commands", "approvals", "decide", "killswitch"}
<1>1. b.content \in Contents
  BY DEF Body
<1> QED
  BY <1>1, ContentType DEF Body

\* An approval that is asked for is inserted, or finds its correlation id taken.
LEMMA RequestedRows ==
  ASSUME TypeOK, RowsKeyed, NEW b \in Body, b.content.type = "claim.settlement.approve",
         InsertRequested(b)
  PROVE  RowsMoveOn /\ RowsKeyed' /\ approbations' \subseteq ApprobationRow
<1> DEFINE row == [correlation_id |-> b.correlation, type |-> b.content.type,
                   claim_id |-> b.content.claim_id, montant_eur |-> b.content.amount,
                   statut |-> "en_attente", decided |-> FALSE]
<1>1. row \in ApprobationRow
  BY BodyFields DEF ApprobationRow, CommandType
<1>2. row.correlation_id = b.correlation
  OBVIOUS
<1>3. \/ UNCHANGED approbations
      \/ approbations' = approbations \cup {row} /\ ~HasApprobation(b.correlation)
  BY DEF InsertRequested
<1> HIDE DEF row
<1>4. CASE UNCHANGED approbations
  BY <1>4, UnchangedRows DEF TypeOK
<1>5. CASE approbations' = approbations \cup {row} /\ ~HasApprobation(b.correlation)
  BY <1>1, <1>2, <1>5, InsertedRow DEF TypeOK
<1> QED
  BY <1>3, <1>4, <1>5

\* A decision only closes pending rows.
LEMMA DecidedRows ==
  ASSUME TypeOK, RowsKeyed, NEW c, NEW approve \in BOOLEAN, approbations' = Decided(c, approve)
  PROVE  RowsMoveOn /\ RowsKeyed' /\ approbations' \subseteq ApprobationRow
<1>1. RowsMoveOn /\ RowsKeyed'
  BY ClosedRows
<1>2. approbations' \subseteq ApprobationRow
  BY DecidedType
<1> QED
  BY <1>1, <1>2

\* Every action of the handlers is an arrival, a step of the pipeline, a write
\* within the bounds of Elsewhere, or nothing.
LEMMA HandlersShare ==
  ASSUME BridgeInv, [BridgeNext]_bridgeVars
  PROVE  [SharedNext]_vars
<1> USE DEF BridgeInv, BridgeTypeOK
<1>1. ASSUME NEW r \in Requests, NEW b \in Body, NEW signed \in BOOLEAN,
             EnterPipeline(r, b, signed)
      PROVE  SharedNext
  BY <1>1, BodyEnvelope DEF EnterPipeline, SharedNext
<1>2. ASSUME NEW r \in Requests, NEW b \in Bodies, Arrive(r, b)
      PROVE  [SharedNext]_vars
  <2>1. b \in Body /\ (b.event = "valid") \in BOOLEAN
    BY BodiesAssumption
  <2>2. CASE PostCommand(r, b)
    <3>1. EnterPipeline(r, b, b.event = "valid") \/ UNCHANGED vars
      BY <2>2 DEF PostCommand
    <3> QED
      BY <1>1, <2>1, <3>1
  <2> QED
    BY <1>2, <2>2 DEF Arrive, PostApproval, PostDecision, PostKillswitch
<1>3. \A r \in Requests : request[r] \in Body
  OBVIOUS
<1>4. ASSUME NEW r \in Requests, ExecuteDecision(r) \/ RecordSwitch(r)
      PROVE  SharedNext
  BY <1>1, <1>3, <1>4 DEF ExecuteDecision, RecordSwitch
<1>5. ASSUME NEW r \in Requests, at[r] = "create", InsertRequested(request[r]),
             UNCHANGED <<sinistres, actif, consumed, ledger, audit, process, history>>
      PROVE  Elsewhere
  <2>1. request[r].content.type = "claim.settlement.approve"
    BY <1>5 DEF Linked, Established
  <2>2. RowsMoveOn /\ RowsKeyed' /\ approbations' \subseteq ApprobationRow
    BY <1>3, <1>5, <2>1, RequestedRows
  <2> QED
    BY <1>5, <2>2 DEF Elsewhere, history
<1>6. ASSUME NEW r \in Requests,
             approbations' = Decided(request[r].correlation, request[r].flag),
             UNCHANGED <<sinistres, actif, consumed, ledger, audit, process, history>>
      PROVE  Elsewhere
  <2>1. request[r].flag \in BOOLEAN
    BY <1>3, BodyFields
  <2>2. RowsMoveOn /\ RowsKeyed' /\ approbations' \subseteq ApprobationRow
    BY <1>6, <2>1, DecidedRows
  <2> QED
    BY <1>6, <2>2 DEF Elsewhere, history
<1>7. ASSUME NEW r \in Requests, SwitchTo(request[r].flag),
             UNCHANGED <<sinistres, consumed, approbations, ledger, audit, process>>
      PROVE  Elsewhere
  <2>1. request[r].flag \in BOOLEAN
    BY <1>3, BodyFields
  <2> QED
    BY <1>7, <2>1 DEF SwitchTo, Elsewhere
<1>8. ASSUME NEW r \in Requests, CreateApprobation(r) \/ DecideRow(r) \/ SetKillSwitch(r)
      PROVE  Elsewhere
  <2>1. CASE CreateApprobation(r)
    BY <1>5, <2>1 DEF CreateApprobation
  <2>2. CASE DecideRow(r)
    BY <1>6, <2>2 DEF DecideRow
  <2>3. CASE SetKillSwitch(r)
    BY <1>7, <2>3 DEF SetKillSwitch
  <2> QED
    BY <1>8, <2>1, <2>2, <2>3
<1>9. ASSUME NEW r \in Requests, HandlerFails(r)
      PROVE  Elsewhere \/ UNCHANGED vars
  <2>0. UNCHANGED <<sinistres, consumed, ledger, audit, process>>
    BY <1>9 DEF HandlerFails
  <2>1. CASE UNCHANGED <<approbations, actif, history>>
    BY <2>0, <2>1 DEF vars, db
  <2>2. CASE at[r] = "create" /\ InsertRequested(request[r]) /\ UNCHANGED <<actif, history>>
    BY <1>5, <2>0, <2>2
  <2>3. CASE /\ approbations' = Decided(request[r].correlation, request[r].flag)
             /\ UNCHANGED <<actif, history>>
    BY <1>6, <2>0, <2>3
  <2>4. CASE SwitchTo(request[r].flag) /\ UNCHANGED approbations
    BY <1>7, <2>0, <2>4
  <2> QED
    BY <1>9, <2>1, <2>2, <2>3, <2>4 DEF HandlerFails
<1>10. ASSUME NEW r \in Requests, PipelineStep(r) \/ AnswerResult(r)
       PROVE  [SharedNext]_vars
  BY <1>10 DEF PipelineStep, AnswerResult, SharedNext
<1>11. ASSUME NEW r \in Requests, Handle(r)
       PROVE  [SharedNext]_vars
  BY <1>4, <1>8, <1>9, <1>10, <1>11 DEF Handle, SharedNext
<1>12. BridgeCrash => SharedNext
  BY DEF BridgeCrash, SharedNext
<1>13. UNCHANGED bridgeVars => UNCHANGED vars
  BY DEF bridgeVars
<1> QED
  BY <1>2, <1>11, <1>12, <1>13 DEF BridgeNext

----------------------------------------------------------------------------
(* What one step does to the requests *)

\* A step of the handlers concerns one request.
Acts(r) == (\E b \in Bodies : Arrive(r, b)) \/ Handle(r)

\* The pipeline takes a message in at the stage before its first call.
LEMMA EntryState ==
  ASSUME BridgeTypeOK, NEW r \in Requests, NEW b, NEW signed, EnterPipeline(r, b, signed)
  PROVE  /\ pc[r] = "idle" /\ pc'[r] \in {"precheck", "refuse"}
         /\ env'[r] = [content |-> b.content, author |-> b.author, signed |-> signed,
                       correlation |-> b.correlation]
         /\ \A q \in Requests \ {r} : pc'[q] = pc[q] /\ env'[q] = env[q]
         /\ approbations' = approbations /\ actif' = actif /\ applied' = applied
         /\ at' = [at EXCEPT ![r] = "pipeline"] /\ status' = status
  BY DEF BridgeTypeOK, TypeOK, EnterPipeline, Await, Receive, Goto, Refuse, db

\* The other requests stay what and where they are.
LEMMA OthersStay ==
  ASSUME BridgeInv, NEW r \in Requests, Acts(r)
  PROVE  \A q \in Requests \ {r} :
           /\ request'[q] = request[q] /\ at'[q] = at[q] /\ status'[q] = status[q]
           /\ pc'[q] = pc[q] /\ env'[q] = env[q]
<1> USE DEF BridgeInv
<1>0. /\ request \in [Requests -> Body] /\ at \in [Requests -> HandlerStage]
      /\ status \in [Requests -> {-1, 0, 200, 400, 401, 403, 409, 500}]
      /\ pc \in [Requests -> Stage] /\ TypeOK
  BY DEF BridgeTypeOK, TypeOK
<1>1. ASSUME NEW b \in Bodies, PostCommand(r, b)
      PROVE  \A q \in Requests \ {r} :
               /\ request'[q] = request[q] /\ at'[q] = at[q] /\ status'[q] = status[q]
               /\ pc'[q] = pc[q] /\ env'[q] = env[q]
  <2>1. request' = [request EXCEPT ![r] = b]
    BY <1>1 DEF PostCommand
  <2>2. CASE EnterPipeline(r, b, b.event = "valid")
    <3>1. /\ \A q \in Requests \ {r} : pc'[q] = pc[q] /\ env'[q] = env[q]
          /\ at' = [at EXCEPT ![r] = "pipeline"] /\ status' = status
      BY <2>2, EntryState, Zenon
    <3> QED
      BY <1>0, <2>1, <3>1
  <2>3. CASE Reply(r, CommandStatus(b)) /\ UNCHANGED vars
    BY <1>0, <2>1, <2>3 DEF Reply, vars, process
  <2> QED
    BY <1>1, <2>2, <2>3 DEF PostCommand
<1>2. ASSUME NEW b \in Bodies, PostApproval(r, b) \/ PostDecision(r, b) \/ PostKillswitch(r, b)
      PROVE  \A q \in Requests \ {r} :
               /\ request'[q] = request[q] /\ at'[q] = at[q] /\ status'[q] = status[q]
               /\ pc'[q] = pc[q] /\ env'[q] = env[q]
  BY <1>0, <1>2 DEF PostApproval, PostDecision, PostKillswitch, Reply, Await, vars, process
<1>3. CASE CreateApprobation(r) \/ HandlerFails(r) \/ SetKillSwitch(r) \/ AnswerResult(r)
  BY <1>0, <1>3 DEF CreateApprobation, HandlerFails, SetKillSwitch, AnswerResult, Reply, Await,
                    vars, process
<1>4. CASE DecideRow(r)
  BY <1>0, <1>4 DEF DecideRow, Reply, Await, process
<1>5. CASE ExecuteDecision(r) \/ RecordSwitch(r)
  <2>1. (EnterPipeline(r, request[r], TRUE) \/ EnterPipeline(r, request[r], FALSE))
        /\ request' = request
    BY <1>5 DEF ExecuteDecision, RecordSwitch
  <2>2. /\ \A q \in Requests \ {r} : pc'[q] = pc[q] /\ env'[q] = env[q]
        /\ at' = [at EXCEPT ![r] = "pipeline"] /\ status' = status
    BY <2>1, EntryState, Zenon
  <2> QED
    BY <1>0, <2>1, <2>2
<1>6. CASE PipelineStep(r)
  BY <1>0, <1>6, StepOthers, EnvelopeStable DEF PipelineStep, http
<1> QED
  BY <1>1, <1>2, <1>3, <1>4, <1>5, <1>6 DEF Acts, Arrive, Handle

\* What a handler answered or awaits after an arrival.
LEMMA ArriveLinked ==
  ASSUME BridgeInv, NEW r \in Requests, NEW b \in Bodies, Arrive(r, b)
  PROVE  /\ at[r] = "idle" /\ pc[r] = "idle"
         /\ request' = [request EXCEPT ![r] = b]
         /\ \/ /\ UNCHANGED vars
               /\ at' = [at EXCEPT ![r] = "done"]
               /\ \E s \in {400, 401, 403} : status' = [status EXCEPT ![r] = s]
            \/ /\ UNCHANGED <<vars, status>>
               /\ \E stage \in {"create", "decide", "switch"} :
                    at' = [at EXCEPT ![r] = stage]
               /\ b.route # "commands"
            \/ /\ EnterPipeline(r, b, b.event = "valid")
               /\ b.route = "commands"
         /\ Linked(r)'
<1> USE DEF BridgeInv
<1>0. /\ request \in [Requests -> Body] /\ at \in [Requests -> HandlerStage]
      /\ status \in [Requests -> {-1, 0, 200, 400, 401, 403, 409, 500}]
      /\ b \in Body
  BY BodiesAssumption DEF BridgeTypeOK
<1>1. at[r] = "idle" /\ request' = [request EXCEPT ![r] = b]
  BY DEF Arrive, PostCommand, PostApproval, PostDecision, PostKillswitch
<1>2. pc[r] = "idle" /\ status[r] = 0
  BY <1>1 DEF Linked
<1>3. request'[r] = b
  BY <1>0, <1>1
<1>4. CASE PostCommand(r, b)
  <2>1. CASE EnterPipeline(r, b, b.event = "valid")
    <3> DEFINE signed == b.event = "valid"
    <3>0. EnterPipeline(r, b, signed)
      BY <2>1
    <3> HIDE DEF signed
    <3>1. /\ pc'[r] \in {"precheck", "refuse"} /\ env'[r].signed = signed
          /\ env'[r].content = b.content /\ env'[r].correlation = b.correlation
          /\ env'[r].author = b.author
          /\ at' = [at EXCEPT ![r] = "pipeline"] /\ status' = status
      <4>1. /\ pc'[r] \in {"precheck", "refuse"}
            /\ env'[r] = [content |-> b.content, author |-> b.author, signed |-> signed,
                          correlation |-> b.correlation]
            /\ at' = [at EXCEPT ![r] = "pipeline"] /\ status' = status
        BY <3>0, EntryState, Zenon DEF BridgeInv
      <4> QED
        BY <4>1
    <3>2. at'[r] = "pipeline" /\ pc'[r] # "idle" /\ status'[r] = 0
      BY <1>0, <1>2, <3>1
    <3>4. env'[r].signed => b.event = "valid"
      BY <3>1 DEF signed
    <3>5. Carries(r)'
      BY <1>3, <1>4, <3>1, <3>4 DEF Carries, cmd, corr, PostCommand
    <3>6. Established(r)'
      BY <1>3, <1>4, <3>2 DEF Established, PostCommand
    <3> QED
      BY <1>1, <1>2, <1>4, <2>1, <3>2, <3>5, <3>6 DEF Linked, PostCommand
  <2>2. CASE CommandStatus(b) # 200
    <3>0. CommandStatus(b) = 400 \/ CommandStatus(b) = 401
      BY <2>2 DEF CommandStatus
    <3>1. UNCHANGED vars /\ (Reply(r, 400) \/ Reply(r, 401))
      <4>1. UNCHANGED vars /\ Reply(r, CommandStatus(b))
        BY <1>4, <2>2 DEF PostCommand
      <4> QED
        BY <3>0, <4>1
    <3>2. at'[r] = "done" /\ pc'[r] = "idle"
      BY <1>0, <1>2, <3>1 DEF Reply, vars, process
    <3>3. Linked(r)'
      BY <3>2 DEF Linked, Established
    <3> QED
      BY <1>1, <1>2, <3>1, <3>3 DEF Reply
  <2> QED
    BY <1>4, <2>1, <2>2 DEF PostCommand
<1>5. CASE PostApproval(r, b)
  <2>1. /\ UNCHANGED vars /\ b.route = "approvals"
        /\ \/ Reply(r, 400) \/ Reply(r, 403)
           \/ Await(r, "create") /\ b.content.amount # 0
    BY <1>5 DEF PostApproval
  <2>2. b.content.type = "claim.settlement.approve"
    BY <2>1, ApprovalsAssumption
  <2>3. pc'[r] = "idle"
    BY <1>2, <2>1 DEF vars, process
  <2>4. at'[r] = "create" => b.content.amount > 0
    <3>1. b.content.amount \in Nat
      BY <1>0, BodyFields
    <3>2. at'[r] = "create" => b.content.amount # 0
      BY <1>0, <2>1 DEF Reply, Await
    <3> QED
      BY <3>1, <3>2
  <2>5. at'[r] \in {"create", "done"} /\ (at'[r] # "done" => status'[r] = 0)
    BY <1>0, <1>2, <2>1 DEF Reply, Await
  <2> QED
    BY <1>1, <1>2, <1>3, <2>1, <2>2, <2>3, <2>4, <2>5 DEF Reply, Await, Linked, Established
<1>6. CASE PostDecision(r, b) \/ PostKillswitch(r, b)
  <2>1. /\ UNCHANGED vars
        /\ \/ Reply(r, 401) \/ Reply(r, 403)
           \/ b.route = "decide" /\ Await(r, "decide") /\ b.author \in CeoPubkeys
           \/ b.route = "killswitch" /\ Await(r, "switch") /\ b.author \in CeoPubkeys
        /\ b.route # "commands"
    BY <1>6 DEF PostDecision, PostKillswitch
  <2>2. pc'[r] = "idle"
    BY <1>2, <2>1 DEF vars, process
  <2>3. /\ at'[r] \in {"decide", "switch", "done"} /\ (at'[r] # "done" => status'[r] = 0)
        /\ at'[r] = "decide" => b.route = "decide" /\ b.author \in CeoPubkeys
        /\ at'[r] = "switch" => b.route = "killswitch" /\ b.author \in CeoPubkeys
    BY <1>0, <1>2, <2>1 DEF Reply, Await
  <2> QED
    BY <1>1, <1>2, <1>3, <2>1, <2>2, <2>3 DEF Reply, Await, Linked, Established
<1> QED
  BY <1>4, <1>5, <1>6 DEF Arrive

\* What a decision makes of its row and of its handler.
LEMMA DecideRowState ==
  ASSUME BridgeInv, NEW r \in Requests, DecideRow(r)
  PROVE  /\ at[r] = "decide" /\ UNCHANGED <<pc, env>>
         /\ approbations' = Decided(request[r].correlation, request[r].flag)
         /\ \/ /\ request' = request /\ at' = [at EXCEPT ![r] = "done"]
               /\ \/ status' = [status EXCEPT ![r] = 409] /\ Undecided(request[r].correlation) = {}
                  \/ /\ status' = [status EXCEPT ![r] = 200]
                     /\ \E a \in approbations :
                          a.correlation_id = request[r].correlation /\ a.statut = "en_attente"
            \/ /\ at' = [at EXCEPT ![r] = "execute"] /\ status' = status /\ request[r].flag
               /\ \E a \in approbations, n \in DecisionNonces :
                    /\ a.correlation_id = request[r].correlation /\ a.statut = "en_attente"
                    /\ Executable(a)
                    /\ request' = [request EXCEPT ![r].content = Execution(a, n)]
<1>1. /\ at[r] = "decide" /\ UNCHANGED <<pc, env>>
      /\ approbations' = Decided(request[r].correlation, request[r].flag)
  BY DEF DecideRow, process
<1>2. CASE Undecided(request[r].correlation) = {} /\ Reply(r, 409) /\ UNCHANGED request
  BY <1>1, <1>2 DEF Reply
<1>3. ASSUME NEW a \in Undecided(request[r].correlation),
             IF request[r].flag /\ Executable(a)
             THEN /\ Await(r, "execute")
                  /\ \E n \in DecisionNonces :
                       request' = [request EXCEPT ![r].content = Execution(a, n)]
             ELSE Reply(r, 200) /\ UNCHANGED request
      PROVE  \/ /\ request' = request /\ at' = [at EXCEPT ![r] = "done"]
                /\ status' = [status EXCEPT ![r] = 200]
                /\ \E x \in approbations :
                     x.correlation_id = request[r].correlation /\ x.statut = "en_attente"
             \/ /\ at' = [at EXCEPT ![r] = "execute"] /\ status' = status /\ request[r].flag
                /\ \E x \in approbations, n \in DecisionNonces :
                     /\ x.correlation_id = request[r].correlation /\ x.statut = "en_attente"
                     /\ Executable(x)
                     /\ request' = [request EXCEPT ![r].content = Execution(x, n)]
  <2>1. /\ a \in approbations /\ a.correlation_id = request[r].correlation
        /\ a.statut = "en_attente"
    BY DEF Undecided
  <2>2. CASE request[r].flag /\ Executable(a)
    BY <1>3, <2>1, <2>2 DEF Await
  <2>3. CASE ~(request[r].flag /\ Executable(a))
    BY <1>3, <2>1, <2>3 DEF Reply
  <2> QED
    BY <2>2, <2>3
<1> QED
  BY <1>1, <1>2, <1>3 DEF DecideRow

\* The execution of an approval is a request like the one decided, with the
\* settlement of its row as content.
LEMMA ExecutionRequest ==
  ASSUME BridgeInv, NEW r \in Requests, NEW a \in approbations, NEW n \in DecisionNonces,
         Executable(a), request' = [request EXCEPT ![r].content = Execution(a, n)]
  PROVE  /\ request' \in [Requests -> Body]
         /\ request'[r].content = Execution(a, n)
         /\ request'[r].route = request[r].route /\ request'[r].flag = request[r].flag
         /\ request'[r].author = request[r].author /\ request'[r].event = request[r].event
         /\ request'[r].correlation = request[r].correlation
         /\ Execution(a, n).type = "claim.settlement.approve"
         /\ Execution(a, n).claim_id = a.claim_id /\ Execution(a, n).amount = a.montant_eur
<1>1. Execution(a, n) \in Contents
  BY DEF BridgeInv, RowsExecutable
<1>2. request \in [Requests -> Body]
  BY DEF BridgeInv, BridgeTypeOK
<1>3. /\ Execution(a, n).type = "claim.settlement.approve"
      /\ Execution(a, n).claim_id = a.claim_id /\ Execution(a, n).amount = a.montant_eur
  BY DEF Execution
<1>4. [request[r] EXCEPT !.content = Execution(a, n)] \in Body
  BY <1>1, <1>2 DEF Body
<1>5. request' = [request EXCEPT ![r] = [request[r] EXCEPT !.content = Execution(a, n)]]
  OBVIOUS
<1> QED
  BY <1>2, <1>3, <1>4, <1>5 DEF Body

\* What a handler has established after one of its own steps.
LEMMA HandleLinked ==
  ASSUME BridgeInv, NEW r \in Requests, Handle(r)
  PROVE  /\ request' \in [Requests -> Body] /\ at' \in [Requests -> HandlerStage]
         /\ status' \in [Requests -> {-1, 0, 200, 400, 401, 403, 409, 500}]
         /\ Linked(r)'
<1> USE DEF BridgeInv
<1>0. /\ request \in [Requests -> Body] /\ at \in [Requests -> HandlerStage]
      /\ status \in [Requests -> {-1, 0, 200, 400, 401, 403, 409, 500}]
      /\ pc \in [Requests -> Stage]
  BY DEF BridgeTypeOK, TypeOK
<1>1. Linked(r)
  OBVIOUS
<1>2. ASSUME Reply(r, 200) \/ Reply(r, 409) \/ Reply(r, 500), request' = request,
             pc' = pc, env' = env
      PROVE  /\ request' \in [Requests -> Body] /\ at' \in [Requests -> HandlerStage]
             /\ status' \in [Requests -> {-1, 0, 200, 400, 401, 403, 409, 500}]
             /\ Linked(r)'
  <2>1. /\ at' \in [Requests -> HandlerStage] /\ at'[r] = "done"
        /\ status' \in [Requests -> {-1, 0, 200, 400, 401, 403, 409, 500}]
    BY <1>0, <1>2 DEF Reply, HandlerStage
  <2>2. Carries(r)' <=> Carries(r)
    BY <1>2 DEF Carries, cmd, corr
  <2> QED
    BY <1>0, <1>1, <1>2, <2>1, <2>2 DEF Linked, Established
<1>3. CASE CreateApprobation(r) \/ HandlerFails(r) \/ AnswerResult(r)
  <2>1. (Reply(r, 200) \/ Reply(r, 409) \/ Reply(r, 500)) /\ request' = request /\ pc' = pc
        /\ env' = env
    BY <1>3 DEF CreateApprobation, HandlerFails, AnswerResult, vars, process
  <2> QED
    BY <1>2, <2>1
<1>4. CASE DecideRow(r)
  <2>1. pc' = pc /\ env' = env /\ pc[r] = "idle" /\ at[r] = "decide" /\ status[r] = 0
    BY <1>1, <1>4, DecideRowState DEF Linked
  <2>2. CASE request' = request /\ at' = [at EXCEPT ![r] = "done"]
             /\ \E s \in {200, 409} : status' = [status EXCEPT ![r] = s]
    <3>1. Reply(r, 200) \/ Reply(r, 409)
      BY <2>2 DEF Reply
    <3> QED
      BY <1>2, <2>1, <2>2, <3>1
  <2>3. CASE /\ at' = [at EXCEPT ![r] = "execute"] /\ status' = status /\ request[r].flag
             /\ \E a \in approbations, n \in DecisionNonces :
                  Executable(a) /\ request' = [request EXCEPT ![r].content = Execution(a, n)]
    <3>1. PICK a \in approbations, n \in DecisionNonces :
            Executable(a) /\ request' = [request EXCEPT ![r].content = Execution(a, n)]
      BY <2>3
    <3>2. /\ request' \in [Requests -> Body]
          /\ request'[r].content.type = "claim.settlement.approve"
          /\ request'[r].route = request[r].route /\ request'[r].flag = request[r].flag
          /\ request'[r].author = request[r].author
      BY <3>1, ExecutionRequest
    <3>3. at' \in [Requests -> HandlerStage] /\ at'[r] = "execute"
      BY <1>0, <2>3 DEF HandlerStage
    <3> QED
      BY <1>0, <1>1, <2>1, <2>3, <3>2, <3>3 DEF Linked, Established
  <2> QED
    BY <1>4, <2>2, <2>3, DecideRowState
<1>5. CASE ExecuteDecision(r) \/ RecordSwitch(r)
  <2>1. PICK signed \in BOOLEAN :
          /\ EnterPipeline(r, request[r], signed) /\ request' = request
          /\ signed => at[r] = "execute"
          /\ at[r] \in {"execute", "record"}
    BY <1>5 DEF ExecuteDecision, RecordSwitch
  <2>2. /\ pc'[r] \in {"precheck", "refuse"}
        /\ env'[r] = [content |-> request[r].content, author |-> request[r].author,
                      signed |-> signed, correlation |-> request[r].correlation]
        /\ at' = [at EXCEPT ![r] = "pipeline"] /\ status' = status
    BY <2>1, EntryState, Zenon
  <2>3. at' \in [Requests -> HandlerStage] /\ at'[r] = "pipeline"
    BY <1>0, <2>2 DEF HandlerStage
  <2>4. /\ env'[r].content = request[r].content /\ env'[r].author = request[r].author
        /\ env'[r].signed = signed /\ env'[r].correlation = request[r].correlation
    BY <2>2
  <2>5. Carries(r)'
    BY <1>1, <2>1, <2>4 DEF Carries, cmd, corr, Linked, Established
  <2> QED
    BY <1>0, <1>1, <2>1, <2>2, <2>3, <2>5 DEF Linked, Established
<1>6. CASE SetKillSwitch(r)
  <2>1. request' = request /\ pc' = pc /\ env' = env /\ Await(r, "record") /\ at[r] = "switch"
    BY <1>6 DEF SetKillSwitch, process
  <2>2. at' \in [Requests -> HandlerStage] /\ at'[r] = "record" /\ status' = status
    BY <1>0, <2>1 DEF Await, HandlerStage
  <2> QED
    BY <1>0, <1>1, <2>1, <2>2 DEF Linked, Established
<1>7. CASE PipelineStep(r)
  <2>1. /\ Step(r) /\ request' = request /\ at' = at /\ status' = status
        /\ at[r] = "pipeline" /\ env' = env
    BY <1>7, EnvelopeStable DEF PipelineStep, http
  <2>2. pc[r] # "idle" /\ pc'[r] # "idle"
    BY <2>1, StepMoves DEF BridgeTypeOK
  <2>3. Carries(r)' <=> Carries(r)
    BY <2>1 DEF Carries, cmd, corr
  <2> QED
    BY <1>0, <1>1, <2>1, <2>2, <2>3 DEF Linked, Established
<1> QED
  BY <1>3, <1>4, <1>5, <1>6, <1>7 DEF Handle

----------------------------------------------------------------------------
(* The rows of the approvals *)

\* An effect that closes rows inserts none.
LEMMA ClosedInserts ==
  ASSUME TypeOK, NEW c, NEW from, NEW to, approbations' = SetStatut(c, from, to),
         NEW b \in approbations'
  PROVE  HasApprobation(b.correlation_id)
<1>1. PICK a \in approbations :
        b = IF a.correlation_id = c /\ a.statut \in from THEN [a EXCEPT !.statut = to] ELSE a
  BY DEF SetStatut
<1>2. a \in ApprobationRow
  BY DEF TypeOK
<1>3. b.correlation_id = a.correlation_id
  BY <1>1, <1>2 DEF ApprobationRow
<1> QED
  BY <1>3 DEF HasApprobation

\* Nor does a decision.
LEMMA DecidedInserts ==
  ASSUME TypeOK, NEW c, NEW approve, approbations' = Decided(c, approve),
         NEW b \in approbations'
  PROVE  HasApprobation(b.correlation_id)
<1>1. \A a \in approbations : a \in ApprobationRow
  BY DEF TypeOK
<1>2. PICK a \in approbations : b.correlation_id = a.correlation_id
  BY <1>1 DEF Decided, ApprobationRow
<1> QED
  BY <1>2 DEF HasApprobation

\* The pipeline inserts a row for a command of its own correlation id only.
LEMMA StepInserts ==
  ASSUME TypeOK, ControlOK, NEW r \in Requests, Step(r), NEW b \in approbations',
         ~HasApprobation(b.correlation_id)
  PROVE  /\ b.correlation_id = corr(r) /\ b.type = cmd(r).type /\ b.claim_id = cmd(r).claim_id
         /\ cmd(r).type = "claim.settlement.approve" => b.montant_eur = cmd(r).amount
         /\ pc[r] \in {"open", "effect"}
<1>1. b \notin approbations
  BY DEF HasApprobation
<1>2. CASE InsertApprobation(r) /\ pc[r] = "open"
  <2> DEFINE row == [correlation_id |-> corr(r), type |-> cmd(r).type,
                     claim_id |-> cmd(r).claim_id,
                     montant_eur |-> IF cmd(r).type = "claim.settlement.approve"
                                     THEN cmd(r).amount ELSE 0,
                     statut |-> "en_attente", decided |-> FALSE]
  <2>1. b = row
    BY <1>1, <1>2 DEF InsertApprobation
  <2> QED
    BY <1>2, <2>1
<1>3. CASE PricingExceptionEffect(r) /\ pc[r] = "effect"
  <2> DEFINE row == [correlation_id |-> corr(r), type |-> cmd(r).type,
                     claim_id |-> cmd(r).claim_id, montant_eur |-> cmd(r).amount,
                     statut |-> "approuve", decided |-> TRUE]
  <2>1. b = row
    BY <1>1, <1>3 DEF PricingExceptionEffect
  <2> QED
    BY <1>3, <2>1
<1>4. CASE \/ SettleClaimEffect(r) \/ RejectClaimEffect(r) \/ DecideApprobation(r)
           \/ UNCHANGED approbations
  <2>1. CASE SettleClaimEffect(r) \/ RejectClaimEffect(r)
    BY <2>1, ClosedInserts DEF SettleClaimEffect, RejectClaimEffect
  <2>2. CASE DecideApprobation(r) /\ approbations' # approbations
    <3> DEFINE approve == cmd(r).type = "claim.settlement.approve"
    <3>1. approbations' = Decided(corr(r), approve)
      BY <2>2 DEF DecideApprobation
    <3> HIDE DEF approve
    <3> QED
      BY <3>1, DecidedInserts
  <2> QED
    BY <1>1, <1>4, <2>1, <2>2
<1>5. \/ UNCHANGED approbations \/ (InsertApprobation(r) /\ pc[r] = "open")
      \/ (PricingExceptionEffect(r) /\ pc[r] = "effect")
      \/ SettleClaimEffect(r) \/ RejectClaimEffect(r) \/ DecideApprobation(r)
  <2>1. CommitEffect(r) => \/ UNCHANGED approbations \/ PricingExceptionEffect(r)
                           \/ SettleClaimEffect(r) \/ RejectClaimEffect(r)
    BY DEF CommitEffect, KillSwitchEffect, ReportEffect
  <2> QED
    BY <2>1 DEF Step, Precheck, GetKillSwitch, FindSinistre, EvaluatePolicy, MarkConsumed,
       OpenApprobation, AppendAudit, ApplyEffect, PostMessage, AuditExecuted,
       AuditRefusal, DeadLetter, CallFails, AckLost, InsertConsumed, InsertAudit, db
<1> QED
  BY <1>2, <1>3, <1>4, <1>5

\* Whoever inserts a row, it is that of the request which is handled.
LEMMA FreshRow ==
  ASSUME BridgeInv, [BridgeNext]_bridgeVars, NEW b \in approbations',
         ~HasApprobation(b.correlation_id)
  PROVE  \E r \in Requests :
           /\ request[r].correlation = b.correlation_id /\ b.type = request[r].content.type
           /\ b.claim_id = request[r].content.claim_id
           /\ b.type = "claim.settlement.approve" => b.montant_eur = request[r].content.amount
           /\ \/ at[r] = "create"
              \/ at[r] = "pipeline" /\ pc[r] \in {"open", "effect"} /\ Step(r)
<1> USE DEF BridgeInv
<1>1. b \notin approbations
  BY DEF HasApprobation
<1>2. ASSUME NEW r \in Requests, at[r] = "create", InsertRequested(request[r])
      PROVE  /\ request[r].correlation = b.correlation_id /\ b.type = request[r].content.type
             /\ b.claim_id = request[r].content.claim_id
             /\ b.montant_eur = request[r].content.amount
  BY <1>1, <1>2 DEF InsertRequested
<1>3. ASSUME NEW r \in Requests, PipelineStep(r)
      PROVE  /\ request[r].correlation = b.correlation_id /\ b.type = request[r].content.type
             /\ b.claim_id = request[r].content.claim_id
             /\ b.type = "claim.settlement.approve" => b.montant_eur = request[r].content.amount
             /\ at[r] = "pipeline" /\ pc[r] \in {"open", "effect"} /\ Step(r)
  <2>1. Step(r) /\ at[r] = "pipeline"
    BY <1>3 DEF PipelineStep
  <2>2. Carries(r)
    BY <2>1 DEF Linked
  <2> QED
    BY <2>1, <2>2, StepInserts DEF Carries, BridgeTypeOK
<1>4. \A r \in Requests :
        approbations' # Decided(request[r].correlation, request[r].flag)
  BY DecidedInserts DEF BridgeTypeOK
<1>5. ASSUME NEW r \in Requests, NEW body \in Bodies, Arrive(r, body)
      PROVE  UNCHANGED approbations
  BY <1>5, ArriveLinked, EntryState DEF vars, db
<1>6. ASSUME NEW r \in Requests, ExecuteDecision(r) \/ RecordSwitch(r)
      PROVE  UNCHANGED approbations
  BY <1>6 DEF ExecuteDecision, RecordSwitch, EnterPipeline, Receive, db
<1>7. ASSUME NEW r \in Requests, HandlerFails(r) \/ CreateApprobation(r) \/ DecideRow(r)
      PROVE  at[r] = "create" /\ InsertRequested(request[r])
  BY <1>1, <1>4, <1>7 DEF HandlerFails, CreateApprobation, DecideRow
<1>8. ASSUME NEW r \in Requests, Handle(r)
      PROVE  (at[r] = "create" /\ InsertRequested(request[r])) \/ PipelineStep(r)
  BY <1>1, <1>6, <1>7, <1>8 DEF Handle, SetKillSwitch, AnswerResult, vars, db
<1>9. BridgeCrash \/ UNCHANGED bridgeVars => UNCHANGED approbations
  BY DEF BridgeCrash, LoseMemory, bridgeVars, vars, db
<1>10. PICK r \in Requests : Handle(r)
  BY <1>1, <1>5, <1>9 DEF BridgeNext
<1> QED
  BY <1>2, <1>3, <1>8, <1>10

\* A row of a correlation id that had one is that one, moved on.
LEMMA RowOrigin ==
  ASSUME TypeOK, RowsMoveOn, RowsKeyed', NEW b \in approbations',
         HasApprobation(b.correlation_id)
  PROVE  \E a \in approbations :
           /\ a.correlation_id = b.correlation_id /\ a.type = b.type
           /\ a.claim_id = b.claim_id /\ a.montant_eur = b.montant_eur
           /\ a.statut = "refuse" => b.statut = "refuse"
           /\ b.statut = "en_attente" => a.statut = "en_attente"
           /\ a.decided => b.decided
<1>1. PICK a \in approbations : a.correlation_id = b.correlation_id
  BY DEF HasApprobation
<1>2. PICK x \in approbations' :
        /\ x = [a EXCEPT !.statut = x.statut, !.decided = x.decided]
        /\ a.statut = "refuse" => x.statut = "refuse"
        /\ x.statut = "en_attente" => a.statut = "en_attente"
        /\ a.decided => x.decided
  BY DEF RowsMoveOn
<1>3. a \in ApprobationRow
  BY DEF TypeOK
<1>4. /\ x.correlation_id = a.correlation_id /\ x.type = a.type
      /\ x.claim_id = a.claim_id /\ x.montant_eur = a.montant_eur
  BY <1>2, <1>3 DEF ApprobationRow
<1>5. x = b
  BY <1>1, <1>4 DEF RowsKeyed
<1> QED
  BY <1>1, <1>2, <1>4, <1>5

----------------------------------------------------------------------------
(* The bridge implements the pipeline among other writers *)

\* What is approved was asked for as a settlement, or waited at the start.
LEMMA ExecutableStep ==
  ASSUME BridgeInv, [BridgeNext]_bridgeVars
  PROVE  RowsExecutable'
<1>1. RowsMoveOn /\ RowsKeyed'
  BY HandlersShare, SharedRows DEF BridgeInv, BridgeTypeOK
<1> SUFFICES ASSUME NEW b \in approbations', NEW n \in DecisionNonces, Executable(b)
             PROVE  Execution(b, n) \in Contents
  BY DEF RowsExecutable, Executable, Execution
<1>2. CASE HasApprobation(b.correlation_id)
  <2>1. PICK a \in approbations :
          a.type = b.type /\ a.claim_id = b.claim_id /\ a.montant_eur = b.montant_eur
    BY <1>1, <1>2, RowOrigin DEF BridgeInv, BridgeTypeOK
  <2>2. Executable(a) /\ Execution(a, n) = Execution(b, n)
    BY <2>1 DEF Executable, Execution
  <2> QED
    BY <2>2 DEF BridgeInv, RowsExecutable
<1>3. CASE ~HasApprobation(b.correlation_id)
  <2>1. PICK r \in Requests :
          /\ b.type = request[r].content.type /\ b.claim_id = request[r].content.claim_id
          /\ b.type = "claim.settlement.approve" => b.montant_eur = request[r].content.amount
    BY <1>3, FreshRow
  <2> DEFINE c == request[r].content
  <2>2. c \in Contents /\ c \in Content /\ c.type = "claim.settlement.approve"
    BY <2>1, BodyFields, ContentsAssumption DEF BridgeInv, BridgeTypeOK, Executable
  <2>3. b.claim_id = c.claim_id /\ b.montant_eur = c.amount
    BY <2>1, <2>2
  <2> HIDE DEF c
  <2>4. [c EXCEPT !.nonce = n] \in Contents
    BY <2>2, DecisionsAssumption
  <2>5. [c EXCEPT !.nonce = n] = Execution(b, n)
    BY <2>2, <2>3 DEF Content, Execution
  <2> QED
    BY <2>4, <2>5
<1> QED
  BY <1>2, <1>3

\* At first nobody is served, and every waiting approval can be executed.
LEMMA BridgeInvInit == BridgeInit => BridgeInv
<1> SUFFICES ASSUME BridgeInit PROVE BridgeInv
  OBVIOUS
<1>1. TypeOK /\ ControlOK
  BY TypeInit, ControlInit DEF BridgeInit
<1>2. (CHOOSE b \in Bodies : TRUE) \in Body
  BY BodiesAssumption
<1>3. BridgeTypeOK
  BY <1>1, <1>2 DEF BridgeInit, BridgeTypeOK, HandlerStage
<1>4. RowsKeyed /\ RowsExecutable
  BY BacklogAssumption, BacklogExecutable DEF BridgeInit, Init, RowsKeyed, RowsExecutable
<1>5. \A r \in Requests : Linked(r)
  BY DEF BridgeInit, Init, Linked, Established
<1> QED
  BY <1>1, <1>3, <1>4, <1>5 DEF BridgeInv

\* Every step keeps it.
LEMMA BridgeInvNext == BridgeInv /\ [BridgeNext]_bridgeVars => BridgeInv'
<1> SUFFICES ASSUME BridgeInv, [BridgeNext]_bridgeVars PROVE BridgeInv'
  OBVIOUS
<1> USE DEF BridgeInv
<1>0. /\ request \in [Requests -> Body] /\ at \in [Requests -> HandlerStage]
      /\ status \in [Requests -> {-1, 0, 200, 400, 401, 403, 409, 500}]
  BY DEF BridgeTypeOK
<1>1. TypeOK' /\ ControlOK' /\ RowsKeyed'
  BY HandlersShare, SharedTypesNext, SharedRows DEF BridgeTypeOK
<1>2. RowsExecutable'
  BY ExecutableStep
<1>3. ASSUME NEW q \in Requests, request'[q] = request[q], at'[q] = at[q],
             status'[q] = status[q], pc'[q] = pc[q], env'[q] = env[q]
      PROVE  Linked(q)'
  <2>1. Linked(q)
    OBVIOUS
  <2>2. Carries(q)' <=> Carries(q)
    BY <1>3 DEF Carries, cmd, corr
  <2>3. Established(q)' <=> Established(q)
    BY <1>3 DEF Established
  <2> QED
    BY <1>3, <2>1, <2>2, <2>3 DEF Linked
<1>4. ASSUME NEW r \in Requests, NEW b \in Bodies, Arrive(r, b)
      PROVE  BridgeTypeOK' /\ \A q \in Requests : Linked(q)'
  <2>1. request' \in [Requests -> Body]
    BY <1>0, <1>4, ArriveLinked, BodiesAssumption
  <2>2. /\ at' \in [Requests -> HandlerStage]
        /\ status' \in [Requests -> {-1, 0, 200, 400, 401, 403, 409, 500}]
    <3>1. CASE EnterPipeline(r, b, b.event = "valid")
      <4>1. at' = [at EXCEPT ![r] = "pipeline"] /\ status' = status
        BY <3>1 DEF EnterPipeline, Await
      <4> QED
        BY <1>0, <4>1 DEF HandlerStage
    <3>2. CASE /\ at' = [at EXCEPT ![r] = "done"]
               /\ \E s \in {400, 401, 403} : status' = [status EXCEPT ![r] = s]
      BY <1>0, <3>2 DEF HandlerStage
    <3>3. CASE /\ status' = status
               /\ \E stage \in {"create", "decide", "switch"} : at' = [at EXCEPT ![r] = stage]
      BY <1>0, <3>3 DEF HandlerStage
    <3> QED
      BY <1>4, <3>1, <3>2, <3>3, ArriveLinked
  <2>3. Acts(r)
    BY <1>4 DEF Acts
  <2>4. \A q \in Requests \ {r} : Linked(q)'
    BY <1>3, <2>3, OthersStay
  <2> QED
    BY <1>1, <1>4, <2>1, <2>2, <2>4, ArriveLinked DEF BridgeTypeOK
<1>5. ASSUME NEW r \in Requests, Handle(r)
      PROVE  BridgeTypeOK' /\ \A q \in Requests : Linked(q)'
  <2>1. Acts(r)
    BY <1>5 DEF Acts
  <2>2. \A q \in Requests \ {r} : Linked(q)'
    BY <1>3, <2>1, OthersStay
  <2> QED
    BY <1>1, <1>5, <2>2, HandleLinked DEF BridgeTypeOK
<1>6. CASE BridgeCrash
  <2>1. /\ at' = [r \in Requests |-> IF Serving(r) THEN "done" ELSE at[r]]
        /\ status' = [r \in Requests |-> IF Serving(r) THEN -1 ELSE status[r]]
        /\ pc' = [r \in Requests |-> IF InFlight(r) THEN "done" ELSE pc[r]]
        /\ request' = request /\ env' = env
    BY <1>6 DEF BridgeCrash, LoseMemory
  <2>2. /\ at' \in [Requests -> HandlerStage]
        /\ status' \in [Requests -> {-1, 0, 200, 400, 401, 403, 409, 500}]
    BY <1>0, <2>1 DEF HandlerStage
  <2>3. ASSUME NEW q \in Requests
        PROVE  Linked(q)'
    <3>1. Linked(q)
      OBVIOUS
    <3>2. Carries(q)' <=> Carries(q)
      BY <2>1 DEF Carries, cmd, corr
    <3>3. /\ at'[q] = IF Serving(q) THEN "done" ELSE at[q]
          /\ status'[q] = IF Serving(q) THEN -1 ELSE status[q]
          /\ pc'[q] = IF InFlight(q) THEN "done" ELSE pc[q]
      BY <2>1
    <3>4. Established(q)'
      BY <2>1, <3>1, <3>3 DEF Established, Linked, Serving
    <3> QED
      BY <3>1, <3>2, <3>3, <3>4 DEF Linked, Serving, InFlight
  <2> QED
    BY <1>0, <1>1, <1>2, <2>1, <2>2, <2>3 DEF BridgeTypeOK
<1>7. CASE UNCHANGED bridgeVars
  <2>1. /\ request' = request /\ at' = at /\ status' = status /\ pc' = pc /\ env' = env
    BY <1>7 DEF bridgeVars, http, vars, process
  <2> QED
    BY <1>0, <1>1, <1>2, <1>3, <2>1 DEF BridgeTypeOK
<1> QED
  BY <1>1, <1>2, <1>4, <1>5, <1>6, <1>7 DEF BridgeNext

\* What the handlers have established holds in every reachable state.
LEMMA BridgeInvariant == BridgeSpec => []BridgeInv
BY BridgeInvInit, BridgeInvNext, PTL DEF BridgeSpec

\* The bridge is the pipeline among other writers of its tables.
LEMMA BridgeIsShared == BridgeSpec => SharedSpec
<1>1. BridgeInit => Init
  BY DEF BridgeInit
<1>2. BridgeInv /\ [BridgeNext]_bridgeVars => [SharedNext]_vars
  BY HandlersShare
<1> QED
  BY <1>1, <1>2, BridgeInvariant, PTL DEF BridgeSpec, SharedSpec

\* Every request, response and row of the bridge is well typed, whichever
\* requests arrive, fail or are cut off by a crash (http/server.ts).
THEOREM BridgeTypeCorrect == BridgeSpec => []BridgeTypeOK
<1>1. BridgeInv => BridgeTypeOK
  BY DEF BridgeInv
<1> QED
  BY <1>1, BridgeInvariant, PTL

\* What is proved of the pipeline holds of the bridge: the approvals and the
\* switch that the handlers write (server.ts) take nothing from it.
THEOREM BridgeKeepsPipeline ==
  BridgeSpec => [](/\ AppliedAtMostOnce /\ AuditedBeforeApplied /\ LockedOut
                   /\ TruthfulOutcome /\ EffectAuthorised /\ SettlementCovers
                   /\ BooksAgree /\ NoSilentLoss /\ SerialDecisions)
<1>1. TypeOK /\ OnceInv => AppliedAtMostOnce /\ AuditedBeforeApplied
  BY OnceFacts
<1>2. LockInv => LockedOut
  BY DEF LockInv, LockedOut
<1>3. OutcomeInv => TruthfulOutcome
  BY DEF OutcomeInv, TruthfulOutcome
<1>4. TypeOK /\ VettedInv => EffectAuthorised /\ SettlementCovers
  BY VettedFacts
<1>5. BooksInv => BooksAgree
  BY DEF BooksInv
<1>6. TypeOK /\ SerialInv => SerialDecisions
  BY SerialFacts
<1> QED
  BY <1>1, <1>2, <1>3, <1>4, <1>5, <1>6, BridgeIsShared, OnceInvariant, LockInvariant,
     OutcomeInvariant, VettedInvariant, BooksInvariant, LossInvariant, SerialInvariant, PTL

\* The register of contents is implemented under the handlers too.
THEOREM BridgeRefinesRegister == BridgeSpec => ImplementsRegister
BY BridgeIsShared, SharedRegister, PTL

----------------------------------------------------------------------------
(* Decisions *)

\* A row of the correlation id c shows that it was decided so.
ShowsDecision(rows, c, approve) ==
  \E d \in rows :
    /\ d.correlation_id = c /\ d.statut # "en_attente" /\ d.decided
    /\ approve \/ d.statut = "refuse"

\* OneDecision is not inductive: a decision that went on has left its row
\* decided, so that no other finds it pending.
DecisionInv ==
  /\ OneDecision
  /\ \A r \in Requests : Decides(r) =>
       ShowsDecision(approbations, request[r].correlation, request[r].flag)

\* A row that shows a decision goes on showing it.
LEMMA DecisionStays ==
  ASSUME TypeOK, RowsMoveOn, NEW c, NEW approve, ShowsDecision(approbations, c, approve)
  PROVE  ShowsDecision(approbations', c, approve)
<1>1. PICK d \in approbations :
        /\ d.correlation_id = c /\ d.statut # "en_attente" /\ d.decided
        /\ approve \/ d.statut = "refuse"
  BY DEF ShowsDecision
<1>2. PICK b \in approbations' :
        /\ b = [d EXCEPT !.statut = b.statut, !.decided = b.decided]
        /\ d.statut = "refuse" => b.statut = "refuse"
        /\ b.statut = "en_attente" => d.statut = "en_attente"
        /\ d.decided => b.decided
  BY DEF RowsMoveOn
<1>3. d \in ApprobationRow
  BY DEF TypeOK
<1>4. b.correlation_id = d.correlation_id
  BY <1>2, <1>3 DEF ApprobationRow
<1> QED
  BY <1>1, <1>2, <1>4 DEF ShowsDecision

\* The decision of a pending row shows.
LEMMA DecisionShows ==
  ASSUME TypeOK, NEW a \in approbations, NEW approve \in BOOLEAN, a.statut = "en_attente",
         approbations' = Decided(a.correlation_id, approve)
  PROVE  ShowsDecision(approbations', a.correlation_id, approve)
<1> DEFINE to == IF approve THEN "approuve" ELSE "refuse"
           b == [a EXCEPT !.statut = to, !.decided = TRUE]
<1>1. b \in approbations'
  BY DEF Decided
<1>2. a \in ApprobationRow
  BY DEF TypeOK
<1>3. b.correlation_id = a.correlation_id /\ b.statut = to /\ b.decided
  BY <1>2 DEF ApprobationRow
<1>4. to # "en_attente" /\ (approve \/ to = "refuse")
  OBVIOUS
<1> HIDE DEF b, to
<1> QED
  BY <1>1, <1>3, <1>4 DEF ShowsDecision

\* A handler that has decided had decided before, or finds its row pending now.
LEMMA DecidesNow ==
  ASSUME BridgeInv, NEW r \in Requests, Acts(r), Decides(r)'
  PROVE  /\ request'[r].correlation = request[r].correlation
         /\ request'[r].flag = request[r].flag
         /\ \/ Decides(r)
            \/ \E a \in approbations :
                 /\ a.correlation_id = request[r].correlation /\ a.statut = "en_attente"
                 /\ approbations' = Decided(request[r].correlation, request[r].flag)
<1> USE DEF BridgeInv
<1>0. /\ request \in [Requests -> Body] /\ at \in [Requests -> HandlerStage]
      /\ status \in [Requests -> {-1, 0, 200, 400, 401, 403, 409, 500}] /\ Linked(r)
  BY DEF BridgeTypeOK
<1>1. ASSUME NEW b \in Bodies, Arrive(r, b)
      PROVE  FALSE
  <2>1. request'[r] = b /\ at[r] = "idle" /\ status[r] = 0
    BY <1>0, <1>1, ArriveLinked DEF Linked
  <2>2. CASE EnterPipeline(r, b, b.event = "valid") /\ b.route = "commands"
    <3>1. status' = status
      BY <2>2 DEF EnterPipeline, Await
    <3> QED
      BY <2>1, <2>2, <3>1 DEF Decides
  <2>3. CASE /\ at' = [at EXCEPT ![r] = "done"]
             /\ \E s \in {400, 401, 403} : status' = [status EXCEPT ![r] = s]
    BY <1>0, <2>3 DEF Decides
  <2>4. CASE /\ status' = status
             /\ \E stage \in {"create", "decide", "switch"} : at' = [at EXCEPT ![r] = stage]
    BY <1>0, <2>1, <2>4 DEF Decides
  <2> QED
    BY <1>1, <2>2, <2>3, <2>4, ArriveLinked
<1>2. CASE DecideRow(r)
  <2>1. CASE /\ request' = request /\ at' = [at EXCEPT ![r] = "done"]
             /\ status' = [status EXCEPT ![r] = 409]
    BY <1>0, <2>1 DEF Decides
  <2>2. CASE /\ request' = request /\ at' = [at EXCEPT ![r] = "done"]
             /\ status' = [status EXCEPT ![r] = 200]
             /\ \E a \in approbations :
                  a.correlation_id = request[r].correlation /\ a.statut = "en_attente"
    BY <1>2, <2>2, DecideRowState
  <2>3. CASE \E a \in approbations, n \in DecisionNonces :
               /\ a.correlation_id = request[r].correlation /\ a.statut = "en_attente"
               /\ Executable(a)
               /\ request' = [request EXCEPT ![r].content = Execution(a, n)]
    BY <1>2, <2>3, DecideRowState, ExecutionRequest
  <2> QED
    BY <1>2, <2>1, <2>2, <2>3, DecideRowState
<1>3. CASE CreateApprobation(r) \/ HandlerFails(r) \/ SetKillSwitch(r) \/ RecordSwitch(r)
  <2>1. request' = request
    BY <1>3 DEF CreateApprobation, HandlerFails, SetKillSwitch, RecordSwitch
  <2>2. CASE HandlerFails(r)
    <3>1. at'[r] = "done" /\ status'[r] = 500
      BY <1>0, <2>2 DEF HandlerFails, Reply
    <3> QED
      BY <3>1 DEF Decides
  <2>3. CASE CreateApprobation(r) \/ SetKillSwitch(r) \/ RecordSwitch(r)
    BY <1>0, <2>1, <2>3 DEF CreateApprobation, SetKillSwitch, RecordSwitch, Linked,
                            Established, Decides
  <2> QED
    BY <1>3, <2>2, <2>3
<1>4. CASE ExecuteDecision(r) \/ PipelineStep(r) \/ AnswerResult(r)
  <2>1. request' = request /\ at[r] \in {"execute", "pipeline"}
    BY <1>4 DEF ExecuteDecision, PipelineStep, AnswerResult, http
  <2> QED
    BY <2>1 DEF Decides
<1> QED
  BY <1>1, <1>2, <1>3, <1>4 DEF Acts, Handle

\* Every step keeps the decisions apart.
LEMMA DecisionNext == BridgeInv /\ DecisionInv /\ [BridgeNext]_bridgeVars => DecisionInv'
<1> SUFFICES ASSUME BridgeInv, DecisionInv, [BridgeNext]_bridgeVars PROVE DecisionInv'
  OBVIOUS
<1> USE DEF BridgeInv
<1>1. RowsMoveOn /\ TypeOK
  BY HandlersShare, SharedRows DEF BridgeTypeOK
<1>2. ASSUME NEW q \in Requests, Decides(q), request'[q].correlation = request[q].correlation,
             request'[q].flag = request[q].flag
      PROVE  ShowsDecision(approbations', request'[q].correlation, request'[q].flag)
  BY <1>1, <1>2, DecisionStays DEF DecisionInv
<1>3. ASSUME NEW r \in Requests, Acts(r)
      PROVE  DecisionInv'
  <2>1. \A q \in Requests \ {r} : request'[q] = request[q] /\ (Decides(q)' <=> Decides(q))
    BY <1>3, OthersStay DEF Decides
  <2>2. ASSUME Decides(r)'
        PROVE  ShowsDecision(approbations', request'[r].correlation, request'[r].flag)
    <3>1. CASE Decides(r)
      BY <1>2, <1>3, <2>2, <3>1, DecidesNow
    <3>2. CASE \E a \in approbations :
                 /\ a.correlation_id = request[r].correlation /\ a.statut = "en_attente"
                 /\ approbations' = Decided(request[r].correlation, request[r].flag)
      <4>1. request[r].flag \in BOOLEAN
        BY BodyFields DEF BridgeTypeOK
      <4> QED
        BY <1>1, <1>3, <2>2, <3>2, <4>1, DecisionShows, DecidesNow
    <3> QED
      BY <1>3, <2>2, <3>1, <3>2, DecidesNow
  <2>3. ASSUME NEW q \in Requests \ {r}, Decides(r)', Decides(q),
               request'[r].correlation = request[q].correlation
        PROVE  FALSE
    <3>1. request[r].correlation = request[q].correlation
      BY <1>3, <2>3, DecidesNow
    <3>2. CASE Decides(r)
      BY <2>3, <3>1, <3>2 DEF DecisionInv, OneDecision
    <3>3. CASE \E a \in approbations :
                 a.correlation_id = request[r].correlation /\ a.statut = "en_attente"
      BY <2>3, <3>1, <3>3 DEF DecisionInv, ShowsDecision, RowsKeyed
    <3> QED
      BY <1>3, <2>3, <3>2, <3>3, DecidesNow
  <2>4. OneDecision'
    <3> SUFFICES ASSUME NEW p \in Requests, NEW q \in Requests, Decides(p)', Decides(q)',
                        request'[p].correlation = request'[q].correlation
                 PROVE  p = q
      BY DEF OneDecision
    <3> QED
      BY <2>1, <2>3 DEF DecisionInv, OneDecision
  <2>5. \A q \in Requests : Decides(q)' =>
          ShowsDecision(approbations', request'[q].correlation, request'[q].flag)
    BY <1>2, <2>1, <2>2
  <2> QED
    BY <2>4, <2>5 DEF DecisionInv
<1>4. CASE BridgeCrash \/ UNCHANGED bridgeVars
  <2>1. request' = request /\ \A q \in Requests : Decides(q)' => Decides(q)
    BY <1>4 DEF BridgeCrash, bridgeVars, http, Decides, Serving
  <2> QED
    BY <1>2, <2>1 DEF DecisionInv, OneDecision
<1> QED
  BY <1>3, <1>4 DEF BridgeNext, Acts

\* The decisions are kept apart in every reachable state.
LEMMA DecisionInvariant == BridgeSpec => []DecisionInv
<1>1. BridgeInit => DecisionInv
  BY DEF BridgeInit, DecisionInv, OneDecision, Decides
<1> QED
  BY <1>1, BridgeInvariant, DecisionNext, PTL DEF BridgeSpec

\* Of several decisions of one approval, one at most goes on (POST
\* /approvals/decide, decideApprobation).
THEOREM OneDecisionHolds == BridgeSpec => []OneDecision
<1>1. DecisionInv => OneDecision
  BY DEF DecisionInv
<1> QED
  BY <1>1, DecisionInvariant, PTL

\* An approval keeps its subject and only moves on, whoever writes it.
THEOREM ApprovalsMoveOnHolds == BridgeSpec => ApprovalsOnlyMoveOn
<1>1. BridgeInv /\ [BridgeNext]_bridgeVars => RowsMoveOn
  BY HandlersShare, SharedRows DEF BridgeInv, BridgeTypeOK
<1>2. BridgeInv /\ [BridgeNext]_bridgeVars =>
        [\A a \in approbations : \E b \in approbations' :
           /\ b = [a EXCEPT !.statut = b.statut, !.decided = b.decided]
           /\ a.statut = "refuse" => b.statut = "refuse"
           /\ b.statut = "en_attente" => a.statut = "en_attente"
           /\ a.decided => b.decided]_bridgeVars
  BY <1>1 DEF RowsMoveOn
<1> QED
  BY <1>2, BridgeInvariant, PTL DEF BridgeSpec, ApprovalsOnlyMoveOn

----------------------------------------------------------------------------
(* Approvals that are executed *)

\* A decision that goes on executes the settlement of its row, which is decided.
Executes(r) ==
  (at[r] = "execute" \/ pc[r] # "idle") /\ request[r].route = "decide" =>
    /\ request[r].content.type = "claim.settlement.approve"
    /\ \E b \in approbations :
         /\ b.correlation_id = request[r].correlation /\ b.decided
         /\ b.claim_id = request[r].content.claim_id
         /\ b.montant_eur = request[r].content.amount

ExecInv == \A r \in Requests : Executes(r)

\* An approval keeps its correlation id, its claim and its amount, and what was
\* decided stays so.
LEMMA SubjectStays ==
  ASSUME TypeOK, RowsMoveOn, NEW a \in approbations
  PROVE  \E b \in approbations' :
           /\ b.correlation_id = a.correlation_id
           /\ b.claim_id = a.claim_id /\ b.montant_eur = a.montant_eur
           /\ a.decided => b.decided
<1>1. PICK b \in approbations' : /\ b = [a EXCEPT !.statut = b.statut, !.decided = b.decided]
                                 /\ a.decided => b.decided
  BY DEF RowsMoveOn
<1>2. a \in ApprobationRow
  BY DEF TypeOK
<1> QED
  BY <1>1, <1>2 DEF ApprobationRow

\* The decision of a pending row leaves it decided.
LEMMA DecidedRow ==
  ASSUME TypeOK, NEW a \in approbations, NEW approve, a.statut = "en_attente",
         approbations' = Decided(a.correlation_id, approve)
  PROVE  \E b \in approbations' :
           /\ b.correlation_id = a.correlation_id /\ b.decided
           /\ b.claim_id = a.claim_id /\ b.montant_eur = a.montant_eur
<1> DEFINE to == IF approve THEN "approuve" ELSE "refuse"
           b == [a EXCEPT !.statut = to, !.decided = TRUE]
<1>1. b \in approbations'
  BY DEF Decided
<1>2. a \in ApprobationRow
  BY DEF TypeOK
<1>3. /\ b.correlation_id = a.correlation_id /\ b.decided
      /\ b.claim_id = a.claim_id /\ b.montant_eur = a.montant_eur
  BY <1>2 DEF ApprobationRow
<1> QED
  BY <1>1, <1>3

\* Every step keeps the decisions and their rows together.
LEMMA ExecNext == BridgeInv /\ ExecInv /\ [BridgeNext]_bridgeVars => ExecInv'
<1> SUFFICES ASSUME BridgeInv, ExecInv, [BridgeNext]_bridgeVars, NEW r \in Requests
             PROVE  Executes(r)'
  BY DEF ExecInv
<1>0. /\ request \in [Requests -> Body] /\ at \in [Requests -> HandlerStage]
      /\ Linked(r) /\ TypeOK /\ RowsMoveOn /\ Executes(r)
  BY HandlersShare, SharedRows DEF BridgeInv, BridgeTypeOK, ExecInv
<1>1. ASSUME request'[r] = request[r],
             at'[r] = "execute" \/ pc'[r] # "idle" => at[r] = "execute" \/ pc[r] # "idle"
      PROVE  Executes(r)'
  BY <1>0, <1>1, SubjectStays DEF Executes
<1>2. ASSUME NEW q \in Requests, q # r, Acts(q)
      PROVE  Executes(r)'
  BY <1>1, <1>2, OthersStay
<1>3. ASSUME NEW b \in Bodies, Arrive(r, b)
      PROVE  Executes(r)'
  <2>1. request'[r] = b /\ pc[r] = "idle"
    BY <1>0, <1>3, ArriveLinked
  <2>2. CASE b.route = "commands"
    BY <2>1, <2>2 DEF Executes
  <2>3. CASE b.route # "commands"
    <3>1. UNCHANGED vars /\ \E stage \in {"done", "create", "decide", "switch"} :
                              at' = [at EXCEPT ![r] = stage]
      BY <1>3, <2>3, ArriveLinked
    <3>2. at'[r] # "execute" /\ pc'[r] = "idle"
      BY <1>0, <2>1, <3>1 DEF vars, process
    <3> QED
      BY <3>2 DEF Executes
  <2> QED
    BY <2>2, <2>3
<1>4. CASE DecideRow(r)
  <2>1. at[r] = "decide" /\ pc' = pc /\ pc[r] = "idle"
    BY <1>0, <1>4, DecideRowState DEF Linked
  <2>2. CASE at' = [at EXCEPT ![r] = "done"]
    BY <1>0, <2>1, <2>2 DEF Executes
  <2>3. CASE at' # [at EXCEPT ![r] = "done"]
    <3>1. PICK a \in approbations, n \in DecisionNonces :
            /\ a.correlation_id = request[r].correlation /\ Executable(a)
            /\ a.statut = "en_attente"
            /\ request' = [request EXCEPT ![r].content = Execution(a, n)]
      BY <1>4, <2>3, DecideRowState
    <3>2. /\ request'[r].correlation = a.correlation_id
          /\ request'[r].content.claim_id = a.claim_id
          /\ request'[r].content.amount = a.montant_eur
          /\ request'[r].content.type = "claim.settlement.approve"
      <4>1. /\ request'[r].content = Execution(a, n)
            /\ Execution(a, n).type = "claim.settlement.approve"
            /\ request'[r].correlation = request[r].correlation
            /\ Execution(a, n).claim_id = a.claim_id /\ Execution(a, n).amount = a.montant_eur
        BY <3>1, ExecutionRequest
      <4> QED
        BY <3>1, <4>1
    <3>3. approbations' = Decided(a.correlation_id, request[r].flag)
      BY <1>4, <3>1, DecideRowState
    <3>4. PICK b \in approbations' :
            /\ b.correlation_id = a.correlation_id /\ b.decided
            /\ b.claim_id = a.claim_id /\ b.montant_eur = a.montant_eur
      BY <1>0, <3>1, <3>3, DecidedRow
    <3> QED
      BY <3>2, <3>4 DEF Executes
  <2> QED
    BY <2>2, <2>3
<1>5. CASE ExecuteDecision(r) \/ RecordSwitch(r)
  <2>1. request' = request
    BY <1>5 DEF ExecuteDecision, RecordSwitch
  <2>2. at[r] = "execute" \/ request[r].route # "decide"
    BY <1>0, <1>5 DEF ExecuteDecision, RecordSwitch, Linked, Established
  <2> QED
    BY <1>1, <2>1, <2>2 DEF Executes
<1>6. CASE PipelineStep(r)
  BY <1>0, <1>1, <1>6, StepMoves DEF PipelineStep, http
<1>7. CASE CreateApprobation(r) \/ SetKillSwitch(r) \/ HandlerFails(r) \/ AnswerResult(r)
  <2>1. request' = request /\ pc' = pc
    BY <1>7 DEF CreateApprobation, SetKillSwitch, HandlerFails, AnswerResult, vars, process
  <2>2. at'[r] # "execute"
    BY <1>0, <1>7 DEF CreateApprobation, SetKillSwitch, HandlerFails, AnswerResult, Reply, Await
  <2> QED
    BY <1>1, <2>1, <2>2
<1>8. CASE BridgeCrash \/ UNCHANGED bridgeVars
  BY <1>0, <1>1, <1>8 DEF BridgeCrash, LoseMemory, InFlight, bridgeVars, http, vars, process, TypeOK
<1> QED
  BY <1>2, <1>3, <1>4, <1>5, <1>6, <1>7, <1>8 DEF BridgeNext, Acts, Handle

\* A decision executes what was approved, in every reachable state.
LEMMA ExecInvariant == BridgeSpec => []ExecInv
<1>1. BridgeInit => ExecInv
  BY DEF BridgeInit, Init, ExecInv, Executes
<1> QED
  BY <1>1, ExecNext, BridgeInvariant, PTL DEF BridgeSpec

----------------------------------------------------------------------------
(* What only the CEO does *)

\* Where a large settlement comes from follows from what the policy has vetted
\* and from how its message was let in.
LEMMA LargeClaimFacts ==
  ASSUME BridgeInv, OnceInv, VettedInv, ExecInv
  PROVE  LargeClaimNeedsCeo
<1> SUFFICES ASSUME NEW r \in applied, cmd(r).type = "claim.settlement.approve",
                    Portfolio[cmd(r).claim_id].montant_eur > ThresholdEur
             PROVE  /\ request[r].author \in CeoPubkeys
                    /\ \/ request[r].route = "commands" /\ request[r].event = "valid"
                       \/ /\ request[r].route = "decide" /\ request[r].flag
                          /\ \E a \in approbations :
                               /\ a.correlation_id = request[r].correlation /\ a.decided
                               /\ a.claim_id = cmd(r).claim_id /\ a.montant_eur = cmd(r).amount
  BY DEF LargeClaimNeedsCeo
<1>1. r \in Requests /\ TypeOK
  BY DEF BridgeInv, BridgeTypeOK, TypeOK
<1>2. pc[r] # "idle"
  BY <1>1 DEF OnceInv
<1>3. Carries(r)
  BY <1>1, <1>2 DEF BridgeInv, Linked
<1>4. SignedCeo(r)
  <2>1. cmd(r).claim_id \in Claims
    BY <1>1 DEF VettedInv, Vetted, IsClaimCommand
  <2>2. Portfolio[cmd(r).claim_id].montant_eur \in Nat
    BY <2>1, PortfolioAssumption DEF SinistreRow
  <2>3. ~SignedCeo(r) => Portfolio[cmd(r).claim_id].montant_eur <= ThresholdEur
    BY <1>1, VettedFacts DEF EffectAuthorised
  <2> QED
    BY <2>2, <2>3, ThresholdAssumption
<1>5. CASE request[r].route = "commands" /\ request[r].event = "valid"
  BY <1>3, <1>4, <1>5 DEF Carries, SignedCeo
<1>6. CASE request[r].route = "decide" /\ request[r].flag
  BY <1>1, <1>2, <1>3, <1>4, <1>6 DEF Carries, SignedCeo, ExecInv, Executes
<1> QED
  BY <1>3, <1>4, <1>5, <1>6 DEF Carries, SignedCeo

\* A large claim is settled by a verified event of a CEO key, or as recorded in
\* an approval decided in the name of one, with its claim and amount (server.ts).
THEOREM LargeClaimHolds == BridgeSpec => []LargeClaimNeedsCeo
BY LargeClaimFacts, BridgeInvariant, BridgeIsShared, OnceInvariant, VettedInvariant,
   ExecInvariant, PTL

\* A step of the pipeline that moves the switch commits a command the CEO
\* signed.
LEMMA SwitchEffect ==
  ASSUME BridgeInv, OnceInv, VettedInv, NEW r \in Requests, at[r] = "pipeline", Step(r),
         actif' # actif
  PROVE  /\ request[r].author \in CeoPubkeys
         /\ request[r].route = "commands" /\ request[r].event = "valid"
         /\ r \in applied' \ applied
<1>0. TypeOK
  BY DEF BridgeInv, BridgeTypeOK
<1>1. pc[r] = "effect" /\ CommitEffect(r)
  BY <1>0, StepCommits
<1>2. KillSwitchEffect(r)
  BY <1>1 DEF CommitEffect, SettleClaimEffect, RejectClaimEffect, PricingExceptionEffect,
              ReportEffect
<1>3. RequiresCeo(cmd(r).type) /\ cmd(r).type # "claim.settlement.approve"
  BY <1>2 DEF KillSwitchEffect, RequiresCeo
<1>4. role(r) = "ceo"
  BY <1>1, <1>3 DEF VettedInv, Vetted, Allowed
<1>5. env[r].signed /\ env[r].author \in CeoPubkeys
  BY <1>4 DEF role, ResolveRole
<1>6. Carries(r)
  BY DEF BridgeInv, Linked
<1>7. r \in applied' \ applied
  BY <1>1 DEF CommitEffect, OnceInv, FallibleStages
<1> QED
  BY <1>3, <1>5, <1>6, <1>7 DEF Carries

\* Only the write of POST /killswitch and such commands move the switch.
LEMMA SwitchFacts ==
  ASSUME BridgeInv, OnceInv, VettedInv, [BridgeNext]_bridgeVars, actif' # actif
  PROVE  \E r \in Requests :
           /\ request[r].author \in CeoPubkeys
           /\ \/ request[r].route = "killswitch" /\ request[r].flag = actif' /\ at[r] = "switch"
              \/ /\ request[r].route = "commands" /\ request[r].event = "valid"
                 /\ r \in applied' \ applied
<1>1. ASSUME NEW r \in Requests, SwitchTo(request[r].flag), at[r] = "switch"
      PROVE  /\ request[r].author \in CeoPubkeys /\ request[r].route = "killswitch"
             /\ request[r].flag = actif'
  BY <1>1 DEF SwitchTo, BridgeInv, Linked, Established
<1>2. ASSUME NEW r \in Requests, NEW b \in Bodies, Arrive(r, b)
      PROVE  FALSE
  BY <1>2, ArriveLinked DEF EnterPipeline, Receive, vars, db
<1>3. ASSUME NEW r \in Requests, Handle(r)
      PROVE  (SwitchTo(request[r].flag) /\ at[r] = "switch") \/ (at[r] = "pipeline" /\ Step(r))
  BY <1>3 DEF Handle, CreateApprobation, DecideRow, ExecuteDecision, SetKillSwitch, RecordSwitch,
     HandlerFails, PipelineStep, AnswerResult, EnterPipeline, Receive, vars, db
<1>4. ~BridgeCrash /\ ~UNCHANGED bridgeVars
  BY DEF BridgeCrash, LoseMemory, bridgeVars, vars, db
<1>5. PICK r \in Requests : Handle(r)
  BY <1>2, <1>4 DEF BridgeNext
<1>6. CASE SwitchTo(request[r].flag) /\ at[r] = "switch"
  BY <1>1, <1>6
<1>7. CASE at[r] = "pipeline" /\ Step(r)
  BY <1>7, SwitchEffect
<1> QED
  BY <1>3, <1>5, <1>6, <1>7

\* The kill-switch is moved by the write of POST /killswitch or by a command of
\* the CEO's event, never by the command run for the record.
THEOREM SwitchMovedOnceHolds == BridgeSpec => SwitchMovedOnce
<1>1. BridgeInv /\ OnceInv /\ VettedInv /\ [BridgeNext]_bridgeVars =>
        [actif' # actif =>
           \E r \in Requests :
             /\ request[r].author \in CeoPubkeys
             /\ \/ request[r].route = "killswitch" /\ request[r].flag = actif' /\ at[r] = "switch"
                \/ /\ request[r].route = "commands" /\ request[r].event = "valid"
                   /\ r \in applied' \ applied]_bridgeVars
  BY SwitchFacts
<1> QED
  BY <1>1, BridgeInvariant, BridgeIsShared, OnceInvariant, VettedInvariant, PTL
     DEF BridgeSpec, SwitchMovedOnce

----------------------------------------------------------------------------
(* What the caller is answered *)

\* A status is written when the request is over, and tells how it ended.
Answered(r) ==
  /\ at[r] = "done" => ~InFlight(r)
  /\ status[r] \in {400, 401, 403, 409} => pc[r] = "idle"
  /\ status[r] = 200 /\ request[r].route = "commands" =>
       pc[r] = "done" /\ outcome[r] \in {"executed", "denied", "consumed", "dlq"}
  /\ status[r] = 200 /\ request[r].route = "approvals" => HasApprobation(request[r].correlation)
  /\ at[r] = "pipeline" =>
       /\ outcome[r] # "lost"
       /\ request[r].route = "killswitch" => request[r].author \in CeoPubkeys

AnswerInv ==
  /\ \A r \in Requests : pc[r] \in {"refuse", "done"} => outcome[r] # "none"
  /\ \A r \in Requests : Answered(r)

\* A step that ends its request has decided its outcome, which no step loses.
LEMMA StepEnds ==
  ASSUME TypeOK, NEW r \in Requests, Step(r), pc[r] \in {"refuse", "done"} => outcome[r] # "none"
  PROVE  /\ pc'[r] \in {"refuse", "done"} => outcome'[r] # "none"
         /\ outcome'[r] = "lost" => outcome[r] = "lost"
<1> USE DEF Goto, Refuse, Fail, TypeOK
<1>1. CASE Precheck(r) \/ GetKillSwitch(r) \/ FindSinistre(r) \/ EvaluatePolicy(r)
  BY <1>1 DEF Precheck, GetKillSwitch, FindSinistre, EvaluatePolicy
<1>2. CASE MarkConsumed(r) \/ OpenApprobation(r) \/ AppendAudit(r) \/ ApplyEffect(r)
  BY <1>2 DEF MarkConsumed, OpenApprobation, AppendAudit, ApplyEffect
<1>3. CASE DecideApprobation(r) \/ PostMessage(r) \/ AuditExecuted(r)
  BY <1>3 DEF DecideApprobation, PostMessage, AuditExecuted
<1>4. CASE AuditRefusal(r) \/ DeadLetter(r)
  BY <1>4 DEF AuditRefusal, DeadLetter
<1>5. CASE CallFails(r) \/ AckLost(r)
  BY <1>5 DEF CallFails, AckLost
<1> QED
  BY <1>1, <1>2, <1>3, <1>4, <1>5 DEF Step

\* An outcome is decided when its request ends.
LEMMA EndsNext ==
  ASSUME TypeOK, [SharedNext]_vars,
         \A r \in Requests : pc[r] \in {"refuse", "done"} => outcome[r] # "none"
  PROVE  \A r \in Requests : pc'[r] \in {"refuse", "done"} => outcome'[r] # "none"
<1>1. ASSUME NEW r \in Requests, NEW e \in Envelope, Receive(r, e)
      PROVE  \A q \in Requests : pc'[q] \in {"refuse", "done"} => outcome'[q] # "none"
  BY <1>1 DEF Receive, Goto, Refuse, TypeOK
<1>2. ASSUME NEW r \in Requests, Step(r)
      PROVE  \A q \in Requests : pc'[q] \in {"refuse", "done"} => outcome'[q] # "none"
  BY <1>2, StepOthers, StepEnds
<1>3. CASE LoseMemory
  BY <1>3 DEF LoseMemory, InFlight, TypeOK
<1>4. CASE Elsewhere \/ UNCHANGED vars
  BY <1>4 DEF Elsewhere, vars, process
<1> QED
  BY <1>1, <1>2, <1>3, <1>4 DEF SharedNext

\* A request that others do not touch keeps its answer.
LEMMA AnswerStays ==
  ASSUME BridgeInv, RowsMoveOn, NEW r \in Requests, Answered(r),
         request'[r] = request[r], at'[r] = at[r], status'[r] = status[r],
         pc'[r] = pc[r], outcome'[r] = outcome[r]
  PROVE  Answered(r)'
<1>1. HasApprobation(request[r].correlation) => HasApprobation(request[r].correlation)'
  BY RowsStay DEF BridgeInv, BridgeTypeOK
<1> QED
  BY <1>1 DEF Answered, InFlight, HasApprobation

\* An arrival answers an error at once or answers nothing yet.
LEMMA ArriveAnswered ==
  ASSUME BridgeInv, OutcomeInv, NEW r \in Requests, NEW b \in Bodies, Arrive(r, b)
  PROVE  Answered(r)'
<1>0. /\ request \in [Requests -> Body] /\ at \in [Requests -> HandlerStage]
      /\ status \in [Requests -> {-1, 0, 200, 400, 401, 403, 409, 500}]
      /\ TypeOK
  BY DEF BridgeInv, BridgeTypeOK
<1>1. /\ request'[r] = b /\ at[r] = "idle" /\ pc[r] = "idle" /\ status[r] = 0
  BY <1>0, ArriveLinked DEF BridgeInv, Linked
<1>2. CASE EnterPipeline(r, b, b.event = "valid") /\ b.route = "commands"
  <2>1. /\ status' = status /\ at' = [at EXCEPT ![r] = "pipeline"]
        /\ \/ outcome' = outcome \/ outcome' = [outcome EXCEPT ![r] = "denied"]
    BY <1>2 DEF EnterPipeline, Await, Receive, Refuse
  <2>2. outcome'[r] # "lost" /\ at'[r] = "pipeline"
    BY <1>0, <1>1, <2>1 DEF OutcomeInv, TypeOK
  <2> QED
    BY <1>1, <1>2, <2>1, <2>2 DEF Answered
<1>3. CASE /\ UNCHANGED vars /\ at' = [at EXCEPT ![r] = "done"]
           /\ \E s \in {400, 401, 403} : status' = [status EXCEPT ![r] = s]
  BY <1>0, <1>1, <1>3 DEF Answered, InFlight, vars, process
<1>4. CASE /\ UNCHANGED vars /\ status' = status
           /\ \E stage \in {"create", "decide", "switch"} : at' = [at EXCEPT ![r] = stage]
  BY <1>0, <1>1, <1>4 DEF Answered, InFlight, vars, process
<1> QED
  BY <1>2, <1>3, <1>4, ArriveLinked

\* So does every step of a handler: 200 after the pipeline when it has ended,
\* or when the approval asked for is there.
LEMMA HandleAnswered ==
  ASSUME BridgeInv, OutcomeInv, AnswerInv, NEW r \in Requests, Handle(r)
  PROVE  Answered(r)'
<1>0. /\ request \in [Requests -> Body] /\ at \in [Requests -> HandlerStage]
      /\ status \in [Requests -> {-1, 0, 200, 400, 401, 403, 409, 500}]
      /\ TypeOK /\ Linked(r) /\ Answered(r)
  BY DEF BridgeInv, BridgeTypeOK, AnswerInv
<1>1. CASE CreateApprobation(r)
  <2>1. /\ at[r] = "create" /\ InsertRequested(request[r]) /\ Reply(r, 200)
        /\ request' = request /\ pc' = pc
    BY <1>1 DEF CreateApprobation, process
  <2>2. request[r].route = "approvals" /\ pc'[r] = "idle"
    BY <1>0, <2>1 DEF Linked, Established
  <2>3. HasApprobation(request[r].correlation)'
    <3> DEFINE b == request[r]
               row == [correlation_id |-> b.correlation, type |-> b.content.type,
                       claim_id |-> b.content.claim_id, montant_eur |-> b.content.amount,
                       statut |-> "en_attente", decided |-> FALSE]
    <3>1. \/ UNCHANGED approbations /\ HasApprobation(b.correlation)
          \/ row \in approbations'
      BY <2>1 DEF InsertRequested
    <3>2. row.correlation_id = b.correlation
      OBVIOUS
    <3> HIDE DEF row
    <3> QED
      BY <2>1, <3>1, <3>2 DEF HasApprobation
  <2>4. at'[r] = "done" /\ status'[r] = 200
    BY <1>0, <2>1 DEF Reply
  <2> QED
    BY <2>1, <2>2, <2>3, <2>4 DEF Answered, InFlight, HasApprobation
<1>2. CASE DecideRow(r) \/ SetKillSwitch(r) \/ HandlerFails(r)
  <2>1. pc[r] = "idle" /\ status[r] = 0 /\ pc' = pc
    BY <1>0, <1>2 DEF DecideRow, SetKillSwitch, HandlerFails, Linked, process
  <2>2. CASE HandlerFails(r)
    <3>1. at'[r] = "done" /\ status'[r] = 500
      BY <1>0, <2>2 DEF HandlerFails, Reply
    <3> QED
      BY <2>1, <3>1 DEF Answered, InFlight
  <2>3. CASE SetKillSwitch(r)
    <3>1. at'[r] = "record" /\ status'[r] = 0
      BY <1>0, <2>1, <2>3 DEF SetKillSwitch, Await
    <3> QED
      BY <3>1 DEF Answered
  <2>4. CASE DecideRow(r)
    <3>1. request'[r].route = "decide"
      BY <1>0, <2>4, DecideRowState, ExecutionRequest DEF Linked, Established
    <3>2. at'[r] \in {"done", "execute"}
      BY <1>0, <2>4, DecideRowState
    <3> QED
      BY <2>1, <3>1, <3>2 DEF Answered, InFlight
  <2> QED
    BY <1>2, <2>2, <2>3, <2>4
<1>3. CASE ExecuteDecision(r) \/ RecordSwitch(r)
  <2>1. /\ request' = request /\ status' = status /\ at' = [at EXCEPT ![r] = "pipeline"]
        /\ \/ outcome' = outcome \/ outcome' = [outcome EXCEPT ![r] = "denied"]
        /\ at[r] \in {"execute", "record"}
    BY <1>3 DEF ExecuteDecision, RecordSwitch, EnterPipeline, Await, Receive, Refuse
  <2>2. pc[r] = "idle" /\ status[r] = 0 /\ outcome[r] = "none"
    BY <1>0, <2>1 DEF Linked, OutcomeInv
  <2>3. outcome'[r] # "lost" /\ at'[r] = "pipeline" /\ status'[r] = 0
    BY <1>0, <2>1, <2>2 DEF TypeOK
  <2>4. request[r].route = "killswitch" => request[r].author \in CeoPubkeys
    BY <1>0, <2>1 DEF Linked, Established
  <2> QED
    BY <2>1, <2>3, <2>4 DEF Answered
<1>4. CASE PipelineStep(r)
  <2>1. Step(r) /\ request' = request /\ status' = status /\ at' = at /\ at[r] = "pipeline"
    BY <1>4 DEF PipelineStep, http
  <2>2. status[r] = 0 /\ outcome'[r] # "lost"
    BY <1>0, <2>1, StepEnds DEF Linked, Answered, AnswerInv
  <2> QED
    BY <1>0, <2>1, <2>2 DEF Answered
<1>5. CASE AnswerResult(r)
  <2>1. /\ UNCHANGED <<pc, outcome, request>> /\ at[r] = "pipeline" /\ pc[r] = "done"
        /\ Reply(r, IF outcome[r] = "error" THEN 500 ELSE 200)
    BY <1>5 DEF AnswerResult, vars, process
  <2>2. at'[r] = "done" /\ status'[r] = IF outcome[r] = "error" THEN 500 ELSE 200
    BY <1>0, <2>1 DEF Reply
  <2>3. outcome[r] \in Outcome \ {"none", "lost"}
    BY <1>0, <2>1 DEF Answered, AnswerInv, TypeOK
  <2>4. request[r].route # "approvals"
    BY <1>0, <2>1 DEF Linked, Established
  <2> QED
    BY <2>1, <2>2, <2>3, <2>4 DEF Answered, InFlight, Outcome
<1> QED
  BY <1>1, <1>2, <1>3, <1>4, <1>5 DEF Handle

\* Every step keeps the answers true.
LEMMA AnswerNext ==
  BridgeInv /\ OutcomeInv /\ AnswerInv /\ [BridgeNext]_bridgeVars => AnswerInv'
<1> SUFFICES ASSUME BridgeInv, OutcomeInv, AnswerInv, [BridgeNext]_bridgeVars PROVE AnswerInv'
  OBVIOUS
<1>0. TypeOK /\ RowsMoveOn /\ [SharedNext]_vars
  BY HandlersShare, SharedRows DEF BridgeInv, BridgeTypeOK
<1>1. \A r \in Requests : pc'[r] \in {"refuse", "done"} => outcome'[r] # "none"
  BY <1>0, EndsNext DEF AnswerInv
<1>2. ASSUME NEW r \in Requests, Acts(r)
      PROVE  \A q \in Requests : Answered(q)'
  <2>1. Answered(r)'
    BY <1>2, ArriveAnswered, HandleAnswered DEF Acts
  <2>2. ASSUME NEW q \in Requests \ {r}
        PROVE  outcome'[q] = outcome[q]
    <3>1. CASE PipelineStep(r)
      BY <1>0, <3>1, StepOthers DEF PipelineStep
    <3>2. CASE ~PipelineStep(r)
      BY <1>0, <1>2, <3>2 DEF Acts, Arrive, PostCommand, PostApproval, PostDecision,
         PostKillswitch, Handle, CreateApprobation, DecideRow, ExecuteDecision, SetKillSwitch,
         RecordSwitch, HandlerFails, AnswerResult, EnterPipeline, Receive, Refuse, vars,
         process, TypeOK
    <3> QED
      BY <3>1, <3>2
  <2> QED
    BY <1>0, <1>2, <2>1, <2>2, OthersStay, AnswerStays DEF AnswerInv
<1>3. CASE BridgeCrash
  <2>1. ASSUME NEW q \in Requests
        PROVE  Answered(q)'
    <3>1. Answered(q) /\ Linked(q) /\ pc[q] \in Stage
      BY <1>0 DEF AnswerInv, BridgeInv, TypeOK
    <3>2. /\ at'[q] = IF Serving(q) THEN "done" ELSE at[q]
          /\ status'[q] = IF Serving(q) THEN -1 ELSE status[q]
          /\ pc'[q] = IF InFlight(q) THEN "done" ELSE pc[q]
          /\ outcome'[q] = IF InFlight(q) THEN "lost" ELSE outcome[q]
          /\ request' = request /\ approbations' = approbations
      BY <1>3 DEF BridgeCrash, LoseMemory, db
    <3>3. CASE Serving(q)
      BY <3>2, <3>3 DEF Answered, InFlight
    <3>4. CASE ~Serving(q)
      <4>1. ~InFlight(q)
        BY <3>1, <3>4 DEF Serving, Answered, Linked, InFlight
      <4> QED
        BY <3>1, <3>2, <3>4, <4>1 DEF Answered, Serving, InFlight, HasApprobation
    <3> QED
      BY <3>3, <3>4
  <2> QED
    BY <1>1, <2>1 DEF AnswerInv
<1>4. CASE UNCHANGED bridgeVars
  <2>1. /\ UNCHANGED <<request, at, status, pc, outcome, approbations>>
    BY <1>4 DEF bridgeVars, http, vars, process, db
  <2> QED
    BY <1>1, <2>1 DEF AnswerInv, Answered, InFlight, HasApprobation
<1> QED
  BY <1>1, <1>2, <1>3, <1>4 DEF BridgeNext, Acts, AnswerInv

\* The answers are true in every reachable state.
LEMMA AnswerInvariant == BridgeSpec => []AnswerInv
<1>1. BridgeInit => AnswerInv
  BY DEF BridgeInit, Init, AnswerInv, Answered, InFlight
<1> QED
  BY <1>1, AnswerNext, BridgeInvariant, BridgeIsShared, OutcomeInvariant, PTL DEF BridgeSpec

----------------------------------------------------------------------------
(* What a step leaves of the requests *)

\* A request that has arrived stays, but for the settlement a decision executes.
LEMMA RequestStays ==
  ASSUME BridgeInv, [BridgeNext]_bridgeVars, NEW r \in Requests, at[r] # "idle"
  PROVE  /\ at'[r] # "idle"
         /\ request'[r] # request[r] => request[r].route = "decide"
         /\ request'[r].route = request[r].route /\ request'[r].flag = request[r].flag
         /\ request'[r].correlation = request[r].correlation
<1>0. /\ request \in [Requests -> Body] /\ at \in [Requests -> HandlerStage] /\ Linked(r)
  BY DEF BridgeInv, BridgeTypeOK
<1>1. ASSUME NEW q \in Requests, q # r, Acts(q)
      PROVE  at'[r] = at[r] /\ request'[r] = request[r]
  BY <1>1, OthersStay
<1>2. ~\E b \in Bodies : Arrive(r, b)
  BY ArriveLinked
<1>3. CASE Handle(r)
  <2>1. CASE DecideRow(r)
    <3>1. CASE request' = request
      BY <1>0, <2>1, <3>1, DecideRowState
    <3>2. CASE request' # request
      <4>1. PICK a \in approbations, n \in DecisionNonces :
              Executable(a) /\ request' = [request EXCEPT ![r].content = Execution(a, n)]
        BY <2>1, <3>2, DecideRowState
      <4>2. /\ request'[r].route = request[r].route /\ request'[r].flag = request[r].flag
            /\ request'[r].correlation = request[r].correlation
        BY <4>1, ExecutionRequest
      <4> QED
        BY <1>0, <2>1, <4>2, DecideRowState DEF Linked, Established
    <3> QED
      BY <3>1, <3>2
  <2>2. CASE PipelineStep(r)
    BY <2>2 DEF PipelineStep, http
  <2>3. CASE \/ CreateApprobation(r) \/ SetKillSwitch(r) \/ HandlerFails(r) \/ AnswerResult(r)
             \/ ExecuteDecision(r) \/ RecordSwitch(r)
    BY <1>0, <2>3 DEF CreateApprobation, SetKillSwitch, HandlerFails, AnswerResult,
       ExecuteDecision, RecordSwitch, EnterPipeline, Reply, Await
  <2> QED
    BY <1>3, <2>1, <2>2, <2>3 DEF Handle
<1>4. CASE BridgeCrash \/ UNCHANGED bridgeVars
  BY <1>4 DEF BridgeCrash, bridgeVars, http
<1>5. BridgeNext => Handle(r) \/ BridgeCrash \/ \E q \in Requests \ {r} : Acts(q)
  BY <1>2 DEF BridgeNext, Acts
<1> QED
  BY <1>1, <1>3, <1>4, <1>5

\* A handler at work is not idle, and an effect is applied by one in the
\* pipeline.
LEMMA HandleBusy ==
  ASSUME NEW r \in Requests, Handle(r)
  PROVE  at[r] \in {"create", "decide", "execute", "switch", "record", "pipeline"}
  BY DEF Handle, CreateApprobation, DecideRow, ExecuteDecision, SetKillSwitch, RecordSwitch,
         HandlerFails, PipelineStep, AnswerResult

\* Who applies an effect is in the pipeline.
LEMMA AppliedNow ==
  ASSUME BridgeInv, [BridgeNext]_bridgeVars
  PROVE  \/ applied' = applied
         \/ \E p \in Requests : at[p] = "pipeline" /\ applied' = applied \cup {p}
<1>0. TypeOK
  BY DEF BridgeInv, BridgeTypeOK
<1>1. ASSUME NEW r \in Requests, NEW b \in Bodies, Arrive(r, b)
      PROVE  applied' = applied
  BY <1>1, ArriveLinked DEF EnterPipeline, Receive, vars, history
<1>2. ASSUME NEW r \in Requests, Handle(r)
      PROVE  applied' = applied \/ PipelineStep(r)
  BY <1>2 DEF Handle, CreateApprobation, DecideRow, ExecuteDecision, SetKillSwitch, RecordSwitch,
     HandlerFails, AnswerResult, EnterPipeline, Receive, SwitchTo, vars, history
<1>3. BridgeCrash \/ UNCHANGED bridgeVars => applied' = applied
  BY DEF BridgeCrash, LoseMemory, bridgeVars, vars, history
<1>4. ASSUME NEW r \in Requests, PipelineStep(r)
      PROVE  at[r] = "pipeline" /\ (applied' = applied \/ applied' = applied \cup {r})
  BY <1>0, <1>4, StepTables DEF PipelineStep
<1> QED
  BY <1>1, <1>2, <1>3, <1>4 DEF BridgeNext

\* What was answered stays answered.
LEMMA DoneStays ==
  ASSUME BridgeInv, [BridgeNext]_bridgeVars, NEW r \in Requests, at[r] = "done"
  PROVE  at'[r] = "done" /\ status'[r] = status[r] /\ request'[r] = request[r]
<1>1. ASSUME NEW q \in Requests, Acts(q)
      PROVE  at'[r] = "done" /\ status'[r] = status[r] /\ request'[r] = request[r]
  <2>1. q # r
    BY <1>1, ArriveLinked, HandleBusy DEF Acts
  <2> QED
    BY <1>1, <2>1, OthersStay
<1>2. CASE BridgeCrash \/ UNCHANGED bridgeVars
  BY <1>2 DEF BridgeCrash, bridgeVars, http, Serving
<1> QED
  BY <1>1, <1>2 DEF BridgeNext, Acts

=============================================================================
