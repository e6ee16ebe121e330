----------------------------- MODULE DeskProofs -----------------------------
(***************************************************************************)
(* Theorems about Desk, for every set of tasks, letters, bodies, claims    *)
(* and correlation ids: what an agent may conclude from the answers it     *)
(* gets, and that the bridge implements the courier it relies on.          *)
(*                                                                         *)
(* The desk is the bridge with a sender of messages: what is proved of     *)
(* BridgeSpec (module BridgeProofs) holds here.                            *)
(***************************************************************************)
EXTENDS Desk, BridgeProofs

----------------------------------------------------------------------------
(* Where the approvals come from *)

\* A row was there at the start, or an HTTP request that has arrived asked for
\* it: with its claim, and for a settlement with its amount.
Asked(b) ==
  \/ \E a \in Backlog : a.correlation_id = b.correlation_id
  \/ \E r \in Requests :
       /\ at[r] # "idle" /\ request[r].route \in {"commands", "approvals"}
       /\ request[r].correlation = b.correlation_id /\ request[r].content.type = b.type
       /\ request[r].content.claim_id = b.claim_id
       /\ b.type = "claim.settlement.approve" => request[r].content.amount = b.montant_eur

OriginInv == \A b \in approbations : Asked(b)

\* The pipeline opens no approval for the record of a switch: without a
\* signature the CEO key is refused.
LEMMA SwitchOpensNothing ==
  ASSUME BridgeInv, VettedInv, AnswerInv, NEW r \in Requests, at[r] = "pipeline",
         pc[r] \in {"open", "effect"}
  PROVE  request[r].route # "killswitch"
<1> SUFFICES ASSUME request[r].route = "killswitch" PROVE FALSE
  OBVIOUS
<1>1. Carries(r)
  BY DEF BridgeInv, Linked
<1>2. ~env[r].signed /\ env[r].author \in CeoPubkeys
  BY <1>1 DEF Carries, AnswerInv, Answered
<1> QED
  BY <1>2 DEF VettedInv, PastSwitch, CeoSansSignature

\* Every step keeps the rows traceable.
LEMMA OriginNext ==
  BridgeInv /\ VettedInv /\ AnswerInv /\ DecisionInv /\ OriginInv /\ [BridgeNext]_bridgeVars
    => OriginInv'
<1> SUFFICES ASSUME BridgeInv, VettedInv, AnswerInv, DecisionInv, OriginInv,
                    [BridgeNext]_bridgeVars, NEW b \in approbations'
             PROVE  Asked(b)'
  BY DEF OriginInv
<1>1. RowsMoveOn /\ RowsKeyed' /\ TypeOK
  BY HandlersShare, SharedRows DEF BridgeInv, BridgeTypeOK
<1>2. ASSUME NEW r \in Requests, at[r] # "idle", request[r].route \in {"commands", "approvals"},
             request[r].correlation = b.correlation_id, request[r].content.type = b.type,
             request[r].content.claim_id = b.claim_id,
             b.type = "claim.settlement.approve" => request[r].content.amount = b.montant_eur
      PROVE  Asked(b)'
  <2>1. at'[r] # "idle" /\ request'[r] = request[r]
    BY <1>2, RequestStays
  <2> QED
    BY <1>2, <2>1 DEF Asked
<1>3. CASE HasApprobation(b.correlation_id)
  <2>1. PICK a \in approbations :
          /\ a.correlation_id = b.correlation_id /\ a.type = b.type
          /\ a.claim_id = b.claim_id /\ a.montant_eur = b.montant_eur
    BY <1>1, <1>3, RowOrigin
  <2>2. CASE \E x \in Backlog : x.correlation_id = a.correlation_id
    BY <2>1, <2>2 DEF Asked
  <2>3. CASE ~\E x \in Backlog : x.correlation_id = a.correlation_id
    BY <1>2, <2>1, <2>3 DEF OriginInv, Asked
  <2> QED
    BY <2>2, <2>3
<1>4. CASE ~HasApprobation(b.correlation_id)
  <2>1. PICK r \in Requests :
          /\ request[r].correlation = b.correlation_id /\ b.type = request[r].content.type
          /\ b.claim_id = request[r].content.claim_id
          /\ b.type = "claim.settlement.approve" => b.montant_eur = request[r].content.amount
          /\ \/ at[r] = "create"
             \/ at[r] = "pipeline" /\ pc[r] \in {"open", "effect"} /\ Step(r)
    BY <1>4, FreshRow
  <2>2. CASE at[r] = "create"
    <3>1. request[r].route = "approvals"
      BY <2>2 DEF BridgeInv, Linked, Established
    <3> QED
      BY <1>2, <2>1, <2>2, <3>1
  <2>3. CASE at[r] = "pipeline" /\ pc[r] \in {"open", "effect"}
    <3>1. request[r].route # "killswitch"
      BY <2>3, SwitchOpensNothing
    <3>2. request[r].route # "decide"
      <4> SUFFICES ASSUME request[r].route = "decide" PROVE FALSE
        OBVIOUS
      <4>1. ShowsDecision(approbations, request[r].correlation, request[r].flag)
        BY <2>3 DEF DecisionInv, Decides
      <4> QED
        BY <1>4, <2>1, <4>1 DEF ShowsDecision, HasApprobation
    <3>3. request[r].route \in {"commands", "approvals", "decide", "killswitch"}
      BY BodyFields DEF BridgeInv, BridgeTypeOK
    <3> QED
      BY <1>2, <2>1, <2>3, <3>1, <3>2, <3>3
  <2> QED
    BY <2>1, <2>2, <2>3
<1> QED
  BY <1>3, <1>4

\* Every approval can be traced in every reachable state.
LEMMA OriginInvariant == BridgeSpec => []OriginInv
<1>1. BridgeInit => OriginInv
  BY DEF BridgeInit, Init, OriginInv, Asked
<1> QED
  BY <1>1, OriginNext, BridgeInvariant, BridgeIsShared, VettedInvariant, AnswerInvariant,
     DecisionInvariant, PTL DEF BridgeSpec

----------------------------------------------------------------------------
(* The agent's side *)

\* The desk adds a sender to the bridge and changes nothing of it.
LEMMA DeskStepsBridge ==
  ASSUME letter \in [Tasks -> Letters], [DeskNext]_deskVars
  PROVE  [BridgeNext]_bridgeVars
<1>1. ASSUME NEW t \in Tasks, Deliver(t)
      PROVE  BridgeNext
  <2>1. letter[t] \in Bodies
    BY DeskAssumption
  <2> QED
    BY <1>1, <2>1 DEF Deliver, BridgeNext, Tasks
<1>2. ASSUME NEW r \in Requests, NEW b \in Bodies \ Letters, ArriveDirectly(r, b)
      PROVE  BridgeNext
  BY <1>2 DEF ArriveDirectly, BridgeNext
<1>3. ASSUME NEW r \in Requests, BridgeWorks(r)
      PROVE  BridgeNext
  BY <1>3 DEF BridgeWorks, BridgeNext
<1>4. BridgeCrash => BridgeNext
  BY DEF BridgeNext
<1>5. ASSUME NEW t \in Tasks, StartTask(t) \/ LoopEnds(t) \/ AnswerStep(t)
      PROVE  UNCHANGED bridgeVars
  BY <1>5 DEF StartTask, LoopEnds, AnswerStep, EndWithoutMessage, PostJson, ReadAnswer, Unreachable,
              GiveUp, Conclude
<1>6. UNCHANGED deskVars => UNCHANGED bridgeVars
  BY DEF deskVars
<1> QED
  BY <1>1, <1>2, <1>3, <1>4, <1>5, <1>6 DEF DeskNext

\* What a task has posted, what it was told, and what it knew when it posted.
Posted(t) ==
  /\ task[t] \in {"idle", "working"} => wire[t] = "nowhere" /\ told[t] = -1
  /\ task[t] = "waiting" => wire[t] # "nowhere" /\ told[t] = -1
  /\ task[t] # "idle" /\ wire[t] # "bridge" => at[t] = "idle"
  /\ wire[t] = "bridge" => at[t] # "idle" /\ request[t] = letter[t]
  /\ told[t] > 0 => wire[t] = "bridge" /\ at[t] = "done" /\ told[t] = status[t]
  /\ wire[t] = "nowhere" => knew[t] = {}
  /\ \A p \in knew[t] :
       told[p] > 0 /\ (p \in applied /\ pc[t] # "idle" => p \in before[t])

DeskInv == DeskTypeOK /\ \A t \in Tasks : Posted(t)

\* What the bridge's side is known to keep.
BridgeSide == BridgeInv /\ AnswerInv /\ OnceInv

\* A request that arrives after p was answered has it among those answered
\* before.
LEMMA BeforeKept ==
  ASSUME BridgeSide, [BridgeNext]_bridgeVars, NEW p \in Requests, NEW t \in Requests,
         at[p] = "done", p \in applied /\ pc[t] # "idle" => p \in before[t],
         p \in applied', pc'[t] # "idle"
  PROVE  p \in before'[t]
<1>0. TypeOK /\ [SharedNext]_vars
  BY HandlersShare DEF BridgeSide, BridgeInv, BridgeTypeOK
<1>1. p \in applied
  BY AppliedNow DEF BridgeSide
<1>2. pc[p] = "done"
  BY <1>1 DEF BridgeSide, AnswerInv, Answered, InFlight, OnceInv
<1>3. ASSUME NEW r \in Requests, NEW e \in Envelope, Receive(r, e)
      PROVE  p \in before'[t]
  <2>1. CASE r = t
    BY <1>0, <1>2, <1>3, <2>1 DEF Receive, TypeOK
  <2>2. CASE r # t
    BY <1>0, <1>1, <1>3, <2>2 DEF Receive, Goto, Refuse, TypeOK
  <2> QED
    BY <2>1, <2>2
<1>4. ASSUME NEW r \in Requests, Step(r)
      PROVE  p \in before'[t]
  BY <1>0, <1>1, <1>4, StepMoves, StepCommits
<1>5. CASE LoseMemory
  BY <1>0, <1>1, <1>5 DEF LoseMemory, InFlight, history, TypeOK
<1>6. CASE Elsewhere \/ UNCHANGED vars
  BY <1>1, <1>6 DEF Elsewhere, vars, process, history
<1> QED
  BY <1>0, <1>3, <1>4, <1>5, <1>6 DEF SharedNext

\* A task that does nothing keeps its part while the bridge works.
LEMMA PostedKept ==
  ASSUME BridgeSide, DeskInv, [BridgeNext]_bridgeVars, NEW t \in Tasks, Posted(t),
         task'[t] = task[t], wire'[t] = wire[t], letter'[t] = letter[t], told'[t] = told[t],
         knew'[t] = knew[t], \A p \in Tasks : told[p] > 0 => told'[p] > 0,
         task[t] # "idle" /\ wire[t] # "bridge" => at'[t] = "idle"
  PROVE  Posted(t)'
<1>1. wire[t] = "bridge" => at'[t] # "idle" /\ request'[t] = letter[t]
  <2> SUFFICES ASSUME wire[t] = "bridge"
               PROVE  at'[t] # "idle" /\ request'[t] = letter[t]
    OBVIOUS
  <2>1. at[t] # "idle" /\ request[t] = letter[t] /\ letter[t] \in Letters
    BY DEF Posted, DeskInv, DeskTypeOK
  <2>2. request[t].route # "decide"
    BY <2>1, DeskAssumption
  <2> QED
    BY <2>1, <2>2, RequestStays DEF BridgeSide, Tasks
<1>2. told[t] > 0 => at'[t] = "done" /\ told[t] = status'[t]
  BY DoneStays DEF Posted, BridgeSide, Tasks
<1>3. ASSUME NEW p \in knew[t]
      PROVE  told'[p] > 0 /\ (p \in applied' /\ pc'[t] # "idle" => p \in before'[t])
  <2>1. p \in Tasks /\ told[p] > 0 /\ (p \in applied /\ pc[t] # "idle" => p \in before[t])
    BY DEF Posted, DeskInv, DeskTypeOK
  <2>2. at[p] = "done"
    BY <2>1 DEF DeskInv, Posted
  <2> QED
    BY <2>1, <2>2, BeforeKept DEF Tasks
<1> QED
  BY <1>1, <1>2, <1>3 DEF Posted

\* Every step keeps what the tasks know true.
LEMMA DeskInvNext == BridgeSide /\ DeskInv /\ [DeskNext]_deskVars => DeskInv'
<1> SUFFICES ASSUME BridgeSide, DeskInv, [DeskNext]_deskVars PROVE DeskInv'
  OBVIOUS
<1>0. /\ task \in [Tasks -> TaskStage] /\ letter \in [Tasks -> Letters]
      /\ wire \in [Tasks -> Place]
      /\ told \in [Tasks -> {-1, 0, 200, 400, 401, 403, 409, 500}]
      /\ knew \in [Tasks -> SUBSET Tasks]
      /\ \A t \in Tasks : Posted(t)
  BY DEF DeskInv, DeskTypeOK
<1>1. [BridgeNext]_bridgeVars
  BY <1>0, DeskStepsBridge
<1>2. BridgeTypeOK'
  BY <1>1, BridgeInvNext DEF BridgeSide, BridgeInv
<1>3. ASSUME UNCHANGED bridgeVars
      PROVE  UNCHANGED <<at, status, request, applied, pc, before>>
  BY <1>3 DEF bridgeVars, http, vars, process, history
<1>4. ASSUME NEW t \in Tasks, StartTask(t)
      PROVE  DeskInv'
  <2>1. /\ UNCHANGED <<bridgeVars, letter, wire, told, knew>> /\ at[t] = "idle"
        /\ task[t] = "idle" /\ task' = [task EXCEPT ![t] = "working"]
    BY <1>4 DEF StartTask
  <2>2. task' \in [Tasks -> TaskStage]
    BY <1>0, <2>1 DEF TaskStage
  <2> QED
    BY <1>0, <1>2, <1>3, <2>1, <2>2 DEF DeskInv, DeskTypeOK, Posted
<1>5. ASSUME NEW t \in Tasks, EndWithoutMessage(t)
      PROVE  DeskInv'
  <2>1. /\ UNCHANGED <<bridgeVars, letter, wire, told, knew>>
        /\ task[t] = "working" /\ task' = [task EXCEPT ![t] = "done"]
    BY <1>5 DEF EndWithoutMessage
  <2>2. task' \in [Tasks -> TaskStage]
    BY <1>0, <2>1 DEF TaskStage
  <2> QED
    BY <1>0, <1>2, <1>3, <2>1, <2>2 DEF DeskInv, DeskTypeOK, Posted
<1>6. ASSUME NEW t \in Tasks, NEW b \in Letters, PostJson(t, b)
      PROVE  DeskInv'
  <2>1. /\ UNCHANGED <<bridgeVars, told>> /\ task[t] = "working"
        /\ task' = [task EXCEPT ![t] = "waiting"] /\ letter' = [letter EXCEPT ![t] = b]
        /\ wire' = [wire EXCEPT ![t] = "sent"]
        /\ knew' = [knew EXCEPT ![t] = {p \in Tasks : told[p] > 0}]
    BY <1>6 DEF PostJson
  <2>2. /\ task' \in [Tasks -> TaskStage] /\ letter' \in [Tasks -> Letters]
        /\ wire' \in [Tasks -> Place] /\ knew' \in [Tasks -> SUBSET Tasks]
    BY <1>0, <2>1 DEF TaskStage, Place
  <2>3. at[t] = "idle" /\ told[t] = -1
    BY <1>0, <2>1 DEF Posted
  <2>4. pc[t] = "idle"
    BY <2>3 DEF BridgeSide, BridgeInv, Linked, Tasks
  <2>5. Posted(t)'
    BY <1>0, <1>3, <2>1, <2>3, <2>4 DEF Posted
  <2>6. \A q \in Tasks \ {t} : Posted(q)'
    BY <1>0, <1>3, <2>1 DEF Posted
  <2> QED
    BY <1>0, <1>2, <2>1, <2>2, <2>5, <2>6 DEF DeskInv, DeskTypeOK
<1>7. ASSUME NEW t \in Tasks, NEW s \in {0, 200, 400, 401, 403, 409, 500}, Conclude(t, s),
             task[t] = "waiting", wire'[t] # "nowhere",
             s > 0 => wire[t] = "bridge" /\ at[t] = "done" /\ s = status[t],
             wire' = wire \/ (wire[t] = "sent" /\ wire' = [wire EXCEPT ![t] = "lost"])
      PROVE  DeskInv'
  <2>1. /\ UNCHANGED <<bridgeVars, letter, knew>>
        /\ task' = [task EXCEPT ![t] = "done"] /\ told' = [told EXCEPT ![t] = s]
    BY <1>7 DEF Conclude
  <2>2. /\ task' \in [Tasks -> TaskStage] /\ wire' \in [Tasks -> Place]
        /\ told' \in [Tasks -> {-1, 0, 200, 400, 401, 403, 409, 500}]
    BY <1>0, <1>7, <2>1 DEF TaskStage, Place
  <2>3. \A p \in Tasks : told[p] > 0 => told'[p] > 0
    BY <1>0, <1>7, <2>1 DEF Posted
  <2>4. \A p \in Tasks : p # t => task'[p] = task[p] /\ wire'[p] = wire[p] /\ told'[p] = told[p]
    BY <1>0, <1>7, <2>1
  <2>5. task'[t] = "done" /\ told'[t] = s
    BY <1>0, <2>1
  <2>6. wire'[t] = wire[t] \/ (wire[t] = "sent" /\ wire'[t] = "lost")
    BY <1>0, <1>7
  <2>7. \A p \in Tasks : knew[p] \subseteq Tasks
    BY <1>0
  <2>8. Posted(t)'
    BY <1>0, <1>3, <1>7, <2>1, <2>3, <2>5, <2>6, <2>7 DEF Posted
  <2>9. \A q \in Tasks \ {t} : Posted(q)'
    BY <1>0, <1>3, <2>1, <2>3, <2>4, <2>7 DEF Posted
  <2> QED
    BY <1>0, <1>2, <2>1, <2>2, <2>8, <2>9 DEF DeskInv, DeskTypeOK
<1>8. ASSUME NEW t \in Tasks, ReadAnswer(t) \/ Unreachable(t) \/ GiveUp(t)
      PROVE  DeskInv'
  <2>1. wire[t] # "nowhere"
    BY <1>0, <1>8 DEF ReadAnswer, Unreachable, GiveUp, Posted
  <2>2. CASE ReadAnswer(t)
    <3>1. status[t] \in {0, 200, 400, 401, 403, 409, 500}
      BY <2>2 DEF ReadAnswer, BridgeSide, BridgeInv, BridgeTypeOK, Tasks
    <3> QED
      BY <1>7, <2>1, <2>2, <3>1 DEF ReadAnswer
  <2>3. CASE Unreachable(t) \/ GiveUp(t)
    <3>1. wire'[t] # "nowhere"
      BY <1>0, <2>1, <2>3 DEF Unreachable, GiveUp
    <3> QED
      BY <1>7, <2>3, <3>1 DEF Unreachable, GiveUp
  <2> QED
    BY <1>8, <2>2, <2>3
<1>9. ASSUME UNCHANGED desk, \A t \in Tasks : task[t] # "idle" /\ wire[t] # "bridge" => at'[t] = "idle"
      PROVE  DeskInv'
  <2>1. task' = task /\ letter' = letter /\ wire' = wire /\ told' = told /\ knew' = knew
    BY <1>9 DEF desk
  <2>2. \A t \in Tasks : Posted(t)'
    BY <1>0, <1>1, <1>9, <2>1, PostedKept
  <2> QED
    BY <1>0, <1>2, <2>1, <2>2 DEF DeskInv, DeskTypeOK
<1>10. ASSUME NEW t \in Tasks, Deliver(t)
       PROVE  DeskInv'
  <2>1. /\ wire[t] = "sent" /\ Arrive(t, letter[t]) /\ wire' = [wire EXCEPT ![t] = "bridge"]
        /\ UNCHANGED <<task, letter, told, knew>>
    BY <1>10 DEF Deliver
  <2>2. letter[t] \in Bodies /\ t \in Requests /\ Acts(t)
    BY <1>0, <2>1, DeskAssumption DEF Tasks, Acts
  <2>3. wire' \in [Tasks -> Place]
    BY <1>0, <2>1 DEF Place
  <2>4. \A q \in Tasks \ {t} : Posted(q)'
    <3> SUFFICES ASSUME NEW q \in Tasks \ {t} PROVE Posted(q)'
      OBVIOUS
    <3>1. at'[q] = at[q]
      BY <2>2, OthersStay DEF BridgeSide, Tasks
    <3>2. wire'[q] = wire[q]
      BY <1>0, <2>1
    <3> QED
      BY <1>0, <1>1, <2>1, <3>1, <3>2, PostedKept DEF Posted
  <2>5. at[t] = "idle" /\ at'[t] # "idle" /\ request'[t] = letter[t]
    <3>1. request \in [Requests -> Body] /\ at \in [Requests -> HandlerStage]
      BY DEF BridgeSide, BridgeInv, BridgeTypeOK
    <3>2. request' = [request EXCEPT ![t] = letter[t]] /\ at[t] = "idle"
      BY <2>1, <2>2, ArriveLinked DEF BridgeSide
    <3>3. \E stage \in HandlerStage \ {"idle"} : at' = [at EXCEPT ![t] = stage]
      BY <2>1, <2>2, ArriveLinked DEF BridgeSide, EnterPipeline, Await, HandlerStage
    <3> QED
      BY <2>2, <3>1, <3>2, <3>3
  <2>6. ~(told[t] > 0)
    BY <1>0, <2>1, <2>5 DEF Posted
  <2>7. ASSUME NEW p \in knew[t]
        PROVE  told'[p] > 0 /\ (p \in applied' /\ pc'[t] # "idle" => p \in before'[t])
    <3>1. p \in Tasks /\ told[p] > 0 /\ (p \in applied /\ pc[t] # "idle" => p \in before[t])
      BY <1>0 DEF Posted
    <3>2. at[p] = "done"
      BY <1>0, <3>1 DEF Posted
    <3> QED
      BY <1>1, <2>1, <2>2, <3>1, <3>2, BeforeKept DEF Tasks
  <2>8. Posted(t)'
    <3>1. wire'[t] = "bridge" /\ task[t] # "idle" /\ task[t] # "working"
      BY <1>0, <2>1 DEF Posted
    <3> QED
      BY <1>0, <2>1, <2>5, <2>6, <2>7, <3>1 DEF Posted
  <2> QED
    BY <1>0, <1>2, <2>1, <2>3, <2>4, <2>8 DEF DeskInv, DeskTypeOK
<1>11. ASSUME NEW r \in Requests, NEW b \in Bodies \ Letters, ArriveDirectly(r, b)
       PROVE  DeskInv'
  <2>1. task[r] = "idle" /\ Acts(r) /\ UNCHANGED desk
    BY <1>11 DEF ArriveDirectly, Acts
  <2>2. \A t \in Tasks : task[t] # "idle" /\ wire[t] # "bridge" => at'[t] = "idle"
    BY <1>0, <2>1, OthersStay DEF BridgeSide, Tasks, Posted
  <2> QED
    BY <1>9, <2>1, <2>2
<1>12. ASSUME NEW r \in Requests, BridgeWorks(r)
       PROVE  DeskInv'
  <2>1. at[r] # "idle" /\ Acts(r) /\ UNCHANGED desk
    BY <1>12, HandleBusy DEF BridgeWorks, Acts
  <2>2. \A t \in Tasks : task[t] # "idle" /\ wire[t] # "bridge" => at'[t] = "idle"
    BY <1>0, <2>1, OthersStay DEF BridgeSide, Tasks, Posted
  <2> QED
    BY <1>9, <2>1, <2>2
<1>13. CASE (BridgeCrash /\ UNCHANGED desk) \/ UNCHANGED deskVars
  <2>1. UNCHANGED desk
    BY <1>13 DEF deskVars
  <2>2. \A t \in Tasks : at[t] = "idle" => at'[t] = "idle"
    BY <1>13 DEF BridgeCrash, Serving, Tasks, deskVars, bridgeVars, http
  <2>3. \A t \in Tasks : task[t] # "idle" /\ wire[t] # "bridge" => at'[t] = "idle"
    BY <1>0, <2>2 DEF Posted
  <2> QED
    BY <1>9, <2>1, <2>3
<1> QED
  BY <1>4, <1>5, <1>6, <1>8, <1>10, <1>11, <1>12, <1>13 DEF DeskNext, LoopEnds, AnswerStep

\* A task posts one of its letters.
LEMMA LettersOnly == DeskSpec => [](letter \in [Tasks -> Letters])
<1>1. DeskInit => letter \in [Tasks -> Letters]
  BY DeskAssumption DEF DeskInit
<1>2. letter \in [Tasks -> Letters] /\ [DeskNext]_deskVars => (letter \in [Tasks -> Letters])'
  <2> SUFFICES ASSUME letter \in [Tasks -> Letters], [DeskNext]_deskVars
               PROVE  letter' \in [Tasks -> Letters]
    OBVIOUS
  <2>1. ASSUME NEW t \in Tasks, StartTask(t) \/ LoopEnds(t) \/ AnswerStep(t) \/ Deliver(t)
        PROVE  letter' \in [Tasks -> Letters]
    BY <2>1 DEF StartTask, LoopEnds, AnswerStep, Deliver, EndWithoutMessage, PostJson, ReadAnswer,
                Unreachable, GiveUp, Conclude
  <2>2. ASSUME NEW r \in Requests,
               (\E b \in Bodies \ Letters : ArriveDirectly(r, b)) \/ BridgeWorks(r)
        PROVE  letter' = letter
    BY <2>2 DEF ArriveDirectly, BridgeWorks, desk
  <2>3. (BridgeCrash /\ UNCHANGED desk) \/ UNCHANGED deskVars => letter' = letter
    BY DEF desk, deskVars
  <2> QED
    BY <2>1, <2>2, <2>3 DEF DeskNext
<1> QED
  BY <1>1, <1>2, PTL DEF DeskSpec

\* Every behaviour of the desk is one of the bridge.
LEMMA DeskIsBridge == DeskSpec => BridgeSpec
<1>1. DeskInit => BridgeInit
  BY DEF DeskInit
<1> QED
  BY <1>1, LettersOnly, DeskStepsBridge, PTL DEF DeskSpec, BridgeSpec

\* What is known of the bridge and of the tasks holds in every reachable state.
LEMMA DeskInvariant == DeskSpec => [](BridgeSide /\ DeskInv)
<1>1. DeskInit => DeskInv
  <2> SUFFICES ASSUME DeskInit PROVE DeskInv
    OBVIOUS
  <2>1. BridgeTypeOK
    BY BridgeInvInit DEF DeskInit, BridgeInv
  <2>2. DeskTypeOK
    BY <2>1, DeskAssumption DEF DeskInit, DeskTypeOK, TaskStage, Place
  <2>3. \A t \in Tasks : Posted(t)
    BY DEF DeskInit, Posted
  <2> QED
    BY <2>2, <2>3 DEF DeskInv
<1>2. TypeOK /\ ControlOK /\ OnceInv => OnceInv
  OBVIOUS
<1>3. BridgeInv /\ AnswerInv /\ OnceInv => BridgeSide
  BY DEF BridgeSide
<1> QED
  BY <1>1, <1>2, <1>3, DeskInvNext, DeskIsBridge, BridgeInvariant, AnswerInvariant, BridgeIsShared,
     OnceInvariant, PTL DEF DeskSpec

\* Tasks, messages, answers and the bridge are well typed in every reachable
\* state.
THEOREM DeskTypeCorrect == DeskSpec => []DeskTypeOK
<1>1. DeskInv => DeskTypeOK
  BY DEF DeskInv
<1> QED
  BY <1>1, DeskInvariant, PTL

----------------------------------------------------------------------------
(* What an agent may conclude *)

\* What the bridge works on for a task is the letter the task posted.
LEMMA LetterServed ==
  ASSUME BridgeSide, DeskInv, NEW t \in Tasks, wire[t] # "nowhere", pc[t] # "idle"
  PROVE  /\ wire[t] = "bridge" /\ cmd(t) = letter[t].content
         /\ letter[t] \in Letters /\ cmd(t).type = "claim.settlement.approve"
<1>1. Posted(t) /\ Linked(t) /\ letter[t] \in Letters
  BY DEF DeskInv, DeskTypeOK, BridgeSide, BridgeInv, Tasks
<1>2. at[t] # "idle" /\ task[t] \in TaskStage
  BY <1>1 DEF Linked, DeskInv, DeskTypeOK
<1>3. wire[t] = "bridge"
  BY <1>1, <1>2 DEF Posted, TaskStage
<1> QED
  BY <1>1, <1>3, DeskAssumption DEF Posted, Linked, Carries

\* A refusal that a task read has changed nothing, and a 200 tells how the
\* command ended.
THEOREM AnswerIsTrueHolds == DeskSpec => []AnswerIsTrue
<1>1. BridgeSide /\ DeskInv /\ OutcomeInv => AnswerIsTrue
  <2> SUFFICES ASSUME BridgeSide, DeskInv, OutcomeInv, NEW t \in Tasks
               PROVE  /\ told[t] \in {400, 401, 403} => t \notin applied
                      /\ told[t] = 200 /\ letter[t].route = "commands" =>
                           \/ t \in applied /\ outcome[t] = "executed"
                           \/ t \notin applied /\ outcome[t] \in {"denied", "consumed"}
                           \/ outcome[t] = "dlq"
    BY DEF AnswerIsTrue
  <2>1. Posted(t) /\ Answered(t)
    BY DEF DeskInv, BridgeSide, AnswerInv, Tasks
  <2>2. ASSUME told[t] \in {400, 401, 403}
        PROVE  t \notin applied
    <3>1. pc[t] = "idle"
      BY <2>1, <2>2 DEF Posted, Answered
    <3> QED
      BY <3>1 DEF BridgeSide, OnceInv, Tasks
  <2>3. ASSUME told[t] = 200, letter[t].route = "commands"
        PROVE  outcome[t] \in {"executed", "denied", "consumed", "dlq"}
    BY <2>1, <2>3 DEF Posted, Answered
  <2> QED
    BY <2>2, <2>3 DEF OutcomeInv, Tasks
<1> QED
  BY <1>1, DeskInvariant, DeskIsBridge, BridgeIsShared, OutcomeInvariant, PTL

\* An agent that waits for its answers settles no claim twice.
THEOREM TwiceOnlyUnansweredHolds == DeskSpec => []TwiceOnlyUnanswered
<1>1. BridgeSide /\ DeskInv /\ SerialDecisions => TwiceOnlyUnanswered
  <2> SUFFICES ASSUME BridgeSide, DeskInv, SerialDecisions, NEW q \in Tasks \cap applied,
                      NEW p \in knew[q] \cap applied, cmd(p).claim_id = cmd(q).claim_id
               PROVE  FALSE
    BY DEF TwiceOnlyUnanswered
  <2>1. Posted(q) /\ p \in Tasks
    BY DEF DeskInv, DeskTypeOK
  <2>2. pc[p] # "idle" /\ pc[q] # "idle"
    BY <2>1 DEF BridgeSide, OnceInv, Tasks
  <2>3. p \in before[q] /\ told[p] > 0 /\ wire[q] # "nowhere"
    BY <2>1, <2>2 DEF Posted
  <2>4. wire[p] # "nowhere"
    BY <2>1, <2>3 DEF DeskInv, Posted
  <2>5. cmd(p).type = "claim.settlement.approve" /\ cmd(q).type = "claim.settlement.approve"
    BY <2>1, <2>2, <2>3, <2>4, LetterServed
  <2> QED
    BY <2>3, <2>5 DEF SerialDecisions, IsClaimCommand
<1>2. AppliedAtMostOnce /\ AuditedBeforeApplied /\ LockedOut
      /\ TruthfulOutcome /\ EffectAuthorised /\ SettlementCovers
      /\ BooksAgree /\ NoSilentLoss /\ SerialDecisions => SerialDecisions
  OBVIOUS
<1> QED
  BY <1>1, <1>2, DeskInvariant, DeskIsBridge, BridgeKeepsPipeline, PTL

\* An escalation answered 200 can be found among the approvals, or its
\* correlation id was taken by another content.
THEOREM EscalationQueuedHolds == DeskSpec => []EscalationQueued
<1>1. BridgeSide /\ DeskInv /\ OriginInv => EscalationQueued
  <2> DEFINE Found(t) ==
        \E a \in approbations :
          /\ a.correlation_id = letter[t].correlation
          /\ a.claim_id = letter[t].content.claim_id
          /\ a.montant_eur = letter[t].content.amount
      Taken(t) ==
        \E r \in Requests \ {t} :
          /\ at[r] # "idle" /\ request[r].route \in {"commands", "approvals"}
          /\ request[r].correlation = letter[t].correlation
          /\ request[r].content # letter[t].content
      Left(t) == \E a \in Backlog : a.correlation_id = letter[t].correlation
  <2> SUFFICES ASSUME BridgeSide, DeskInv, OriginInv, NEW t \in Tasks,
                      told[t] = 200, letter[t].route = "approvals"
               PROVE  Found(t) \/ Taken(t) \/ Left(t)
    BY DEF EscalationQueued
  <2>1. Posted(t) /\ Answered(t) /\ letter[t] \in Letters
    BY DEF DeskInv, DeskTypeOK, BridgeSide, AnswerInv, Tasks
  <2>2. request[t] = letter[t] /\ HasApprobation(letter[t].correlation)
    BY <2>1 DEF Posted, Answered
  <2>3. PICK a \in approbations : a.correlation_id = letter[t].correlation
    BY <2>2 DEF HasApprobation
  <2>4. CASE ~Left(t)
    <3>1. PICK r \in Requests :
            /\ at[r] # "idle" /\ request[r].route \in {"commands", "approvals"}
            /\ request[r].correlation = letter[t].correlation
            /\ request[r].content.type = a.type
            /\ request[r].content.claim_id = a.claim_id
            /\ a.type = "claim.settlement.approve" => request[r].content.amount = a.montant_eur
      BY <2>3, <2>4 DEF OriginInv, Asked
    <3>2. CASE request[r].content = letter[t].content
      <4>1. letter[t].content.type = "claim.settlement.approve"
        BY <2>1, DeskAssumption
      <4> QED
        BY <2>3, <3>1, <3>2, <4>1
    <3>3. CASE request[r].content # letter[t].content
      BY <2>2, <3>1, <3>3
    <3> QED
      BY <3>2, <3>3
  <2> QED
    BY <2>4
<1> QED
  BY <1>1, DeskInvariant, DeskIsBridge, OriginInvariant, PTL

----------------------------------------------------------------------------
(* The bridge is a courier *)

\* Whatever is lost, late or given up, a message acts once at most, and never
\* after its sender read an answer.
THEOREM DeskRefinesCourier == DeskSpec => ImplementsCourier
<1> DEFINE S == {t \in Tasks : wire[t] # "nowhere"}
           A == {t \in applied : wire[t] # "nowhere"}
           N == {t \in Tasks : told[t] > 0}
<1>1. DeskInit => Mail!Init
  BY DEF DeskInit, BridgeInit, Init, Mail!Init
<1>2. BridgeSide /\ DeskInv /\ [DeskNext]_deskVars => [Mail!Next]_<<S, A, N>>
  <2> SUFFICES ASSUME BridgeSide, DeskInv, [DeskNext]_deskVars
               PROVE  Mail!Next \/ UNCHANGED <<S, A, N>>
    OBVIOUS
  <2>0. /\ wire \in [Tasks -> Place] /\ told \in [Tasks -> {-1, 0, 200, 400, 401, 403, 409, 500}]
        /\ applied \subseteq Tasks /\ \A t \in Tasks : Posted(t)
    BY DEF DeskInv, DeskTypeOK, BridgeTypeOK, TypeOK, Tasks
  <2>1. UNCHANGED bridgeVars => applied' = applied
    BY DEF bridgeVars, vars, history
  <2>2. ASSUME NEW t \in Tasks, StartTask(t) \/ EndWithoutMessage(t)
        PROVE  UNCHANGED <<S, A, N>>
    BY <2>1, <2>2 DEF StartTask, EndWithoutMessage
  <2>3. ASSUME NEW t \in Tasks, NEW b \in Letters, PostJson(t, b)
        PROVE  Mail!Next
    <3>1. wire[t] = "nowhere" /\ at[t] = "idle" /\ wire' = [wire EXCEPT ![t] = "sent"]
          /\ told' = told /\ applied' = applied
      BY <2>0, <2>1, <2>3 DEF PostJson, Posted
    <3>2. t \notin applied
      BY <3>1 DEF BridgeSide, BridgeInv, Linked, OnceInv, Tasks
    <3>3. t \notin S /\ S' = S \cup {t} /\ A' = A /\ N' = N
      BY <2>0, <3>1, <3>2
    <3>4. Mail!Send(t)
      BY <3>3 DEF Mail!Send
    <3> QED
      BY <3>4 DEF Mail!Next
  <2>4. ASSUME NEW t \in Tasks, ReadAnswer(t) \/ Unreachable(t) \/ GiveUp(t)
        PROVE  Mail!Next \/ UNCHANGED <<S, A, N>>
    <3>1. task[t] = "waiting" /\ wire[t] # "nowhere" /\ ~(told[t] > 0) /\ applied' = applied
      BY <2>0, <2>1, <2>4 DEF ReadAnswer, Unreachable, GiveUp, Conclude, Posted
    <3>2. \E s : told' = [told EXCEPT ![t] = s] /\ (s > 0 \/ s = 0)
      BY <2>4 DEF ReadAnswer, Unreachable, GiveUp, Conclude
    <3>3. wire' = wire \/ wire' = [wire EXCEPT ![t] = "lost"]
      BY <2>4 DEF ReadAnswer, Unreachable, GiveUp
    <3>4. S' = S /\ A' = A
      BY <2>0, <3>1, <3>3
    <3>5. N' = N \/ (t \notin N /\ N' = N \cup {t})
      BY <2>0, <3>1, <3>2
    <3>6. t \in S
      BY <3>1
    <3>7. t \notin N /\ N' = N \cup {t} => Mail!Answer(t)
      BY <3>4, <3>6 DEF Mail!Answer
    <3> QED
      BY <3>4, <3>5, <3>7 DEF Mail!Next
  <2>5. ASSUME UNCHANGED told, [BridgeNext]_bridgeVars,
               \A t \in Tasks : wire'[t] = "nowhere" <=> wire[t] = "nowhere"
        PROVE  Mail!Next \/ UNCHANGED <<S, A, N>>
    <3>1. S' = S /\ N' = N
      BY <2>5
    <3>2. CASE applied' = applied
      BY <2>0, <2>5, <3>1, <3>2
    <3>3. CASE applied' # applied
      <4>1. PICK p \in Tasks : at[p] = "pipeline" /\ applied' = applied \cup {p} /\ p \notin applied
        BY <2>5, <3>3, AppliedNow DEF BridgeSide, Tasks
      <4>2. p \notin N
        BY <2>0, <4>1 DEF Posted
      <4>3. CASE wire[p] = "nowhere"
        <5>1. A' = A
          BY <2>0, <2>5, <4>1, <4>3
        <5> QED
          BY <3>1, <5>1
      <4>4. CASE wire[p] # "nowhere"
        <5>1. A' = A \cup {p} /\ p \notin A /\ p \in S
          BY <2>0, <2>5, <4>1, <4>4
        <5>2. Mail!Act(p)
          BY <3>1, <4>2, <5>1 DEF Mail!Act
        <5> QED
          BY <5>2 DEF Mail!Next
      <4> QED
        BY <4>3, <4>4
    <3> QED
      BY <3>2, <3>3
  <2>6. ASSUME NEW t \in Tasks, Deliver(t)
        PROVE  Mail!Next \/ UNCHANGED <<S, A, N>>
    <3>1. UNCHANGED told /\ wire[t] = "sent" /\ wire' = [wire EXCEPT ![t] = "bridge"]
      BY <2>6 DEF Deliver
    <3>2. \A q \in Tasks : wire'[q] = "nowhere" <=> wire[q] = "nowhere"
      BY <2>0, <3>1
    <3> QED
      BY <2>5, <3>1, <3>2, DeskStepsBridge DEF DeskInv, DeskTypeOK
  <2>7. ASSUME UNCHANGED desk
        PROVE  Mail!Next \/ UNCHANGED <<S, A, N>>
    <3>1. UNCHANGED told /\ wire' = wire
      BY <2>7 DEF desk
    <3> QED
      BY <2>5, <3>1, DeskStepsBridge DEF DeskInv, DeskTypeOK
  <2>8. ASSUME NEW r \in Requests,
               (\E b \in Bodies \ Letters : ArriveDirectly(r, b)) \/ BridgeWorks(r)
        PROVE  UNCHANGED desk
    BY <2>8 DEF ArriveDirectly, BridgeWorks
  <2>9. UNCHANGED deskVars => UNCHANGED desk
    BY DEF deskVars
  <2> QED
    BY <2>2, <2>3, <2>4, <2>6, <2>7, <2>8, <2>9 DEF DeskNext, LoopEnds, AnswerStep
<1> QED
  BY <1>1, <1>2, DeskInvariant, PTL DEF DeskSpec, ImplementsCourier, Mail!Spec

----------------------------------------------------------------------------
(* What the bridge promises, under its callers *)

\* The properties of the pipeline and of the handlers hold under agents
\* that lose messages and give up waiting (client.ts:108).
THEOREM DeskKeepsBridge ==
  DeskSpec =>
    /\ [](/\ AppliedAtMostOnce /\ AuditedBeforeApplied /\ LockedOut
          /\ TruthfulOutcome /\ EffectAuthorised /\ SettlementCovers
          /\ BooksAgree /\ NoSilentLoss /\ SerialDecisions)
    /\ [](OneDecision /\ LargeClaimNeedsCeo)
    /\ ApprovalsOnlyMoveOn /\ SwitchMovedOnce /\ ImplementsRegister
BY DeskIsBridge, BridgeKeepsPipeline, OneDecisionHolds, LargeClaimHolds, ApprovalsMoveOnHolds,
   SwitchMovedOnceHolds, BridgeRefinesRegister, PTL

=============================================================================
