--------------------------------- MODULE Desk ---------------------------------
(***************************************************************************)
(* A Hermes agent at work with the bridge: tasks of the agent post their   *)
(* recommendation over HTTP (bridge/client.ts) to the handlers of module   *)
(* Bridge, while the CEO posts to the bridge directly.                     *)
(*                                                                         *)
(* postJson waits 10 s for the answer.  The bridge does not notice that    *)
(* its caller has gone: a message given up, even one that had not been     *)
(* read from the socket yet, is handled like any other.  Messages and      *)
(* answers may be lost.  A task that is started again recommends the same  *)
(* claim under another requested_at, so that its content is a new one.     *)
(*                                                                         *)
(* The loop of the agent before the message is module AgentTask; here it   *)
(* is one step that ends with any recommendation or none, which covers     *)
(* whatever the language model and the kill-switch gates decide.           *)
(***************************************************************************)
EXTENDS Bridge

CONSTANT Letters   \* the messages a task may post; the others are posted directly

\* buildSettlementCommand, or the settlement an approval is asked for; no event.
ASSUME DeskAssumption ==
  /\ Letters \subseteq Bodies /\ Letters # {}
  /\ \A b \in Letters :
       /\ b.route \in {"commands", "approvals"} /\ b.event = "none"
       /\ b.content.type = "claim.settlement.approve"

\* Each request is posted by a task of its own, or directly.
Tasks == Requests

VARIABLES
  task,      \* what each task is doing
  letter,    \* the message it posted
  wire,      \* where that message is
  told,      \* httpStatus it got: -1 no message, 0 unreachable or given up
  knew       \* history: the tasks already answered when this one posted

desk == <<task, letter, wire, told, knew>>
deskVars == <<bridgeVars, desk>>

TaskStage == {"idle", "working", "waiting", "done"}
Place == {"nowhere", "sent", "bridge", "lost"}

DeskInit ==
  /\ BridgeInit
  /\ task = [t \in Tasks |-> "idle"]
  /\ letter = [t \in Tasks |-> CHOOSE b \in Letters : TRUE]
  /\ wire = [t \in Tasks |-> "nowhere"]
  /\ told = [t \in Tasks |-> -1]
  /\ knew = [t \in Tasks |-> {}]

----------------------------------------------------------------------------
(* The agent *)

\* POST /task, or the autonomy timer.
StartTask(t) ==
  /\ task[t] = "idle" /\ at[t] = "idle"
  /\ task' = [task EXCEPT ![t] = "working"]
  /\ UNCHANGED <<bridgeVars, letter, wire, told, knew>>

\* The loop ends without a message: nothing recommended, or stopped.
EndWithoutMessage(t) ==
  /\ task[t] = "working"
  /\ task' = [task EXCEPT ![t] = "done"]
  /\ UNCHANGED <<bridgeVars, letter, wire, told, knew>>

\* postCommand or createApprobation: the fetch is started.
PostJson(t, b) ==
  /\ task[t] = "working"
  /\ task' = [task EXCEPT ![t] = "waiting"]
  /\ letter' = [letter EXCEPT ![t] = b]
  /\ wire' = [wire EXCEPT ![t] = "sent"]
  /\ knew' = [knew EXCEPT ![t] = {p \in Tasks : told[p] > 0}]
  /\ UNCHANGED <<bridgeVars, told>>

Conclude(t, s) ==
  /\ task' = [task EXCEPT ![t] = "done"]
  /\ told' = [told EXCEPT ![t] = s]
  /\ UNCHANGED <<bridgeVars, letter, knew>>

\* Mutant: a message the bridge has taken counts as accepted.
ReadAnswerEarly(t) ==
  /\ task[t] = "waiting" /\ wire[t] = "bridge"
  /\ Conclude(t, 200) /\ UNCHANGED wire

\* resp.status
ReadAnswer(t) ==
  /\ task[t] = "waiting" /\ wire[t] = "bridge"
  /\ at[t] = "done" /\ status[t] > 0
  /\ Conclude(t, status[t]) /\ UNCHANGED wire

\* The fetch rejects: no connection, or one that broke before the answer.
Unreachable(t) ==
  /\ task[t] = "waiting"
  /\ \/ wire[t] = "sent" /\ wire' = [wire EXCEPT ![t] = "lost"]
     \/ wire[t] = "bridge" /\ at[t] = "done" /\ UNCHANGED wire
  /\ Conclude(t, 0)

\* Mutant: the time-out ends with the connection.
GiveUpConnecting(t) ==
  /\ task[t] = "waiting" /\ wire[t] = "sent"
  /\ Conclude(t, 0) /\ UNCHANGED wire

\* AbortSignal.timeout: wherever the message is, it stays there.
GiveUp(t) ==
  /\ task[t] = "waiting"
  /\ Conclude(t, 0) /\ UNCHANGED wire

----------------------------------------------------------------------------
(* The bridge *)

\* The message of a task arrives, perhaps after its sender gave up.
Deliver(t) ==
  /\ wire[t] = "sent"
  /\ Arrive(t, letter[t])
  /\ wire' = [wire EXCEPT ![t] = "bridge"]
  /\ UNCHANGED <<task, letter, told, knew>>

\* The CEO, or another program, posts directly.
ArriveDirectly(r, b) == task[r] = "idle" /\ Arrive(r, b) /\ UNCHANGED desk

BridgeWorks(r) == Handle(r) /\ UNCHANGED desk

LoopEnds(t) == EndWithoutMessage(t) \/ \E b \in Letters : PostJson(t, b)
AnswerStep(t) == ReadAnswer(t) \/ Unreachable(t) \/ GiveUp(t)

DeskNext ==
  \/ \E t \in Tasks : StartTask(t) \/ LoopEnds(t) \/ AnswerStep(t) \/ Deliver(t)
  \/ \E r \in Requests : (\E b \in Bodies \ Letters : ArriveDirectly(r, b)) \/ BridgeWorks(r)
  \/ BridgeCrash /\ UNCHANGED desk

DeskSpec == DeskInit /\ [][DeskNext]_deskVars

\* The event loop of the agent fires the timer of a fetch and resumes its task.
\* Nothing else is owed: the bridge and the network may stop for good, and so
\* may the loop before the message (its queries have no time-out).
AgentFairness == \A t \in Tasks : WF_deskVars(AnswerStep(t))
DeskFairSpec == DeskSpec /\ AgentFairness

----------------------------------------------------------------------------
(* Properties *)

\* Types of the agent's side, on top of the bridge's.
DeskTypeOK ==
  /\ BridgeTypeOK
  /\ task \in [Tasks -> TaskStage] /\ letter \in [Tasks -> Letters]
  /\ wire \in [Tasks -> Place]
  /\ told \in [Tasks -> {-1, 0, 200, 400, 401, 403, 409, 500}]
  /\ knew \in [Tasks -> SUBSET Tasks]

\* What a task may rely on: whatever is lost, late or given up, its message
\* has one effect at most, and none once the bridge has answered it.
Mail == INSTANCE Courier WITH
  Messages <- Tasks,
  sent <- {t \in Tasks : wire[t] # "nowhere"},
  acted <- {t \in applied : wire[t] # "nowhere"},
  answered <- {t \in Tasks : told[t] > 0}

ImplementsCourier == Mail!Spec

\* An agent that learned the answer of one recommendation before it posted the
\* next settles no claim twice, though the second is a new content for the
\* bridge: two settlements of one claim by tasks need a message that was given
\* up (client.ts:108) or tasks that overlap (the autonomy timer does not wait).
TwiceOnlyUnanswered ==
  \A q \in Tasks \cap applied : \A p \in knew[q] \cap applied :
    cmd(p).claim_id # cmd(q).claim_id

\* An escalation answered 200 is in the CEO's queue or was decided there, with
\* its claim and amount, unless another content came under its correlation id,
\* or an earlier process left a row there (createApprobation inserts nothing
\* then and the answer is the same).
EscalationQueued ==
  \A t \in Tasks :
    told[t] = 200 /\ letter[t].route = "approvals" =>
      \/ \E a \in approbations :
           /\ a.correlation_id = letter[t].correlation
           /\ a.claim_id = letter[t].content.claim_id
           /\ a.montant_eur = letter[t].content.amount
      \/ \E r \in Requests \ {t} :
           /\ at[r] # "idle" /\ request[r].route \in {"commands", "approvals"}
           /\ request[r].correlation = letter[t].correlation
           /\ request[r].content # letter[t].content
      \/ \E a \in Backlog : a.correlation_id = letter[t].correlation

\* A refusal is final and an error is told: a task that reads 400, 401 or 403
\* has changed nothing, and one that reads 200 for a command has been handled
\* to the end: applied, refused, or among the dead letters until a crash.
AnswerIsTrue ==
  \A t \in Tasks :
    /\ told[t] \in {400, 401, 403} => t \notin applied
    /\ told[t] = 200 /\ letter[t].route = "commands" =>
         \/ t \in applied /\ outcome[t] = "executed"
         \/ t \notin applied /\ outcome[t] \in {"denied", "consumed"}
         \/ outcome[t] = "dlq"

\* A task that has posted ends, also when the bridge hangs, dies or never
\* answers: the time-out of postJson is what frees it.  A task ends from its
\* start on if its loop does, which its queries may hold up for good.
EveryTaskEnds ==
  /\ \A t \in Tasks : task[t] = "waiting" ~> task[t] = "done"
  /\ (\A t \in Tasks : WF_deskVars(LoopEnds(t))) =>
       \A t \in Tasks : task[t] = "working" ~> task[t] = "done"

\* The other half, when the bridge does its work: every request that reached
\* it is answered, whether or not the task that posted it is still waiting.
EveryRequestServed ==
  (\A r \in Requests : WF_deskVars(BridgeWorks(r))) =>
    \A r \in Requests : Serving(r) ~> at[r] = "done"
=============================================================================
