------------------------------ MODULE AgentTask ------------------------------
(***************************************************************************)
(* The task loop of a Hermes agent (runtime/agent.ts runTask) over its     *)
(* kill-switch probe.  Tasks come from POST /task and from the autonomy    *)
(* timer, which does not wait for the previous one: they overlap.          *)
(*                                                                         *)
(* A task asks the probe before it starts, before every iteration and      *)
(* before the one message it may send to the bridge.  In an iteration the  *)
(* language model answers anything: an error, no tool call, or a sequence  *)
(* of calls, which the loop executes one after the other.                  *)
(*                                                                         *)
(* External, and modelled by what runTask can observe: the model (any      *)
(* answer), the bridge (a message arrives or not, and the caller may give  *)
(* up on one that arrived), the memory table (best effort).                *)
(***************************************************************************)
EXTENDS KillSwitchCache, Sequences

CONSTANTS
  MaxIterations,       \* MAX_ITERATIONS
  EscalationThreshold, \* cfg.escalationThresholdEur
  Registry,            \* tools of the registry
  Configured,          \* tools of the allowlist file
  ToolCalls,           \* calls the model may ask for
  MaxCalls             \* bound on the calls of one answer

\* amount: the settlement recommended, if the tool is recommander_reglement.
ToolCall == [tool : STRING, amount : Nat]

ASSUME LoopAssumption ==
  MaxIterations \in Nat \ {0} /\ MaxCalls \in Nat \ {0} /\ EscalationThreshold \in Int
ASSUME ToolCallsAssumption == ToolCalls \subseteq ToolCall

VARIABLES
  allowlist,    \* tools the process loaded at its start
  stage,        \* what each task is doing
  iteration,    \* its `iteration`
  recommended,  \* candidateCommand or pendingApproval: amount, and whether escalated
  reply,        \* httpStatus of the bridge: -1 no message, 0 unreachable, 200 any answer
  stopped,      \* stoppedByKillSwitch
  bridgeInbox,  \* messages that reached the bridge
  memory,       \* tasks with a row in memoire_agents
  \* history, read by properties only
  answeredAt,   \* time of the model's last answer
  wanted        \* amounts the model recommended with success

loop == <<allowlist, stage, iteration, recommended, reply, stopped, bridgeInbox, memory>>
taskHistory == <<answeredAt, wanted>>
taskVars == <<probeVars, loop, taskHistory>>

\* In the stages of Gates the task awaits isActive().
Gates == {"start", "iterate", "gate"}
TaskStage == {"idle", "chat", "send", "learn", "done"} \cup Gates

Nothing == [amount |-> 0, escalated |-> FALSE]

TaskInit ==
  /\ ProbeInit
  /\ allowlist \in {Configured, {}}
  /\ stage = [t \in Callers |-> "idle"]
  /\ iteration = [t \in Callers |-> 0]
  /\ recommended = [t \in Callers |-> Nothing]
  /\ reply = [t \in Callers |-> -1]
  /\ stopped = [t \in Callers |-> FALSE]
  /\ bridgeInbox = {} /\ memory = {}
  /\ answeredAt = [t \in Callers |-> 0] /\ wanted = [t \in Callers |-> {}]

Goto(t, s) == stage' = [stage EXCEPT ![t] = s]

\* runTask is left; its locals are gone.
End(t) ==
  /\ Goto(t, "done")
  /\ iteration' = [iteration EXCEPT ![t] = 0]
  /\ recommended' = [recommended EXCEPT ![t] = Nothing]

----------------------------------------------------------------------------
(* The gates *)

BeginTask(t) ==
  /\ stage[t] = "idle"
  /\ Goto(t, "start")
  /\ UNCHANGED <<probeVars, allowlist, iteration, recommended, reply, stopped, bridgeInbox,
                 memory, taskHistory>>

AskProbe(t) == stage[t] \in Gates /\ Probe(t) /\ UNCHANGED <<loop, taskHistory>>

\* Mutant: the gate before the message is left out.
AfterLoopUnguarded(r) == IF r = Nothing THEN "learn" ELSE "send"

AfterLoop(r) == IF r = Nothing THEN "learn" ELSE "gate"

\* Mutant: the loop is left instead of the task.
StopByBreak(t) == Goto(t, AfterLoop(recommended[t])) /\ UNCHANGED <<iteration, recommended>>

\* Active at the start or before an iteration: no message, no learning.
Stop(t) == End(t)

PassTaskGate(t) ==
  /\ stage[t] \in {"start", "iterate"} /\ Resume(t)
  /\ \/ active[t] /\ Stop(t) /\ stopped' = [stopped EXCEPT ![t] = TRUE]
     \/ /\ ~active[t] /\ Goto(t, IF stage[t] = "start" THEN "iterate" ELSE "chat")
        /\ UNCHANGED <<iteration, recommended, stopped>>
  /\ UNCHANGED <<allowlist, reply, bridgeInbox, memory, taskHistory>>

\* Active before the message: it is not sent, and the task goes on.
PassMessageGate(t) ==
  /\ stage[t] = "gate" /\ Resume(t)
  /\ Goto(t, IF active[t] THEN "learn" ELSE "send")
  /\ UNCHANGED <<allowlist, iteration, recommended, reply, stopped, bridgeInbox, memory,
                 taskHistory>>

----------------------------------------------------------------------------
(* One iteration *)

\* executeOne: known to the registry and on the allowlist of this process.
Executable(wish) == wish.tool \in Registry \cap allowlist

\* The outcomes the calls may have: a read may fail, and a recommendation must
\* have an amount.
Ok(calls, ok) ==
  \A i \in DOMAIN calls :
    ok[i] => /\ Executable(calls[i])
             /\ calls[i].tool = "recommander_reglement" => calls[i].amount > 0

Escalates(amount) == amount > EscalationThreshold

\* The calls that recommended, by position.
Recommending(calls, ok) ==
  {i \in DOMAIN calls : ok[i] /\ calls[i].tool = "recommander_reglement"}

LastOf(calls, kept) ==
  IF kept = {} THEN Nothing
  ELSE LET last == CHOOSE i \in kept : \A j \in kept : j <= i
       IN [amount |-> calls[last].amount, escalated |-> Escalates(calls[last].amount)]

\* Mutant: the last recommendation wins, whether it escalates or not.
RecommendationLast(calls, ok) == LastOf(calls, Recommending(calls, ok))

\* The last escalation wins, else the last command; the others are dropped.
Recommendation(calls, ok) ==
  LET all == Recommending(calls, ok)
      escalations == {i \in all : Escalates(calls[i].amount)}
  IN LastOf(calls, IF escalations # {} THEN escalations ELSE all)

\* Mutant: one iteration too many.
MoreIterationsInclusive(i) == i <= MaxIterations

MoreIterations(i) == i < MaxIterations

\* The model answers with calls and the loop executes them.
Iterate(t, calls, ok) ==
  /\ stage[t] = "chat" /\ Ok(calls, ok)
  /\ LET r == Recommendation(calls, ok)
         again == r = Nothing /\ (\E i \in DOMAIN calls : ok[i])
                    /\ MoreIterations(iteration[t] + 1)
     IN /\ recommended' = [recommended EXCEPT ![t] = r]
        /\ Goto(t, IF again THEN "iterate" ELSE AfterLoop(r))
  /\ iteration' = [iteration EXCEPT ![t] = @ + 1]
  /\ answeredAt' = [answeredAt EXCEPT ![t] = now]
  /\ wanted' = [wanted EXCEPT ![t] = @ \cup {calls[i].amount : i \in Recommending(calls, ok)}]
  /\ UNCHANGED <<probeVars, allowlist, reply, stopped, bridgeInbox, memory>>

\* The model answers without a call, or fails: the loop is left.
LeaveLoop(t) ==
  /\ stage[t] = "chat"
  /\ Goto(t, AfterLoop(recommended[t]))
  /\ answeredAt' = [answeredAt EXCEPT ![t] = now]
  /\ UNCHANGED <<probeVars, allowlist, iteration, recommended, reply, stopped, bridgeInbox,
                 memory, wanted>>

\* The arguments of an executable call are no JSON any more once scrubbed:
\* JSON.parse throws out of runTask.
ScrubBreaksArguments(t) ==
  /\ stage[t] = "chat" /\ Registry \cap allowlist # {}
  /\ End(t)
  /\ UNCHANGED <<probeVars, allowlist, reply, stopped, bridgeInbox, memory, taskHistory>>

----------------------------------------------------------------------------
(* The message to the bridge, and what the task remembers *)

Message(t) == [task |-> t, amount |-> recommended[t].amount,
               route |-> IF recommended[t].escalated THEN "approvals" ELSE "commands"]

\* postJson: an answer, or after a refusal or 10 s the status 0, in which case
\* the message may have arrived all the same.
SendMessage(t) ==
  /\ stage[t] = "send"
  /\ \/ /\ bridgeInbox' = bridgeInbox \cup {Message(t)}
        /\ \E s \in {0, 200} : reply' = [reply EXCEPT ![t] = s]
     \/ UNCHANGED bridgeInbox /\ reply' = [reply EXCEPT ![t] = 0]
  /\ Goto(t, "learn")
  /\ UNCHANGED <<probeVars, allowlist, iteration, recommended, stopped, memory, taskHistory>>

\* storeLearning, then the result.
StoreLearning(t) ==
  /\ stage[t] = "learn"
  /\ memory' \in {memory, memory \cup {t}}
  /\ End(t)
  /\ UNCHANGED <<probeVars, allowlist, reply, stopped, bridgeInbox, taskHistory>>

Running(t) == stage[t] \notin {"idle", "done"}

\* The process restarts: its tasks are gone, the allowlist is read again.
RestartAgent ==
  /\ cache.known \/ \E t \in Callers : Running(t)
  /\ Restart
  /\ stage' = [t \in Callers |-> IF Running(t) THEN "done" ELSE stage[t]]
  /\ allowlist' \in {Configured, {}}
  /\ iteration' = [t \in Callers |-> 0] /\ recommended' = [t \in Callers |-> Nothing]
  /\ UNCHANGED <<reply, stopped, bridgeInbox, memory, taskHistory>>

----------------------------------------------------------------------------
CallSequences == UNION {[1 .. n -> ToolCalls] : n \in 1 .. MaxCalls}

TaskStep(t) ==
  \/ AskProbe(t) \/ PassTaskGate(t) \/ PassMessageGate(t)
  \/ \E calls \in CallSequences : \E ok \in [DOMAIN calls -> BOOLEAN] : Iterate(t, calls, ok)
  \/ LeaveLoop(t) \/ ScrubBreaksArguments(t) \/ SendMessage(t) \/ StoreLearning(t)

World == (MoveSwitch \/ Tick) /\ UNCHANGED <<loop, taskHistory>>

TaskNext == World \/ RestartAgent \/ \E t \in Callers : BeginTask(t) \/ TaskStep(t)

TaskSpec == TaskInit /\ [][TaskNext]_taskVars
----------------------------------------------------------------------------
(* Properties *)

\* Types of the loop's state, on top of the probe's.
TaskTypeOK ==
  /\ ProbeTypeOK
  /\ allowlist \in {Configured, {}} /\ stage \in [Callers -> TaskStage]
  /\ iteration \in [Callers -> 0 .. MaxIterations]
  /\ recommended \in [Callers -> [amount : Nat, escalated : BOOLEAN]]
  /\ reply \in [Callers -> {-1, 0, 200}] /\ stopped \in [Callers -> BOOLEAN]
  /\ bridgeInbox \subseteq [task : Callers, amount : Nat, route : {"commands", "approvals"}]
  /\ memory \subseteq Callers

\* The kill-switch reaches the bridge's door (interface.md:28 of the
\* orchestrator): when a task sent a message and its last probe did not fail,
\* the switch was off less than CacheMs before the model had recommended it,
\* however long the model took and whatever the other tasks did to the cache.
SentOnlyUnlocked ==
  \A m \in bridgeInbox : ~failed[m.task] => lastOff > answeredAt[m.task] - CacheMs

\* A task stopped by the kill-switch has sent nothing and learned nothing, at
\* its start (killswitch.test.ts) as in the middle of its loop.
StoppedLeavesNoTrace ==
  \A t \in Callers : stopped[t] => t \notin memory /\ reply[t] = -1
                                   /\ \A m \in bridgeInbox : m.task # t

\* "NEVER self-settle" (tools.ts): once the model recommended an amount above
\* the threshold, the task sends no command, whatever else it recommended, and
\* each message is one of its recommendations on the route its amount asks for.
NeverSelfSettles ==
  \A m \in bridgeInbox :
    /\ m.amount \in wanted[m.task]
    /\ m.route = "approvals" <=> Escalates(m.amount)
    /\ m.route = "commands" => \A a \in wanted[m.task] : ~Escalates(a)
=============================================================================
