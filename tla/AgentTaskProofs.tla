-------------------------- MODULE AgentTaskProofs --------------------------
(***************************************************************************)
(* Proofs about the task loop: it uses the probe as the probe's            *)
(* specification allows, and whatever it sends to the bridge was gated,    *)
(* for any number of overlapping tasks, any tools and any bounds.          *)
(***************************************************************************)
EXTENDS AgentTask, KillSwitchCacheProofs, WellFoundedInduction

----------------------------------------------------------------------------
(* The loop uses the probe as specified. *)

\* Every step of the loop is a step of the probe or leaves the probe alone.
LEMMA TaskNextProbes == TaskNext => [ProbeNext]_probeVars
<1> SUFFICES ASSUME TaskNext PROVE ProbeNext \/ UNCHANGED probeVars  OBVIOUS
<1>1. CASE World  BY <1>1 DEF World, ProbeNext
<1>2. CASE RestartAgent  BY <1>2 DEF RestartAgent, ProbeNext
<1>3. ASSUME NEW t \in Callers, BeginTask(t) PROVE UNCHANGED probeVars
  BY <1>3 DEF BeginTask
<1>4. ASSUME NEW t \in Callers, TaskStep(t) PROVE ProbeNext \/ UNCHANGED probeVars
  <2>1. CASE AskProbe(t)  BY <2>1 DEF AskProbe, ProbeNext
  <2>2. CASE PassTaskGate(t)  BY <2>2 DEF PassTaskGate, ProbeNext
  <2>3. CASE PassMessageGate(t)  BY <2>3 DEF PassMessageGate, ProbeNext
  <2>4. ASSUME NEW calls, NEW ok, Iterate(t, calls, ok) PROVE UNCHANGED probeVars
    BY <2>4 DEF Iterate
  <2>5. CASE LeaveLoop(t) \/ ScrubBreaksArguments(t) \/ SendMessage(t) \/ StoreLearning(t)
    BY <2>5 DEF LeaveLoop, ScrubBreaksArguments, SendMessage, StoreLearning
  <2> QED  BY <1>4, <2>1, <2>2, <2>3, <2>4, <2>5 DEF TaskStep
<1> QED  BY <1>1, <1>2, <1>3, <1>4 DEF TaskNext

\* The loop implements the probe's specification.
THEOREM TaskImplementsProbe == TaskSpec => ProbeSpec
<1>1. TaskInit => ProbeInit  BY DEF TaskInit
<1>2. [TaskNext]_taskVars => [ProbeNext]_probeVars  BY TaskNextProbes DEF taskVars
<1> QED  BY <1>1, <1>2, PTL DEF TaskSpec, ProbeSpec

\* Bounded staleness and fail-closed hold of the probes of a whole agent.
THEOREM TaskProbeSound == TaskSpec => [](BoundedStaleness /\ NeverOffFromNothing)
BY TaskImplementsProbe, ProbeSound, PTL

----------------------------------------------------------------------------
(* What is sent was gated. *)

LoopTypes == stage \in [Callers -> TaskStage] /\ answeredAt \in [Callers -> Nat]

\* The model's answers are not in the future.
AnswersPast == \A t \in Callers : answeredAt[t] <= now

\* A task waits for the probe only at a gate, and at the gate of its message it
\* asked after the model's answer.
ProbedAtGates ==
  \A t \in Callers :
    call[t] # "idle" => /\ stage[t] \in Gates
                        /\ stage[t] = "gate" => asked[t] >= answeredAt[t]

\* A task about to send was let through.
SendGated ==
  \A t \in Callers : stage[t] = "send" /\ ~failed[t] => lastOff > answeredAt[t] - CacheMs

\* A task that sent neither asks nor sends again.
SentIsOver == \A m \in bridgeInbox : m.task \in Callers /\ stage[m.task] \in {"learn", "done"}

\* The inductive invariant.
GateInv ==
  LoopTypes /\ AnswersPast /\ ProbedAtGates /\ SendGated /\ SentIsOver /\ SentOnlyUnlocked

\* At first no task waits at a gate.
LEMMA GateInit == TaskInit => GateInv
BY DEF TaskInit, ProbeInit, GateInv, LoopTypes, AnswersPast, ProbedAtGates, SendGated,
       SentIsOver, SentOnlyUnlocked, TaskStage, Gates

\* Time and the switch move: lastOff only grows.
LEMMA GateWorld == ProbeInv /\ GateInv /\ World => GateInv'
<1> SUFFICES ASSUME ProbeInv, GateInv, World PROVE GateInv'  OBVIOUS
<1>1. now \in Nat /\ lastOff \in Int /\ CacheMs \in Nat /\ lastOff <= now
  BY CacheAssumption DEF ProbeInv, ProbeTypeOK, ClockOK
<1>2. UNCHANGED <<probe, loop, taskHistory>>  BY DEF World, MoveSwitch, Tick
<1>3. now' \in Nat /\ lastOff' \in Int /\ now <= now' /\ lastOff <= lastOff'
  BY <1>1 DEF World, MoveSwitch, Tick
<1>4. (LoopTypes /\ AnswersPast)'
  BY <1>1, <1>2, <1>3 DEF GateInv, LoopTypes, AnswersPast, loop, taskHistory
<1>5. (ProbedAtGates /\ SentIsOver)'
  BY <1>2 DEF GateInv, ProbedAtGates, SentIsOver, probe, loop, taskHistory
<1>6. SendGated'
  BY <1>1, <1>2, <1>3 DEF GateInv, LoopTypes, SendGated, probe, loop, taskHistory
<1>7. SentOnlyUnlocked'
  BY <1>1, <1>2, <1>3
  DEF GateInv, LoopTypes, SentIsOver, SentOnlyUnlocked, probe, loop, taskHistory
<1> QED  BY <1>4, <1>5, <1>6, <1>7 DEF GateInv

\* Awaiting the probe: the clock is noted when the call is made.
LEMMA GateAsk ==
  ASSUME ProbeInv, GateInv, NEW t \in Callers, AskProbe(t) PROVE GateInv'
<1>1. now \in Nat /\ call \in [Callers -> {"idle", "reading", "read", "returned"}]
      /\ asked \in [Callers -> Nat] /\ failed \in [Callers -> BOOLEAN]
  BY DEF ProbeInv, ProbeTypeOK
<1>2. stage[t] \in Gates /\ UNCHANGED <<loop, taskHistory, switch>>
  BY DEF AskProbe, Probe, IsActive, ReadRow, Store, ReadFails
<1>3. (LoopTypes /\ AnswersPast /\ SentIsOver)'
  BY <1>2 DEF GateInv, LoopTypes, AnswersPast, SentIsOver, loop, taskHistory, switch
<1>4. \A u \in Callers \ {t} : UNCHANGED <<call[u], asked[u], failed[u]>>
  BY <1>1 DEF AskProbe, Probe, IsActive, ReadRow, Store, ReadFails, Return
<1>5. \/ call[t] = "idle" /\ asked'[t] = now
      \/ call[t] # "idle" /\ asked'[t] = asked[t]
  <2>1. CASE IsActive(t)
    <3>1. call[t] = "idle" /\ asked' = [asked EXCEPT ![t] = now]  BY <2>1 DEF IsActive
    <3> QED  BY <1>1, <3>1
  <2>2. CASE ReadRow(t) \/ Store(t) \/ ReadFails(t)
    BY <1>1, <2>2 DEF ReadRow, Store, ReadFails
  <2> QED  BY <2>1, <2>2 DEF AskProbe, Probe
<1>6. ProbedAtGates'
  BY <1>1, <1>2, <1>4, <1>5
  DEF GateInv, LoopTypes, AnswersPast, ProbedAtGates, loop, taskHistory
<1>7. SendGated' /\ SentOnlyUnlocked'
  BY <1>2, <1>4
  DEF GateInv, SendGated, SentIsOver, SentOnlyUnlocked, Gates, loop, taskHistory, switch
<1> QED  BY <1>3, <1>6, <1>7 DEF GateInv

\* Leaving a gate: to "send" only with an "inactive" of bounded age.
LEMMA GatePass ==
  ASSUME ProbeInv, GateInv, NEW t \in Callers, PassTaskGate(t) \/ PassMessageGate(t)
  PROVE GateInv'
<1>1. /\ call \in [Callers -> {"idle", "reading", "read", "returned"}]
      /\ asked \in [Callers -> Nat] /\ lastOff \in Int /\ CacheMs \in Nat
  BY CacheAssumption DEF ProbeInv, ProbeTypeOK
<1>2. stage[t] \in Gates /\ UNCHANGED <<failed, switch, taskHistory, bridgeInbox>>
  BY DEF PassTaskGate, PassMessageGate, Resume, Gates
<1>3. PICK s \in TaskStage : Goto(t, s) /\ (s = "send" => PassMessageGate(t) /\ ~active[t])
  BY DEF PassTaskGate, PassMessageGate, Stop, End, TaskStage, Gates
<1>4. call' = [call EXCEPT ![t] = "idle"] /\ asked' = [asked EXCEPT ![t] = 0]
  BY DEF PassTaskGate, PassMessageGate, Resume
<1>5. (LoopTypes /\ AnswersPast)'
  BY <1>2, <1>3 DEF GateInv, LoopTypes, AnswersPast, Goto, switch, taskHistory
<1>6. ProbedAtGates'
  BY <1>1, <1>2, <1>3, <1>4 DEF GateInv, LoopTypes, ProbedAtGates, Goto, taskHistory
<1>7. SentIsOver' /\ SentOnlyUnlocked'
  BY <1>2, <1>3
  DEF GateInv, LoopTypes, SentIsOver, SentOnlyUnlocked, Goto, Gates, switch, taskHistory
<1>8. SendGated'
  <2>1. ASSUME ~failed[t], ~active[t], PassMessageGate(t)
        PROVE lastOff > answeredAt[t] - CacheMs
    <3>1. call[t] = "returned" /\ stage[t] = "gate"  BY <2>1 DEF PassMessageGate, Resume
    <3>2. lastOff > asked[t] - CacheMs  BY <2>1, <3>1 DEF ProbeInv, BoundedStaleness
    <3>3. asked[t] >= answeredAt[t]  BY <3>1 DEF GateInv, ProbedAtGates
    <3> QED  BY <1>1, <3>2, <3>3 DEF GateInv, LoopTypes
  <2> QED
    BY <1>2, <1>3, <2>1 DEF GateInv, LoopTypes, SendGated, Goto, switch, taskHistory
<1> QED  BY <1>5, <1>6, <1>7, <1>8 DEF GateInv

\* An answer of the model: a later gate asks after it.
LEMMA GateAnswer ==
  ASSUME ProbeInv, GateInv, NEW t \in Callers, stage[t] = "chat", NEW s \in TaskStage \ {"send"},
         Goto(t, s), answeredAt' = [answeredAt EXCEPT ![t] = now] \/ UNCHANGED answeredAt,
         UNCHANGED <<probeVars, bridgeInbox>>
  PROVE GateInv'
<1>1. now \in Nat  BY DEF ProbeInv, ProbeTypeOK
<1>2. call[t] = "idle"  BY DEF GateInv, ProbedAtGates, Gates
<1>3. UNCHANGED <<call, asked, failed, lastOff, now, bridgeInbox>>
  BY DEF probeVars, probe, switch
<1>4. (LoopTypes /\ AnswersPast)'
  BY <1>1, <1>3 DEF GateInv, LoopTypes, AnswersPast, Goto
<1>5. (ProbedAtGates /\ SendGated)'
  BY <1>2, <1>3 DEF GateInv, LoopTypes, ProbedAtGates, SendGated, Goto
<1>6. (SentIsOver /\ SentOnlyUnlocked)'
  BY <1>3 DEF GateInv, LoopTypes, SentIsOver, SentOnlyUnlocked, Goto
<1> QED  BY <1>4, <1>5, <1>6 DEF GateInv

\* The message: what held of the task holds of what it sent.
LEMMA GateSend ==
  ASSUME ProbeInv, GateInv, NEW t \in Callers, SendMessage(t) PROVE GateInv'
<1>1. call[t] = "idle" /\ stage[t] = "send"
  BY DEF SendMessage, GateInv, ProbedAtGates, Gates
<1>2. UNCHANGED <<call, asked, failed, lastOff, now, answeredAt>> /\ Goto(t, "learn")
  BY DEF SendMessage, probeVars, probe, switch, taskHistory
<1>3. \A m \in bridgeInbox' : m \in bridgeInbox \/ m.task = t
  BY DEF SendMessage, Message
<1>4. (LoopTypes /\ AnswersPast)'
  BY <1>2 DEF GateInv, LoopTypes, AnswersPast, Goto, TaskStage
<1>5. (ProbedAtGates /\ SendGated)'
  BY <1>1, <1>2 DEF GateInv, LoopTypes, ProbedAtGates, SendGated, Goto
<1>6. SentIsOver'
  BY <1>2, <1>3 DEF GateInv, LoopTypes, SentIsOver, Goto
<1>7. SentOnlyUnlocked'
  BY <1>1, <1>2, <1>3 DEF GateInv, SendGated, SentIsOver, SentOnlyUnlocked
<1> QED  BY <1>4, <1>5, <1>6, <1>7 DEF GateInv

\* Beginning and ending a task.
LEMMA GateEnds ==
  ASSUME ProbeInv, GateInv, NEW t \in Callers, BeginTask(t) \/ StoreLearning(t) PROVE GateInv'
<1>1. PICK s \in {"start", "done"} : Goto(t, s) /\ stage[t] = IF s = "start" THEN "idle" ELSE "learn"
  BY DEF BeginTask, StoreLearning, End
<1>2. call[t] = "idle"  BY <1>1 DEF GateInv, ProbedAtGates, Gates
<1>3. UNCHANGED <<call, asked, failed, lastOff, now, answeredAt, bridgeInbox>>
  BY DEF BeginTask, StoreLearning, probeVars, probe, switch, taskHistory
<1>4. (LoopTypes /\ AnswersPast)'
  BY <1>1, <1>3 DEF GateInv, LoopTypes, AnswersPast, Goto, TaskStage, Gates
<1>5. (ProbedAtGates /\ SendGated)'
  BY <1>1, <1>2, <1>3 DEF GateInv, LoopTypes, ProbedAtGates, SendGated, Goto
<1>6. (SentIsOver /\ SentOnlyUnlocked)'
  BY <1>1, <1>3 DEF GateInv, LoopTypes, SentIsOver, SentOnlyUnlocked, Goto
<1> QED  BY <1>4, <1>5, <1>6 DEF GateInv

\* A restart ends the running tasks; what was sent stays sent.
LEMMA GateRestart == GateInv /\ RestartAgent => GateInv'
<1> SUFFICES ASSUME GateInv, RestartAgent PROVE GateInv'  OBVIOUS
<1>1. /\ UNCHANGED <<failed, lastOff, now, answeredAt, bridgeInbox>>
      /\ call' = [t \in Callers |-> "idle"]
      /\ stage' = [t \in Callers |-> IF Running(t) THEN "done" ELSE stage[t]]
  BY DEF RestartAgent, Restart, switch, taskHistory
<1>2. (LoopTypes /\ AnswersPast /\ ProbedAtGates /\ SendGated)'
  BY <1>1 DEF GateInv, LoopTypes, AnswersPast, ProbedAtGates, SendGated, TaskStage, Running
<1>3. (SentIsOver /\ SentOnlyUnlocked)'
  BY <1>1 DEF GateInv, SentIsOver, SentOnlyUnlocked, Running
<1> QED  BY <1>2, <1>3 DEF GateInv

\* Every step preserves the invariant.
LEMMA GateStep == ProbeInv /\ GateInv /\ [TaskNext]_taskVars => GateInv'
<1> SUFFICES ASSUME ProbeInv, GateInv, [TaskNext]_taskVars PROVE GateInv'  OBVIOUS
<1>1. CASE UNCHANGED taskVars
  BY <1>1
  DEF GateInv, LoopTypes, AnswersPast, ProbedAtGates, SendGated, SentIsOver, SentOnlyUnlocked,
      taskVars, probeVars, probe, switch, loop, taskHistory
<1>2. CASE World \/ RestartAgent  BY <1>2, GateWorld, GateRestart
<1>3. ASSUME NEW t \in Callers, BeginTask(t) PROVE GateInv'  BY <1>3, GateEnds
<1>4. ASSUME NEW t \in Callers, TaskStep(t) PROVE GateInv'
  <2>1. ASSUME NEW calls, NEW ok, Iterate(t, calls, ok) PROVE GateInv'
    <3>1. PICK s \in TaskStage \ {"send"} : Goto(t, s)
      BY <2>1 DEF Iterate, AfterLoop, TaskStage, Gates
    <3> QED  BY <2>1, <3>1, GateAnswer DEF Iterate
  <2>2. CASE LeaveLoop(t)
    <3>1. PICK s \in TaskStage \ {"send"} : Goto(t, s)
      BY <2>2 DEF LeaveLoop, AfterLoop, TaskStage, Gates
    <3> QED  BY <2>2, <3>1, GateAnswer DEF LeaveLoop
  <2>3. CASE ScrubBreaksArguments(t)
    <3>1. "done" \in TaskStage \ {"send"} /\ Goto(t, "done")
      BY <2>3 DEF ScrubBreaksArguments, End, TaskStage, taskHistory
    <3> QED  BY <2>3, <3>1, GateAnswer DEF ScrubBreaksArguments, taskHistory
  <2> QED
    BY <1>4, <2>1, <2>2, <2>3, GateAsk, GatePass, GateSend, GateEnds DEF TaskStep
<1> QED  BY <1>1, <1>2, <1>3, <1>4 DEF TaskNext

\* "kill-switch once more just before the outward action" (agent.ts): a message
\* is sent only on an "inactive" less than CacheMs older than the model's answer.
THEOREM MessagesAreGated == TaskSpec => []SentOnlyUnlocked
<1>1. TaskSpec => []ProbeInv  BY TaskImplementsProbe, ProbeInvariant, PTL
<1>2. GateInv => SentOnlyUnlocked  BY DEF GateInv
<1> QED  BY <1>1, <1>2, GateInit, GateStep, PTL DEF TaskSpec

----------------------------------------------------------------------------
(* What a sequence of calls recommends. *)

\* A nonempty set of positions has a last one: the mirrored positions have a
\* least one, the order of the naturals being well-founded.
LEMMA LastExists ==
  ASSUME NEW n \in Nat, NEW S \in SUBSET (1 .. n), S # {}
  PROVE  \E m \in S : \A j \in S : j <= m
<1> DEFINE R == {ss \in Nat \X Nat : ss[1] < ss[2]}
           T == {n - i : i \in S}
<1>1. IsWellFoundedOn(R, Nat)  BY NatLessThanWellFounded DEF OpToRel
<1>2. T \subseteq Nat /\ T # {}
  <2>1. \A i \in S : n - i \in Nat  OBVIOUS
  <2>2. PICK i \in S : TRUE  OBVIOUS
  <2>3. n - i \in T  BY <2>2
  <2> QED  BY <2>1, <2>3
<1> HIDE DEF R, T
<1>3. PICK x \in T : \A y \in T : ~ (<<y, x>> \in R)  BY <1>1, <1>2, WFMin
<1>4. PICK m \in S : x = n - m  BY <1>3 DEF T
<1>5. ASSUME NEW j \in S PROVE j <= m
  <2>1. n - j \in T /\ n - j \in Nat /\ x \in Nat /\ j \in Nat /\ m \in Nat
    BY <1>2, <1>3 DEF T
  <2>2. ~(n - j < x)  BY <2>1, <1>3 DEF R
  <2> QED  BY <2>1, <2>2, <1>4
<1> QED  BY <1>5

\* What is recorded of the call at a position.
Of(calls, i) == [amount |-> calls[i].amount, escalated |-> Escalates(calls[i].amount)]

\* LastOf records one of the calls it is given.
LEMMA LastOfKept ==
  ASSUME NEW n \in Nat, NEW calls \in [1 .. n -> ToolCalls],
         NEW kept \in SUBSET (1 .. n), kept # {}
  PROVE  \E i \in kept : LastOf(calls, kept) = Of(calls, i)
<1> DEFINE last == CHOOSE i \in kept : \A j \in kept : j <= i
<1>1. last \in kept  BY LastExists
<1>2. LastOf(calls, kept) = Of(calls, last)  BY DEF LastOf, Of
<1> HIDE DEF last
<1> QED  BY <1>1, <1>2

\* The recommendation of an answer: Nothing exactly when no call recommended,
\* else one of the calls that did, and an escalation if one of them escalates.
LEMMA RecommendationChosen ==
  ASSUME NEW n \in Nat, NEW calls \in [1 .. n -> ToolCalls],
         NEW ok \in [1 .. n -> BOOLEAN], Ok(calls, ok),
         NEW all, all = Recommending(calls, ok),
         NEW r, r = Recommendation(calls, ok)
  PROVE  /\ all = {} => r = Nothing
         /\ all # {} => r # Nothing
         /\ all # {} => \E i \in all : r = Of(calls, i)
         /\ (\E j \in all : Escalates(calls[j].amount)) => r.escalated
<1> DEFINE escalations == {i \in all : Escalates(calls[i].amount)}
<1>1. DOMAIN calls = 1 .. n  OBVIOUS
<1>2. /\ all \in SUBSET (1 .. n)
      /\ \A i \in all : ok[i] /\ calls[i].tool = "recommander_reglement"
  BY <1>1 DEF Recommending
<1>3. \A i \in all : calls[i].amount \in Nat /\ calls[i].amount > 0
  BY <1>1, <1>2, ToolCallsAssumption DEF Ok, ToolCall
<1>4. r = LastOf(calls, IF escalations # {} THEN escalations ELSE all)
  BY DEF Recommendation
<1>5. escalations \in SUBSET all  OBVIOUS
<1>6. \A i \in escalations : i \in all /\ Escalates(calls[i].amount)  OBVIOUS
<1>7. \A j \in all : Escalates(calls[j].amount) => j \in escalations  OBVIOUS
<1> HIDE DEF escalations
<1>8. all = {} => r = Nothing  BY <1>4, <1>5 DEF LastOf
<1>9. escalations # {} => \E i \in escalations : r = Of(calls, i)
  BY <1>2, <1>4, <1>5, LastOfKept
<1>10. all # {} /\ escalations = {} => \E i \in all : r = Of(calls, i)
  BY <1>2, <1>4, LastOfKept
<1>11. all # {} => \E i \in all : r = Of(calls, i)  BY <1>6, <1>9, <1>10
<1>12. \A i \in all : Of(calls, i).amount # Nothing.amount  BY <1>3 DEF Of, Nothing
<1>13. all # {} => r # Nothing  BY <1>11, <1>12
<1>14. escalations # {} => r.escalated  BY <1>6, <1>9 DEF Of
<1> QED  BY <1>7, <1>8, <1>11, <1>13, <1>14

----------------------------------------------------------------------------
(* What a task leaves behind. *)

\* Types of the loop's own state.
LoopTypeOK ==
  /\ allowlist \in {Configured, {}} /\ stage \in [Callers -> TaskStage]
  /\ iteration \in [Callers -> 0 .. MaxIterations]
  /\ recommended \in [Callers -> [amount : Nat, escalated : BOOLEAN]]
  /\ reply \in [Callers -> {-1, 0, 200}] /\ stopped \in [Callers -> BOOLEAN]
  /\ bridgeInbox \subseteq [task : Callers, amount : Nat, route : {"commands", "approvals"}]
  /\ memory \subseteq Callers
  /\ wanted \in [Callers -> SUBSET Nat]

\* The stages up to the model's answer, and those up to the message.
Thinking == {"idle", "start", "iterate", "chat"}
Unsent == Thinking \cup {"gate", "send"}

\* Another iteration is left before every answer of the model.
IterationLeft == \A t \in Callers : stage[t] \in Thinking => iteration[t] < MaxIterations

\* Nothing is sent before the message's stage, nothing learned before the end,
\* and a task the switch stopped has ended.
TraceLater ==
  \A t \in Callers :
    /\ stage[t] \in Unsent => reply[t] = -1 /\ \A m \in bridgeInbox : m.task # t
    /\ t \in memory => stage[t] = "done"
    /\ stopped[t] => stage[t] = "done"

\* A recommendation r agrees with the amounts the model wanted.
Chosen(r, amounts) ==
  /\ r.amount \in amounts
  /\ r.escalated <=> Escalates(r.amount)
  /\ ~r.escalated => \A a \in amounts : ~Escalates(a)

\* Until the loop is left nothing is recommended; what waits to be sent is the
\* choice among all that was.
WantedKept ==
  \A t \in Callers :
    /\ stage[t] \in Thinking => recommended[t] = Nothing /\ wanted[t] = {}
    /\ stage[t] \in {"gate", "send"} => Chosen(recommended[t], wanted[t])

\* The inductive invariant.
TaskLoopInv ==
  LoopTypeOK /\ IterationLeft /\ TraceLater /\ StoppedLeavesNoTrace /\ WantedKept
    /\ NeverSelfSettles

\* A task that has not started recommended, sent and learned nothing.
LEMMA LoopInit == TaskInit => TaskLoopInv
<1> SUFFICES ASSUME TaskInit PROVE TaskLoopInv  OBVIOUS
<1>1. Nothing \in [amount : Nat, escalated : BOOLEAN]  BY DEF Nothing
<1>2. LoopTypeOK  BY <1>1, LoopAssumption DEF TaskInit, LoopTypeOK, TaskStage
<1>3. IterationLeft  BY LoopAssumption DEF TaskInit, IterationLeft
<1>4. TraceLater /\ StoppedLeavesNoTrace /\ NeverSelfSettles
  BY DEF TaskInit, TraceLater, StoppedLeavesNoTrace, NeverSelfSettles
<1>5. WantedKept  BY DEF TaskInit, WantedKept, Thinking
<1> QED  BY <1>2, <1>3, <1>4, <1>5 DEF TaskLoopInv

\* The world and a waiting task leave the loop alone.
LEMMA LoopKept == TaskLoopInv /\ UNCHANGED <<loop, wanted>> => TaskLoopInv'
BY DEF TaskLoopInv, LoopTypeOK, IterationLeft, TraceLater, StoppedLeavesNoTrace, WantedKept,
       NeverSelfSettles, loop

\* A task moves on without sending or learning: what the invariant says of it
\* holds if it holds of its own new state.
LEMMA LoopMoves ==
  ASSUME TaskLoopInv, NEW t \in Callers, NEW s \in TaskStage, Goto(t, s),
         stage[t] \in Unsent \cup {"learn"}, stage[t] = "learn" => s \in {"learn", "done"},
         UNCHANGED <<allowlist, reply, bridgeInbox>>,
         NEW n \in 0 .. MaxIterations, iteration' = [iteration EXCEPT ![t] = n],
         s \in Thinking => n < MaxIterations,
         NEW r \in [amount : Nat, escalated : BOOLEAN],
         recommended' = [recommended EXCEPT ![t] = r],
         NEW w \in SUBSET Nat, wanted' = [wanted EXCEPT ![t] = w],
         stage[t] \in Thinking \/ w = wanted[t],
         s \in Thinking => r = Nothing /\ w = {},
         s \in {"gate", "send"} => Chosen(r, w),
         memory' \in {memory, memory \cup {t}}, memory' = memory \/ s = "done",
         NEW b \in BOOLEAN, stopped' = [stopped EXCEPT ![t] = b],
         b => s = "done" /\ stage[t] \in Unsent /\ memory' = memory
  PROVE  TaskLoopInv'
<1> USE DEF TaskLoopInv
<1>1. stage' \in [Callers -> TaskStage] /\ stage'[t] = s
      /\ \A u \in Callers \ {t} : stage'[u] = stage[u]
  BY DEF LoopTypeOK, Goto
<1>2. /\ iteration'[t] = n /\ recommended'[t] = r /\ wanted'[t] = w /\ stopped'[t] = b
      /\ \A u \in Callers \ {t} :
           /\ iteration'[u] = iteration[u] /\ recommended'[u] = recommended[u]
           /\ wanted'[u] = wanted[u] /\ stopped'[u] = stopped[u]
  BY DEF LoopTypeOK
<1>3. LoopTypeOK'  BY <1>1 DEF LoopTypeOK
<1>4. IterationLeft'  BY <1>1, <1>2 DEF IterationLeft
<1>5. stopped[t] = FALSE /\ t \notin memory
  BY DEF TraceLater, LoopTypeOK, Unsent, Thinking
<1>6. s \in Unsent => stage[t] \in Unsent
  BY DEF Unsent, Thinking
<1>7. TraceLater'
  BY <1>1, <1>2, <1>5, <1>6 DEF TraceLater
<1>8. StoppedLeavesNoTrace'
  <2>1. b => t \notin memory' /\ reply'[t] = -1 /\ \A m \in bridgeInbox' : m.task # t
    BY <1>5 DEF TraceLater
  <2> QED  BY <1>2, <2>1 DEF StoppedLeavesNoTrace
<1>9. WantedKept'  BY <1>1, <1>2 DEF WantedKept
<1>10. NeverSelfSettles'
  <2>1. \A m \in bridgeInbox : m.task \in Callers  BY DEF LoopTypeOK
  <2>2. \A m \in bridgeInbox : m.task = t => stage[t] \notin Thinking
    BY DEF TraceLater, Unsent
  <2>3. \A m \in bridgeInbox : wanted'[m.task] = wanted[m.task]
    BY <1>2, <2>1, <2>2
  <2> QED  BY <2>3 DEF NeverSelfSettles
<1> QED  BY <1>3, <1>4, <1>7, <1>8, <1>9, <1>10

\* The message is what was chosen, on the route its amount asks for.
LEMMA LoopSends == ASSUME TaskLoopInv, NEW t \in Callers, SendMessage(t) PROVE TaskLoopInv'
<1> USE DEF TaskLoopInv
<1>1. stage[t] = "send" /\ UNCHANGED <<allowlist, iteration, recommended, stopped, memory, wanted>>
  BY DEF SendMessage, taskHistory
<1>2. stage' \in [Callers -> TaskStage] /\ stage'[t] = "learn"
      /\ \A u \in Callers \ {t} : stage'[u] = stage[u]
  BY DEF SendMessage, LoopTypeOK, Goto, TaskStage
<1>3. reply' \in [Callers -> {-1, 0, 200}] /\ \A u \in Callers \ {t} : reply'[u] = reply[u]
  BY DEF SendMessage, LoopTypeOK
<1>4. bridgeInbox' \subseteq bridgeInbox \cup {Message(t)}
  BY DEF SendMessage
<1>5. recommended[t].amount \in Nat
  BY DEF LoopTypeOK
<1>6. /\ Message(t).task = t /\ Message(t).amount = recommended[t].amount
      /\ Message(t).route = IF recommended[t].escalated THEN "approvals" ELSE "commands"
      /\ Message(t) \in [task : Callers, amount : Nat, route : {"commands", "approvals"}]
  BY <1>5 DEF Message
<1>7. LoopTypeOK'
  BY <1>1, <1>2, <1>3, <1>4, <1>6 DEF LoopTypeOK
<1>8. IterationLeft' /\ WantedKept'
  BY <1>1, <1>2 DEF IterationLeft, WantedKept, Thinking
<1>9. \A m \in bridgeInbox' : m \in bridgeInbox \/ m.task = t
  BY <1>4, <1>6
<1>10. t \notin memory /\ ~stopped[t]
  BY <1>1 DEF TraceLater
<1>11. TraceLater'
  <2>1. ASSUME NEW u \in Callers, u # t PROVE
          /\ stage'[u] \in Unsent => reply'[u] = -1 /\ \A m \in bridgeInbox' : m.task # u
          /\ u \in memory => stage'[u] = "done"
          /\ stopped[u] => stage'[u] = "done"
    BY <1>2, <1>3, <1>9, <2>1 DEF TraceLater
  <2> QED  BY <1>1, <1>2, <1>10, <2>1 DEF TraceLater, Unsent, Thinking
<1>12. StoppedLeavesNoTrace'
  BY <1>1, <1>3, <1>9, <1>10 DEF StoppedLeavesNoTrace
<1>13. Chosen(recommended[t], wanted[t])
  BY <1>1 DEF WantedKept
<1>14. NeverSelfSettles'
  BY <1>1, <1>4, <1>6, <1>13 DEF NeverSelfSettles, Chosen
<1> QED  BY <1>7, <1>8, <1>11, <1>12, <1>14

\* A restart ends the running tasks and forgets their locals.
LEMMA LoopRestarts == TaskLoopInv /\ RestartAgent => TaskLoopInv'
<1> SUFFICES ASSUME TaskLoopInv, RestartAgent PROVE TaskLoopInv'  OBVIOUS
<1> USE DEF TaskLoopInv
<1>1. /\ stage' = [t \in Callers |-> IF Running(t) THEN "done" ELSE stage[t]]
      /\ allowlist' \in {Configured, {}}
      /\ iteration' = [t \in Callers |-> 0] /\ recommended' = [t \in Callers |-> Nothing]
      /\ UNCHANGED <<reply, stopped, bridgeInbox, memory, wanted>>
  BY DEF RestartAgent, taskHistory
<1>2. \A t \in Callers : stage'[t] \in {"idle", "done"} /\ (stage'[t] = "idle" => stage[t] = "idle")
                           /\ (stage[t] = "done" => stage'[t] = "done")
  BY <1>1 DEF Running
<1>3. Nothing \in [amount : Nat, escalated : BOOLEAN]  BY DEF Nothing
<1>4. stage' \in [Callers -> TaskStage]  BY <1>1, <1>2 DEF TaskStage
<1>5. LoopTypeOK'  BY <1>1, <1>3, <1>4, LoopAssumption DEF LoopTypeOK
<1>6. IterationLeft'  BY <1>1, LoopAssumption DEF IterationLeft
<1>7. TraceLater'
  BY <1>1, <1>2 DEF TraceLater, Unsent, Thinking
<1>8. (StoppedLeavesNoTrace /\ NeverSelfSettles)'
  BY <1>1 DEF StoppedLeavesNoTrace, NeverSelfSettles
<1>9. WantedKept'
  BY <1>1, <1>2 DEF WantedKept, Thinking
<1> QED  BY <1>5, <1>6, <1>7, <1>8, <1>9

\* An answer of the model with calls: the loop goes on only when none of them
\* recommended and an iteration is left.
LEMMA LoopIterates ==
  ASSUME TaskLoopInv, NEW t \in Callers, NEW calls \in CallSequences,
         NEW ok \in [DOMAIN calls -> BOOLEAN], Iterate(t, calls, ok)
  PROVE  TaskLoopInv'
<1> DEFINE all == Recommending(calls, ok)
           r == Recommendation(calls, ok)
           again == r = Nothing /\ (\E i \in DOMAIN calls : ok[i])
                      /\ MoreIterations(iteration[t] + 1)
           s == IF again THEN "iterate" ELSE AfterLoop(r)
           amounts == {calls[i].amount : i \in all}
           w == wanted[t] \cup amounts
           n == iteration[t] + 1
<1>1. PICK len \in Nat : calls \in [1 .. len -> ToolCalls]
  BY LoopAssumption DEF CallSequences
<1>2. DOMAIN calls = 1 .. len /\ ok \in [1 .. len -> BOOLEAN] /\ all \subseteq 1 .. len
  BY <1>1 DEF Recommending
<1>3. /\ stage[t] = "chat" /\ Ok(calls, ok)
      /\ recommended' = [recommended EXCEPT ![t] = r]
      /\ Goto(t, s)
      /\ iteration' = [iteration EXCEPT ![t] = n]
      /\ wanted' = [wanted EXCEPT ![t] = w]
      /\ UNCHANGED <<allowlist, reply, bridgeInbox, stopped, memory>>
  BY DEF Iterate
<1>4. /\ all = {} => r = Nothing
      /\ all # {} => r # Nothing
      /\ all # {} => \E i \in all : r = Of(calls, i)
      /\ (\E j \in all : Escalates(calls[j].amount)) => r.escalated
  BY <1>1, <1>2, <1>3, RecommendationChosen
<1>5. \A i \in all : calls[i].amount \in Nat
  BY <1>1, <1>2, ToolCallsAssumption DEF ToolCall
<1>6. amounts \subseteq Nat /\ (all = {} => amounts = {})
  BY <1>5
<1>7. \A i \in all : calls[i].amount \in amounts
  OBVIOUS
<1>8. \A a \in amounts : \E i \in all : a = calls[i].amount
  OBVIOUS
<1> HIDE DEF all, amounts, r
<1>9. wanted[t] = {} /\ iteration[t] \in Nat /\ iteration[t] < MaxIterations
      /\ iteration[t] \in 0 .. MaxIterations /\ w = amounts
      /\ stopped \in [Callers -> BOOLEAN] /\ ~stopped[t]
  BY <1>3 DEF TaskLoopInv, LoopTypeOK, WantedKept, IterationLeft, TraceLater, Thinking
<1>10. Nothing \in [amount : Nat, escalated : BOOLEAN]  BY DEF Nothing
<1>11. \A i \in all : Of(calls, i) \in [amount : Nat, escalated : BOOLEAN]
  BY <1>5, LoopAssumption DEF Of, Escalates
<1>12. r \in [amount : Nat, escalated : BOOLEAN]
  BY <1>4, <1>10, <1>11
<1>13. all # {} => Chosen(r, amounts)
  <2> SUFFICES ASSUME all # {} PROVE Chosen(r, amounts)  OBVIOUS
  <2>1. PICK i \in all : r = Of(calls, i)  BY <1>4
  <2>2. r.amount = calls[i].amount /\ r.escalated = Escalates(calls[i].amount)  BY <2>1 DEF Of
  <2>3. ~r.escalated => \A a \in amounts : ~Escalates(a)  BY <1>4, <1>8
  <2> QED  BY <1>7, <2>2, <2>3 DEF Chosen
<1>14. \/ s = "iterate" /\ r = Nothing /\ all = {} /\ iteration[t] + 1 < MaxIterations
       \/ s = "learn"
       \/ s = "gate" /\ all # {}
  <2>1. again => r = Nothing /\ iteration[t] + 1 < MaxIterations  BY DEF MoreIterations
  <2>2. s = IF again THEN "iterate" ELSE AfterLoop(r)  OBVIOUS
  <2> HIDE DEF again, s
  <2>3. CASE again
    <3>1. s = "iterate"  BY <2>2, <2>3
    <3> QED  BY <1>4, <2>1, <2>3, <3>1
  <2>4. CASE ~again /\ all = {}
    <3>1. s = "learn"  BY <1>4, <2>2, <2>4 DEF AfterLoop
    <3> QED  BY <3>1
  <2>5. CASE ~again /\ all # {}
    <3>1. s = "gate"  BY <1>4, <2>2, <2>5 DEF AfterLoop
    <3> QED  BY <2>5, <3>1
  <2> QED  BY <2>3, <2>4, <2>5
<1>15. n \in 0 .. MaxIterations /\ (s = "iterate" => n < MaxIterations)
  BY <1>9, <1>14, LoopAssumption
<1>16. s \in TaskStage /\ (s \in Thinking => s = "iterate")
       /\ (s \in {"gate", "send"} => all # {}) /\ stage[t] \in Thinking
  BY <1>3, <1>14 DEF TaskStage, Gates, Thinking
<1>17. stopped' = [stopped EXCEPT ![t] = FALSE] /\ FALSE \in BOOLEAN
  BY <1>3, <1>9
<1>18. s \in Thinking => n < MaxIterations /\ r = Nothing /\ w = {}
  BY <1>6, <1>9, <1>14, <1>15, <1>16
<1>19. s \in {"gate", "send"} => Chosen(r, w)
  BY <1>9, <1>13, <1>16
<1>20. w \in SUBSET Nat /\ stage[t] \in Unsent \cup {"learn"}
       /\ (stage[t] = "learn" => s \in {"learn", "done"})
  BY <1>3, <1>6, <1>9 DEF Unsent, Thinking
<1> HIDE DEF s, n, w, again
<1> QED
  BY <1>3, <1>12, <1>15, <1>16, <1>17, <1>18, <1>19, <1>20, LoopMoves

\* The steps that leave the model's recommendation alone.
LEMMA LoopPasses ==
  ASSUME TaskLoopInv, NEW t \in Callers,
         \/ BeginTask(t) \/ PassTaskGate(t) \/ PassMessageGate(t) \/ LeaveLoop(t)
         \/ ScrubBreaksArguments(t) \/ StoreLearning(t)
  PROVE  TaskLoopInv'
<1>1. /\ iteration \in [Callers -> 0 .. MaxIterations] /\ wanted \in [Callers -> SUBSET Nat]
      /\ recommended \in [Callers -> [amount : Nat, escalated : BOOLEAN]]
      /\ stopped \in [Callers -> BOOLEAN]
  BY DEF TaskLoopInv, LoopTypeOK
<1>2. /\ stage[t] \in Thinking =>
           recommended[t] = Nothing /\ wanted[t] = {} /\ iteration[t] < MaxIterations
      /\ stage[t] \in {"gate", "send"} => Chosen(recommended[t], wanted[t])
      /\ stage[t] # "done" => ~stopped[t]
  BY DEF TaskLoopInv, WantedKept, IterationLeft, TraceLater
<1>3. /\ iteration[t] \in 0 .. MaxIterations /\ wanted[t] \in SUBSET Nat
      /\ recommended[t] \in [amount : Nat, escalated : BOOLEAN]
      /\ iteration = [iteration EXCEPT ![t] = iteration[t]]
      /\ recommended = [recommended EXCEPT ![t] = recommended[t]]
      /\ wanted = [wanted EXCEPT ![t] = wanted[t]]
      /\ stage[t] # "done" => stopped = [stopped EXCEPT ![t] = FALSE]
  BY <1>1, <1>2
<1>4. Nothing \in [amount : Nat, escalated : BOOLEAN] /\ 0 \in 0 .. MaxIterations
      /\ FALSE \in BOOLEAN /\ TRUE \in BOOLEAN
  BY LoopAssumption DEF Nothing
<1>5. CASE BeginTask(t)
  <2>1. /\ stage[t] = "idle" /\ Goto(t, "start")
        /\ UNCHANGED <<allowlist, iteration, recommended, reply, stopped, bridgeInbox, memory,
                       wanted>>
    BY <1>5 DEF BeginTask, taskHistory
  <2>2. "start" \in TaskStage /\ "start" \in Thinking /\ stage[t] \in Thinking
        /\ stage[t] \in Unsent \cup {"learn"}
    BY <2>1 DEF TaskStage, Gates, Thinking, Unsent
  <2> QED  BY <1>2, <1>3, <1>4, <2>1, <2>2, LoopMoves
<1>6. CASE PassTaskGate(t) /\ active[t]
  <2>1. /\ stage[t] \in {"start", "iterate"} /\ Goto(t, "done")
        /\ iteration' = [iteration EXCEPT ![t] = 0]
        /\ recommended' = [recommended EXCEPT ![t] = Nothing]
        /\ stopped' = [stopped EXCEPT ![t] = TRUE]
        /\ UNCHANGED <<allowlist, reply, bridgeInbox, memory, wanted>>
    BY <1>6 DEF PassTaskGate, Stop, End, taskHistory
  <2>2. "done" \in TaskStage /\ "done" \notin Thinking /\ stage[t] \in Thinking
        /\ stage[t] \in Unsent
    BY <2>1 DEF TaskStage, Gates, Thinking, Unsent
  <2> QED  BY <1>2, <1>3, <1>4, <2>1, <2>2, LoopMoves
<1>7. CASE PassTaskGate(t) /\ ~active[t]
  <2> DEFINE s == IF stage[t] = "start" THEN "iterate" ELSE "chat"
  <2>1. /\ stage[t] \in {"start", "iterate"} /\ Goto(t, s)
        /\ UNCHANGED <<allowlist, iteration, recommended, reply, stopped, bridgeInbox, memory,
                       wanted>>
    BY <1>7 DEF PassTaskGate, taskHistory
  <2>2. s \in {"iterate", "chat"} /\ s \in TaskStage /\ s \in Thinking /\ stage[t] \in Thinking
        /\ stage[t] \in Unsent \cup {"learn"}
    BY <2>1 DEF TaskStage, Gates, Thinking, Unsent
  <2> HIDE DEF s
  <2> QED  BY <1>2, <1>3, <1>4, <2>1, <2>2, LoopMoves
<1>8. CASE PassMessageGate(t)
  <2> DEFINE s == IF active[t] THEN "learn" ELSE "send"
  <2>1. /\ stage[t] = "gate" /\ Goto(t, s)
        /\ UNCHANGED <<allowlist, iteration, recommended, reply, stopped, bridgeInbox, memory,
                       wanted>>
    BY <1>8 DEF PassMessageGate, taskHistory
  <2>2. s \in {"learn", "send"} /\ s \in TaskStage /\ s \notin Thinking
        /\ stage[t] \in Unsent \cup {"learn"}
    BY <2>1 DEF TaskStage, Gates, Thinking, Unsent
  <2> HIDE DEF s
  <2> QED  BY <1>2, <1>3, <1>4, <2>1, <2>2, LoopMoves
<1>9. CASE LeaveLoop(t)
  <2>1. stage[t] = "chat" /\ recommended[t] = Nothing
    BY <1>2, <1>9 DEF LeaveLoop, Thinking
  <2>2. /\ Goto(t, "learn")
        /\ UNCHANGED <<allowlist, iteration, recommended, reply, stopped, bridgeInbox, memory,
                       wanted>>
    BY <1>9, <2>1 DEF LeaveLoop, AfterLoop
  <2>3. "learn" \in TaskStage /\ "learn" \notin Thinking /\ stage[t] \in Thinking
        /\ stage[t] \in Unsent \cup {"learn"} /\ stage[t] # "done"
        /\ "learn" \notin {"gate", "send"}
    BY <2>1 DEF TaskStage, Gates, Thinking, Unsent
  <2> QED  BY <1>3, <1>4, <2>2, <2>3, LoopMoves
<1>10. CASE ScrubBreaksArguments(t) \/ StoreLearning(t)
  <2>1. /\ stage[t] \in {"chat", "learn"} /\ Goto(t, "done")
        /\ iteration' = [iteration EXCEPT ![t] = 0]
        /\ recommended' = [recommended EXCEPT ![t] = Nothing]
        /\ memory' \in {memory, memory \cup {t}}
        /\ UNCHANGED <<allowlist, reply, stopped, bridgeInbox, wanted>>
    BY <1>10 DEF ScrubBreaksArguments, StoreLearning, End, taskHistory
  <2>2. "done" \in TaskStage /\ "done" \notin Thinking /\ stage[t] \in Unsent \cup {"learn"}
        /\ "done" \notin {"gate", "send"}
    BY <2>1 DEF TaskStage, Gates, Thinking, Unsent
  <2> QED  BY <1>2, <1>3, <1>4, <2>1, <2>2, LoopMoves
<1> QED  BY <1>5, <1>6, <1>7, <1>8, <1>9, <1>10 DEF PassTaskGate

\* Every step preserves the invariant.
LEMMA LoopStep == TaskLoopInv /\ [TaskNext]_taskVars => TaskLoopInv'
<1> SUFFICES ASSUME TaskLoopInv, [TaskNext]_taskVars PROVE TaskLoopInv'  OBVIOUS
<1>1. CASE UNCHANGED taskVars \/ World
  BY <1>1, LoopKept DEF taskVars, taskHistory, World
<1>2. CASE RestartAgent  BY <1>2, LoopRestarts
<1>3. ASSUME NEW t \in Callers, BeginTask(t) PROVE TaskLoopInv'  BY <1>3, LoopPasses
<1>4. ASSUME NEW t \in Callers, TaskStep(t) PROVE TaskLoopInv'
  <2>1. CASE AskProbe(t)  BY <2>1, LoopKept DEF AskProbe, taskHistory
  <2>2. ASSUME NEW calls \in CallSequences, NEW ok \in [DOMAIN calls -> BOOLEAN],
               Iterate(t, calls, ok)
        PROVE  TaskLoopInv'
    BY <2>2, LoopIterates
  <2>3. CASE SendMessage(t)  BY <2>3, LoopSends
  <2> QED  BY <1>4, <2>1, <2>2, <2>3, LoopPasses DEF TaskStep
<1> QED  BY <1>1, <1>2, <1>3, <1>4 DEF TaskNext

\* The invariant holds of every run of the agent.
LEMMA LoopInvariant == TaskSpec => []TaskLoopInv
BY LoopInit, LoopStep, PTL DEF TaskSpec

\* Type correctness of the agent: among the rest, no task begins more than
\* MAX_ITERATIONS answers of the model (agent.ts).
THEOREM TaskTypeCorrect == TaskSpec => []TaskTypeOK
<1>1. TaskSpec => []ProbeInv  BY TaskImplementsProbe, ProbeInvariant, PTL
<1>2. ProbeInv /\ TaskLoopInv => TaskTypeOK
  BY DEF ProbeInv, TaskLoopInv, LoopTypeOK, TaskTypeOK
<1> QED  BY <1>1, <1>2, LoopInvariant, PTL

\* "killswitch.test.ts": a task the switch stopped, at its start or in its loop,
\* has sent nothing to the bridge and stored no learning.
THEOREM StoppedLeavesNoTraceHolds == TaskSpec => []StoppedLeavesNoTrace
<1>1. TaskLoopInv => StoppedLeavesNoTrace  BY DEF TaskLoopInv
<1> QED  BY <1>1, LoopInvariant, PTL

\* "NEVER self-settle" (tools.ts): a task that recommended an amount above the
\* threshold sends no command, for any threshold, any answers of the model and
\* any number of overlapping tasks.
THEOREM NeverSelfSettlesHolds == TaskSpec => []NeverSelfSettles
<1>1. TaskLoopInv => NeverSelfSettles  BY DEF TaskLoopInv
<1> QED  BY <1>1, LoopInvariant, PTL

=============================================================================
