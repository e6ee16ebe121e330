# Assurance Toto: a formal model of the bridge and the agents

The repository runs an insurance company with autonomous agents. An agent
(`agents/_runtime`) lets a language model read the company's data and recommend
settlements; whatever touches money, contracts or the kill-switch goes through
one service, the *bridge* (`buzz-hermes-bridge`), which checks it, records it in
a hash-chained audit log and applies it to Postgres. Large settlements wait for
the CEO's approval; a kill-switch stops the agents.

This directory models that core in TLA+, checks it with TLC on small instances
and proves with TLAPS, for every size, each safety property and each refinement
the checks state. Paths below are relative to the
repository; `pipeline.ts` and its neighbours are in
`buzz-hermes-bridge/src`, `agent.ts` and its neighbours in
`agents/_runtime/src`.

## The system

| Component | State | Operations | Talks to |
|---|---|---|---|
| Command pipeline, `pipeline.ts` | none of its own; the tables below | `processInboundCommand`: schema, idempotency precheck, identity, kill-switch, claim, policy, consume, audit, effect, reply | repository, DLQ, collaboration channel |
| Policy, `policy/policy.ts` | none (pure) | `evaluate` and a rule per command | pipeline |
| Schemas, `commands/schemas.ts` | none (pure) | `validateCommand` | pipeline |
| Repository, `db/repository.ts`, `infra/postgres` | `sinistres`, `commandes_consommees`, `approbations`, `pnl_ledger`, `audit_log`, `kill_switch` | one statement or transaction per method | pipeline, HTTP server |
| Audit chain, `audit.ts` | `audit_log.prev_hash`, `hash` | `appendAudit`, `verifyAuditChain` | repository |
| Dead-letter queue, `dlq.ts` | an array, or a Redis stream | `enqueue`, `list` | pipeline |
| HTTP server, `http/server.ts` | none between requests | `POST /commands`, `/approvals`, `/approvals/:id/decide`, `/killswitch`; GET routes | pipeline, repository |
| Identity, `identity/` | none | verification of Nostr events | HTTP server |
| Collaboration, `collab/` | none | `postMessage` | pipeline |
| Dashboard, `dashboard/dashboard.ts` | the page in the CEO's browser | `GET /dashboard`: parallel reads, HTML; its buttons post decisions | repository, HTTP server |
| Metrics | counters | a scrape | - |
| Agent task loop, `runtime/agent.ts`, `server.ts` | locals of the running tasks | `runTask` from `POST /task` and from the autonomy timer | model, tools, kill-switch cache, bridge |
| Kill-switch cache, `security/killswitch.ts` | one cache entry per agent process | `isActive` | Postgres |
| Tools, `tools/tools.ts`; allowlist | none; a set of names | nine tools, deny by default | Postgres, loop |
| Anonymizer, skills, model and database clients | none | text, files, HTTP | loop |
| Pricing and scoring, `tools.ts` | none (pure) | `grillePrime`, `scoreDeRisque`, `qualificationLead` | loop |
| Seeds, scripts, deployment, CI | - | run by hand | - |

**Interaction.** Both processes are single-threaded Node programs: requests and
tasks interleave at every `await` and nowhere else. An agent posts a command (up
to its threshold) or asks for an approval (above); the bridge answers over HTTP.
All coordination between requests is in Postgres: unique keys
(`commandes_consommees.command_id`, `approbations.correlation_id`), conditional
updates (`decideApprobation`) and transactions. Nothing is locked across two
statements.

**What is hard.** A value read before an await and used after it (the claim's
status, the kill-switch, the last audit hash, the agent's cached switch);
several handlers writing one approval row; a failure or a crash between two
transactions that belong together (consumption and effect, decision and
execution, switch and audit); a commit whose acknowledgement is lost; retries of
a content already consumed; reads that arrive in another order than they were
made; several recommendations in one answer of the model; a caller that gives up
while the bridge goes on; a page as old as its last load; amounts rounded after
they were compared, and numbers a model writes in many forms. `PROJECT.json`
lists these at their lines, with the properties that would catch them.

**What makes each component correct.** Pipeline: a content has one effect at
most, never before its audit row, never for the unauthorised, none under the
lock, and results that tell what happened. Repository: the tables agree at every
instant. Audit chain: it verifies unless the bridge itself forked it, and then a
changed payload shows. HTTP server: one decision per approval, approvals only
move forward, a large settlement needs a CEO's verified event or a recorded
decision on its claim and amount, every request is answered. Kill-switch cache:
bounded staleness, and no "inactive" out of nothing. Task loop: no message past
the gate, nothing left by a stopped task, nothing above the threshold settled by
an agent. Agent and bridge together: a message acts once at most and never after
its answer, what a task is told is true, and every task that has posted ends.
Dashboard: the CEO decides what the row showed, the figures of a page belong
together, pending approvals come into view. Tools: the amount read is the amount
recommended, and it goes the way its size demands; premiums are those of the
grid.

## Modules

| Module | Models | State and actions |
|---|---|---|
| `Policy` | `policy.ts`, `schemas.ts`, `resolveRole` | operators: `Evaluate`, `ResolveRole`, `CeoSansSignature`, `Plafond` |
| `CommandRegister` | abstract: what the bridge promises about a content | `Take`, `Apply` |
| `Pipeline` | `processInboundCommand` over the tables | one action per stretch between two awaits |
| `Bridge` | the four POST handlers, composed with `Pipeline` (EXTENDS) | handler stages; `PipelineStep` runs the pipeline of that request |
| `AuditChain` | `audit.ts` | `ReadLastHash`, `InsertRow`, `InsertFails` |
| `KillSwitchCache` | `killswitch.ts` | `IsActive`, `ReadRow`, `Store`, `ReadFails`, `Restart`; `Tick`, `MoveSwitch` |
| `AgentTask` | `runTask`, composed with `KillSwitchCache` (EXTENDS) | task stages; the gates are calls of the cache's actions |
| `Courier` | abstract: what a sender may rely on that gives up waiting | `Send`, `Act`, `Answer` |
| `Desk` | `postJson` between tasks of an agent and the handlers of `Bridge` (EXTENDS) | task and message places; `PostJson`, `Deliver`, `ReadAnswer`, `Unreachable`, `GiveUp` |
| `Cockpit` | `dashboardSnapshot`, `renderDashboard` and the buttons, over `Bridge` (EXTENDS) | the load and the page; `ReadSection`, `RenderDashboard`, `ReadFails`, `NavigationFails`, `PressDecision` |
| `Tools` | one tool call: `ollama.ts`, `tools.ts`, `buildSettlementCommand` | operators for arguments, prices and recommendations; `ChatFails`, `Chat` |
| `MCPipeline`, `MCBridge`, `MCDesk`, `MCCockpit`, `MCAgentTask`, `MCTools` | instances for TLC | constants only |
| `PipelineProofs`, `BridgeProofs`, `DeskProofs`, `CockpitProofs`, `AuditChainProofs`, `KillSwitchCacheProofs`, `AgentTaskProofs`, `ToolsProofs` | theorems | - |

Each component's module holds its properties, and its mutants: variants of one
definition, marked *Mutant*, that a plausible bug would give. For every property
of a passing run there is one that violates it.

### Pipeline

`pc[r]` names the await a request is in: `precheck`, `killswitch`, `context`
(`findSinistre`), `policy` (`isCommandConsumed`, then `evaluate`), `consume`,
`open` (the approval row of `markConsumed`), `audit`, `effect`, `resolve`
(`decideApprobation`), `reply`, `executed`; `refuse` is the audit row before a
refusal is answered, `dlq` the two awaits of a dead letter. What a request read
stays in `seen[r]` until it is used. A statement or a transaction is one step.

In a stage without a catch of its own a call may fail: `CallFails` throws (a
retryable error goes to the caller, another one to the dead-letter queue),
`AckLost` commits and then throws. `Crash` ends every request in flight and
empties `MemoryDlq`; the tables stay.

`applied`, `before` and `underLock` are history: which requests committed their
effect, which were over when a request arrived, and whether the switch has been
on ever since it arrived. No action reads them.

### Bridge

`at[r]` is what the handler awaits: a statement of its own (`create`, `decide`,
`switch`), the continuation that enters the pipeline (`execute`, `record`), or
the pipeline's result. The settlement executed after an approval and the command
built by `POST /killswitch` are new contents (`DecisionNonces`), as the code
stamps `requested_at`. The crash is the pipeline's, with the connections.

### AuditChain

The two halves of `appendAudit` are two steps of a writer. The `label` of a row
stands for its columns `source`, `action` and `correlation_id`, which the hash
does not cover. `stale` and `forked` are history: a writer's hash has been
superseded, and a row was inserted from such a hash.

### KillSwitchCache and AgentTask

Time is discrete; `asked[c]` is the time a call noted, and the entry it stores
is dated by it. The row is read at one instant and arrives at a later one, so
overlapping reads may arrive in either order. `lastOff` is history: the last
time the switch was off.

A task passes the gates `start`, `iterate` and `gate`, where it calls
`isActive`; in `chat` the model answers anything: an error or no call
(`LeaveLoop`), a sequence of tool calls each of which succeeds or not
(`Iterate`), or arguments that scrubbing breaks (`ScrubBreaksArguments`, which
throws out of `runTask`). `Recommendation` is the choice the code makes between
its two variables. `SendMessage` includes the message that arrives although the
agent gave up after 10 s. `answeredAt` and `wanted` are history.

### Desk

Each request of `Bridge` is posted by a task of its own, or directly (the CEO,
another program). A task posts any message or none: what the language model and
the gates decide is `AgentTask`'s. `wire[t]` says where the message is, and it
does not depend on whether its sender still waits: `GiveUp` moves neither the
message nor the request the bridge may have begun, as the bridge does not notice
that a connection is closed. `told[t]` is the HTTP status the task read, or 0.
`knew[t]` is history: the tasks answered when this one posted.

### Cockpit

A load sends its queries at once; each is answered at an instant of its own,
between the steps of the handlers, and the page is rendered when the last one is
in. A failing query ends the load with a page of unavailable sections. A button
posts the correlation id of a row of the page as it was read, however old. Kept
are the sections a settlement changes, the pending approvals up to `PageLimit`
(any of them, as the model keeps no dates). A page reloads itself only if it is
one the bridge served (`reloads`): the browser's error page after a navigation
that got none does not, nor does a page whose button was pressed. `torn` and
`pressed` are history.

### Tools

A call is the name and the arguments the model wrote, which are JSON of any kind
(`Kind`, as far as `Number` tells kinds apart: `true` is 1, `[5]` is 5, `null`
and blank text are 0), given as an object, as text, or not readable.
`Executions` is what `registry.execute` may return. Amounts are thousandths,
which is what tells the amount compared with the threshold from the amount
rounded to the cent. The code rounds a float, and 1.005 * 100 is less than
100.5: an amount of exactly half a cent has both roundings (`Cents`). The grid's
factors are multiplied as whole numbers and rounded once, as `Math.round` does,
whatever the third decimal of the bonus. `Risk` joins the keys the three pricing
tools read (`age`, `age_conducteur`).

## Runs

| Run | Question and properties | States |
|---|---|---|
| `PipelineRetry` | One content three times while the switch moves. `TypeOK`, `AppliedAtMostOnce`, `TruthfulOutcome`, `LockedOut`, `AuditedBeforeApplied`, and `ImplementsRegister`: the pipeline implements `CommandRegister` | 2.3 M |
| `BridgeRoutes` | Every POST route, every kind of author, event, command and claim, and an approval that waits; signed commands required. `LargeClaimNeedsCeo`, `EffectAuthorised`, `SettlementCovers`, `BooksAgree`, `NoSilentLoss`, `SerialDecisions`, `OneDecision`, `SwitchMovedOnce`, `ApprovalsOnlyMoveOn` | 1.8 M |
| `AuditAppends` | Overlapping appends. `TypeOK`, `BrokenExactlyByStaleAppend`, `EveryRowLinked`, `TamperEvident` | 68 k |
| `HermesTasks` | Two overlapping tasks under a moving switch. `TaskTypeOK`, `BoundedStaleness`, `NeverOffFromNothing`, `SentOnlyUnlocked`, `StoppedLeavesNoTrace`, `NeverSelfSettles` | 1.0 M |
| `Desk` | Two tasks post to the bridge, with losses, delays and the time-out. `DeskTypeOK`, `TwiceOnlyUnanswered`, `AnswerIsTrue`, and `ImplementsCourier`: agent and bridge implement `Courier` | 228 k |
| `DeskEnds` | Liveness, for tasks, a decision and the switch. `EveryTaskEnds`, `EveryRequestServed`; `EscalationQueued` | 156 k |
| `Cockpit` | Decisions from an old page while escalations arrive. `CockpitTypeOK`, `DecidedAsShown`, `NoticeTrue`, `FiguresAgree`, and the liveness `EveryApprovalSeen` | 401 k |
| `Tools` | Every tool over the forms arguments come in. `RecommendationKept`, `GridKept` | 48 k |
| `DoubleSettlement` | fails: `OneSettlementPerClaim` | - |
| `RetryLost` | fails: `RetryCompletes` | - |
| `ApprovedNotSettled` | fails: `ApprovedIsSettled` | - |
| `UnsignedDecision` | fails: `DecisionsSigned` | - |

`BrokenExactlyByStaleAppend` is the precise form of the comment in `audit.ts`
("assumes enqueue serialized (app-level lock)"): no caller takes a lock, so
overlapping appends do fork the chain, they always show, and nothing else in the
bridge can break it. `TamperEvident` is about one row changed afterwards: exactly
a change of its payload shows, one of the columns that are not hashed does not,
and neither does the removal of the last row.

`LargeClaimNeedsCeo` says what the routes do protect: as a command a large
settlement needs the CEO's verified event, by a decision it is the claim and the
amount of a row that was recorded as approved. Whether that decision was
signed nothing checks, which is the failing run `UnsignedDecision`.
`SwitchMovedOnce` is about the command that `POST /killswitch` runs after its
write: it must not set the switch again over what another request has done in
between, and does not, because the pipeline refuses it. `DecidedAsShown` follows
a decision to the ledger: the entry has the claim of the row that was shown, and
its amount up to the threshold, which is all the code ever pays.

`SerialDecisions` says what the status of a claim does protect from: a claim
decided by an answered request is never settled by a later one. A later refusal
of a settled claim does exist, and needs three requests: a refusal that
overlapped the settlement commits after it, the claim reads 'refuse' again, and
the policy lets a third request refuse it (`Undone`). `FiguresAgree` has the same
cause: a refusal that overtook a settlement leaves an entry in the ledger
without a settled claim on the page. It says nothing of a page under whose
loading an effect has committed. `EscalationQueued` excepts correlation ids
that were taken, by another content or by a row of `Backlog`:
`createApprobation` inserts nothing then and the answer is the same.

`TwiceOnlyUnanswered` is the composition's counterpart of `SerialDecisions`: the
bridge takes a repeated recommendation for a new content, because `requested_at`
is part of it, and what keeps a claim from being settled twice is the claim's
status alone. It does whenever the agent had read the first answer.
`ImplementsCourier` says what remains when it had not: the message may still
act, at any later time, but once. `RecommendationKept` speaks of the number
`Number` makes of the argument, whatever the model meant by it, and has the one
exception the code has: an amount of half a cent or less may become a command of
0, which the bridge's schema refuses.

**Bounds.** Two requests are enough for every race of two actors; three where a
property is about a retry of a retry, or about three handlers of one row.
Requests are symmetric, except in the runs with a liveness property. `Backlog`
is the tables an earlier process left: in `BridgeRoutes`, `ApprovedNotSettled`,
`UnsignedDecision` and `Cockpit` an approval that waits (`WaitingApproval`), which two requests
under the same correlation id can meet without a third one to ask for it. The
portfolio has one claim of each kind the policy distinguishes (below and above
the threshold, blocked, in a status it does not accept) and an id without a row;
amounts are small numbers around the threshold, the claim and zero. A log of
four rows has forks on both sides of a row. With a cache time of 2 and a clock
to 2, an entry can be fresh, at its limit and expired; two iterations reach the
loop's bound, and two calls in one answer are the least that compete for the
message. The amounts of `Tools` lie at zero, at half a cent, on both sides of
the threshold and of its half cents, and far above, and among the forms are
`true`, `false` and one-element lists; ages and bonuses on both sides of a step
of the grid. TLC's integers have 32 bits, so the refusal of a command above ten
million euros in `buildSettlementCommand` is reached by no amount (it is behind
the threshold anyway). The schema's maximum of ten millions is `MaxAmountEur`, 8
in the runs: a settlement of 9 is refused by the schema, and an escalation of 9 is
accepted, as its route has no maximum. A `PageLimit` of 1
leaves one of two pending approvals unseen; two `Labels` are enough to change
one. `MaxRows`, `MaxTime`, `MaxIterations` and `MaxCalls` are the bounds in the
guards (`MaxIterations` is the code's own).

**Deadlock** is checked where the system has no end, in `Cockpit` (the page
reloads); the other runs end when their requests or tasks have.

**Fairness.** `DeskFairSpec` assumes it of the agent's wait for an answer only:
`WF(AnswerStep(t))`, as Node's event loop fires the timer of `fetch` and resumes
the task. Of the bridge and the network it assumes nothing: the 10 s time-out
frees a task that has posted. Of the loop before the message it assumes nothing
either: the model and the bridge are called with time-outs, but the agent's
queries have neither a connection nor a query time-out
(`agents/_runtime/src/db/client.ts:53`), so a database that hangs holds a task
for ever. `EveryTaskEnds` therefore has the end of the loop as a premise
where it speaks of a task from its start. `EveryRequestServed` states
the bridge's assumption in the property: if every handler goes on (each of its
awaits is a promise that settles), every request is answered, whoever has given
up. That is the case of queries that the database answers or refuses, and not
quite of the channel: `BuzzAdapter.ts:58` posts without a time-out of its own
and a relay that hangs holds the handler until `fetch`'s default of five
minutes. `CockpitFairSpec` assumes that the browser reloads a page that was
served (every 30 s, by the tag in the page) and that a query answers or fails;
nobody has to open the page. `EveryApprovalSeen` supposes in its premises that
from some time on queries do not fail, a served page is open and not being left,
and no more approvals are pending than a page lists. Arrivals, crashes and the
model are not fair.

## What fails, and why it is the code's behaviour

The four failing runs are disagreements between a document and the code, quoted
under "findings" in `PROJECT.json`.

- `DoubleSettlement`: the claim's status is checked long before
  `settleClaimEffect` updates it unconditionally. `SerialDecisions` shows that
  only requests that overlap, or come in the wake of such requests, can do it.
- `RetryLost`: a content is consumed before its effect and never given back;
  the retry after an error in between is answered `consumed`. `NoSilentLoss`
  shows that the first caller at least was told.
- `ApprovedNotSettled`: the decision commits before the settlement it stands
  for, and the answer does not depend on it.
- `UnsignedDecision`: the documents ask for the CEO's signed event in production
  (`server.ts:116`, `ARCHITECTURE.md:70`, bridge `README.md:42`, `85` and `93`).
  `POST /approvals/:id/decide` verifies an event that is sent and otherwise
  takes `decided_by` as declared; `POST /killswitch` has no event in its body;
  and `requireSignedCommands` is read by `POST /commands` alone
  (`server.ts:200`). The settlement after a decision then runs as signed
  (`server.ts:264`), so that `EffectAuthorised` says of it only that the bridge
  vouched for it.

Other divergences seen while modelling; the models behave like the code and no
run is kept for them:

- `settleClaimEffect` pays min(ceiling, threshold), not the claim
  (`repository.ts:591`; `ARCHITECTURE.md:87` includes the claim's amount): more
  than a small claim, less than a large one, also when the CEO has approved the
  row. In the run `Cockpit` a row of 8 is paid 5.
- One failing query of the ten rejects the snapshot and every section says it is
  unavailable (`repository.ts:333`; `dashboard.ts:137` says that a failing
  section does not take the others down). `ReadFails` models it.
- The hash of an audit row covers the payload and the previous hash
  (`audit.ts:16`): `source`, `action` and `correlation_id` can be changed, the
  last row removed and all later rows rewritten without verification noticing
  (`ARCHITECTURE.md:82`: "hash chain ... proving immutability").
- Arguments of tools are read by `Number` (`tools.ts:75`): `montant: true` is a
  recommendation of 1 euro, `[5]` one of 5, and an age or a bonus of `null` is 0
  instead of the default.
- Under one correlation id a settlement closes an escalation that waits for the
  CEO, and a rejection turns an approved row into a refused one
  (`repository.ts:598`, `pipeline.ts:202`).
- The agent reports a message as accepted for HTTP 200, which the bridge also
  sends with the outcome denied (`agent.ts:109`).
- The switch is read once (`pipeline.ts:158`), so an effect may commit after a
  later activation; `LockedOut` is what does hold. A locked command ends as a
  dead letter, not as `denied` (bridge `README.md:107`).
- `POST /killswitch` moves the switch, then runs the command that would audit it
  unsigned, and the pipeline refuses it (`server.ts:287`; `docs/uses-cases/cu-3`
  says every transition is written to `audit_log`).
- The result of a tool enters the conversation as it is, `lire_client`'s names
  and phone numbers included (`agent.ts:203`, against the comment at 12).
- An escalation of more than ten million is accepted and can be approved, but
  the settlement executed for it fails the command's schema.
- The page lists at most 100 pending approvals, the oldest (`repository.ts:308`);
  further ones wait unseen. Nothing reloads the error page of a browser.
- A policy refusal leaves no dead letter (bridge `README.md:130`).
- A claims agent that signs has fewer rights than one that does not
  (`pipeline.ts:276`, against the comment at `policy.ts:124`).
- An escalation under a known correlation id is answered ok and inserts nothing
  (`repository.ts:248`); the execution after an approval keeps the approval's
  correlation id (`server.ts:263`, against the comment at 248).
- Of several recommendations in one answer only one is sent (`agent.ts:195`).

## Proofs

Everything below holds for any sets of requests, authors, claims, contents,
writers, tasks and calls, any portfolio and backlog, and any thresholds and
bounds. The assumptions are those the modules name (`ASSUME`), and TLC evaluates
each of them on some run: the types of the constants; a cache time, a loop bound
and a bridge threshold above zero; an agent threshold that is an integer
(`AgentTask`), in whole cents (`Tools`); one waiting row per correlation id
(`BacklogAssumption`); escalations and what an agent posts are settlements, as
`buildSettlementCommand` makes them (`ApprovalsAssumption`, `DeskAssumption`);
the buttons of a page post decisions in the name of a CEO key
(`FormsAssumption`); a page lists one approval at least (`PageLimitAssumption`);
the set of contents has the settlements the bridge builds
(`DecisionsAssumption`, `BacklogExecutable`).

**One pipeline, several surroundings.** In `Bridge` the pipeline is not alone:
the handlers open and decide approvals and move the switch between its steps.
So the facts about it are proved of `SharedSpec`, the pipeline among writers of
which only `Elsewhere` is known: approvals keep their subject and move on only
(`RowsMoveOn`), one row per correlation id (`RowsKeyed`), the switch moves and
ends the lock, nothing else changes. `Spec` implements it (`PipelineIsShared`)
and so does `BridgeSpec` (`BridgeIsShared`, where `Elsewhere` is proved of each
handler); `Desk` and `Cockpit` implement `BridgeSpec` (`DeskIsBridge`,
`CockpitIsBridge`). What is proved of `SharedSpec` therefore holds of all four,
and is used in the proofs about them (`DeskKeepsBridge` and `CockpitKeepsBridge`
state the results of the bridge for its callers).

**PipelineProofs.** The properties are not inductive as they stand; each follows
from an invariant that also says what holds on the way.

- `TypeCorrect`: `TypeOK` with `ControlOK` (a request past the schema carries a
  typed command, one about to open an approval a claim command): the types of
  audit and approval rows rest on which commands get that far.
- `AtMostOnce`, `AuditBeforeEffect`, `RegisterRefinement`: `OnceInv`, at most one
  request per content has passed `MarkConsumed` and may still commit or has
  committed (`Owner`), its content is consumed, and one in `effect` has its
  audit row. The refinement maps `taken` to `consumed` and `done` to the applied
  requests with their contents; every step is `Take`, `Apply` or a stutter.
- `LockedOutHolds`: `LockInv`, of the requests that arrived under the lock only a
  deactivation gets past the reading of the switch, and its effect ends the lock.
- `TruthfulOutcomeHolds`: `OutcomeInv`, where a request is tells whether it has
  committed, and an outcome is written only on the way out.
- `EffectAuthorisedHolds`, `SettlementCoversHolds`: `VettedInv`, what a request
  has passed at each stage, and that the row it read is that of its claim in
  everything but the status, which may have changed since.
- `BooksAgreeHolds`: `BooksInv`, every claim command on its way to the effect has
  its approval row, and every entry of the ledger a claim of the portfolio.
- `NoSilentLossHolds`: with `OnceInv`, each step that takes a request off its way
  to the effect leaves a result that tells of it.
- `SerialDecisionsHolds`: `SerialInv`, the status of a decided claim shows the
  decision, as it is and as every later request has read it (`Follows`).

**BridgeProofs.** `BridgeTypeCorrect` is `BridgeInv`: what a handler has
established of its request at each stage (`Established`), that the pipeline runs
what the handler was asked for, signed only after a verified event or a CEO's
approval (`Carries`), and that approvals on settlements can be executed.
`BridgeKeepsPipeline` and `BridgeRefinesRegister` carry the pipeline's results
over. `OneDecisionHolds` is from `DecisionInv`: a decision that went on has left
its row decided, which nothing takes back, so no other finds it pending.
`ApprovalsMoveOnHolds` and `SwitchMovedOnceHolds` are from `BridgeInv` with
`OnceInv` and `VettedInv`: the command that `POST /killswitch` runs is unsigned
and its author a CEO key, which step 3b refuses, so it never reaches an effect.
`LargeClaimHolds` also needs `ExecInv`: a decision that goes on executes the
settlement of the row of its correlation id, which is recorded as decided.
`AnswerInv` says what each status a handler answers stands for.

**DeskProofs.** `DeskInv` says where a message and its request are at each place
of a task, and that what a task had read when it posted was before its request
in the bridge too. With `BridgeInv`, `AnswerInv` and the pipeline's facts it
gives `DeskTypeCorrect`, `AnswerIsTrueHolds`, `TwiceOnlyUnansweredHolds` (where
`SerialDecisions` does the work) and `DeskRefinesCourier`: every step is `Send`,
`Act`, `Answer` or a stutter, because a request that was answered has committed
already or never will. `EscalationQueuedHolds` needs `OriginInv`: every row of
`approbations` was asked for by a request with its content, or was there at the
start.

**CockpitProofs.** `CockpitInv` says that every row a load or a page shows still
stands in the table with its subject, and that what a load has read is still so
while no effect has committed (`LoadAgrees`). With
`ExecInv` and `EntryInv` (every settlement applied has its entry in the ledger,
of `PipelineProofs`) it gives
`CockpitTypeCorrect`, `DecidedAsShownHolds`, `NoticeTrueHolds` (with
`DecisionInv`) and `FiguresAgreeHolds` (with `BooksInv`, and `RefusedInv`: a
claim that became 'refuse' was refused by a command).

**AuditChainProofs.** `ChainBrokenExactlyByStaleAppend` from `ChainInv`: in an
unforked log the i-th hash covers i payloads, a stale writer holds a shorter
hash than the last one, and any other writer the last one itself. Its heart is
`VerifyAppend`: a chain followed by a row verifies exactly if the chain does and
the row names its last hash. `EveryRowLinkedHolds` from `LinkInv`: what a writer
has read is a hash of the log or the start, since rows are never removed.
`TamperEvidentHolds` from `ChainInv`: the lengths of the hashes tell a missing
row, their contents an altered payload, and the label enters neither.
`TypeCorrect` is the type invariant.

**KillSwitchCacheProofs, AgentTaskProofs.** `ProbeSound`: `BoundedStaleness` and
`NeverOffFromNothing`, from `ProbeInv`: an "inactive" in the cache, or read and
not yet arrived, was true at the time its entry carries, or later. Each step of
the loop is a step of the probe or leaves it alone (`TaskImplementsProbe`), so
`TaskProbeSound` follows. `MessagesAreGated` is from `GateInv`: a task asks only
at its gates, at the last one after the model's answer, and sends only when let
through. `TaskTypeCorrect`, `StoppedLeavesNoTraceHolds` and
`NeverSelfSettlesHolds` are from `TaskLoopInv`: another iteration is left before
every answer of the model, nothing is sent before its stage or learned before
the end, and what waits to be sent is the choice among all the model wanted
(`WantedKept`). That the code's choice exists, the last recommendation of its
kind, is `LastExists`: positions have a greatest one.

**ToolsProofs.** `RecommendationHolds` with the type of the call; its lemmas are
the arithmetic of rounding (`CentsBounds`, `CentsWithinThreshold`: rounding to
the cent, whichever way half a cent goes, cannot carry an amount over a threshold
of whole cents) and the ends of `recommander_reglement` (`ReglementCases`).
`GridHolds` is from `ExecutedInv` (what a call became is what its tool makes of
its arguments): a premium is the bonus times the rest, rounded (`PremiumOf`),
which gives its bounds, its order in the bonus and the steps of the grid within
the rounding of both premiums (`RoundedRatio`).

**Only model-checked:** the three liveness properties, `EveryTaskEnds`,
`EveryRequestServed` and `EveryApprovalSeen`. They hold under fairness, and
`ENABLED` and fairness are out of the reach of these provers. The four
statements the code does not keep are refuted by TLC and need no proof.

## Abstractions

- A content stands for the canonical text of a command: its `nonce` is
  `requested_at`, the reason and the order of the keys, which all enter the
  command id. sha256 has no collisions.
- The reasons of refusals, payloads of audit rows, wording and logging are left
  out; audit rows keep action, content and correlation id. The chain is a module
  of its own, as the pipeline does not read it.
- A database statement or transaction is atomic, at Postgres' default isolation.
- A claim id that is no number makes the statement fail: a non-retryable
  failure, which any call may have.
- `montant_eur` of a claim is constant: the trigger that copies it fires on
  changes no modelled operation makes.
- Which errors count as retryable is not decided: a failing call may be either.
- Keys are compared after normalisation; an event is absent, valid or invalid.
- The clock does not run backwards; steps between two ticks are simultaneous.
  The row of `kill_switch` exists (the schema inserts it).
- In `AgentTask` the tools are names that succeed or fail; how a call is read and
  what it returns is in `Tools`. The amounts of the two modules correspond: a
  recommendation up to the threshold is a command, one above an escalation.
- Floating-point error is left out of the prices. In the rounding to the cent it
  is the choice between the two cents around an exact half; at every other
  amount in thousandths the product with 100 is on the right side of the half.
- Text arguments are words; trimming and truncation to a length are left out.
- A request is answered by the bridge process that received it.
- `POST /task` and the autonomy timer start tasks alike; the anonymisation of
  the task text before the first iteration has no failure the loop can see.

## Not modelled

- GET routes other than `/dashboard`, and the metrics: they read, and no code
  reads the counters back.
- The dashboard's weekly, ratio, client, macro and anonymisation figures and its
  timeline: read like the sections that are kept, and no property relates them.
- `RedisDlq` and the reading of the queue (nothing consumes it), polling of the
  relay (called by nothing), the expiry of approvals (configured, read by no
  code), `MemoryRepository` (a double for the tests).
- Nostr cryptography, the anonymiser's regular expressions and Presidio, the
  loading of skill files, SQL of the reading tools: conversions of text with no
  state the properties relate to.
- Seeds, scripts, deployment, CI: run by hand, configuration and pure I/O.

## Plan

Modelled, checked and proved: every component the plan of this project names,
and for each every safety property, action property and refinement a run checks.
What is left:

1. The safety part of the liveness arguments: that a task which waits is answered
   or can give up, and that a request in flight always has a step of its
   handler to take (as a formula on its position, without `ENABLED`).
2. To join `AuditChain` and `Pipeline`: the audit rows of a request as appends
   of a writer.
