# TLA+ models of adk-js

adk-js is the TypeScript Agent Development Kit: agents, tools and models, a
workflow engine that runs them as nodes of a graph, and sessions that record what
they do as events and from which a run is resumed when a human has answered. This
directory models it in two ways. Where the order of things decides whether the
program is right (the workflow engine, an agent's turn, live sessions, the session
services, the developer server's loader) there are state machines that TLC explores,
and proofs about ten of the twelve. Around them, where a computation decides, there are
definitions of that computation, checked as formulas over every small input. Paths below
are relative to `core/src/` unless they start with `dev/`.

1. [The system](#1-the-system) — components, state, interactions, what is hard
2. [The plan](#2-the-plan) — modules, order, what is next
3. [The modules](#3-the-modules) — how state and actions correspond to the code
4. [The runs](#4-the-runs) — what TLC checks, bounds, fairness
5. [The proofs](#5-the-proofs) — what TLAPS proves, from what, and how
6. [Where code and comments part](#6-where-code-and-comments-part)
7. [What is not modelled](#7-what-is-not-modelled)

## 1. The system

Everything runs on one JavaScript thread: two pieces of code interleave only at
an `await`, a `yield`, or a callback. What makes the system hard is how much is
in flight between two of them: node bodies, a retry timer, an abort signal, a
consumer that pulls events or walks away, and a session that is several events
behind the bodies. Only the services behind the adapters, the database first, are
shared with other processes.

### The workflow engine (`workflow/`, 31 files, 6 833 lines)

| Component | State it keeps | Operations | Interacts with | Module |
|---|---|---|---|---|
| graph (`graph.ts`, `utils/graph_validation.ts`, `utils/graph_parser.ts`) | edges, routes | `getNextPendingNodes`, `validateGraph`, parser | read by the loop | `WorkflowGraph`, `GraphViews` |
| orchestration loop (`workflow.ts`) | `LoopState`: trigger buffer, pending tasks, node states, outputs, interrupts, rehydrated runs | schedule pass, race, handle completion, fan-out, cleanup, finalize | starts node runners; reads the session through resume | `Activations`, `WorkflowLoop` |
| resume (`utils/rehydration_utils.ts`, `workflow.ts`) | none: rebuilds everything from `session.events` | `eventsForCurrentRun`, `reconstructNodeRuns`, `resolvedInterruptResponses`, `resumeInputsFromPlainText` | feeds the loop and the dynamic scheduler | `ResumeTurns`, `HumanInput` |
| node runner (`node_runner.ts`) | child context shared by all attempts: output, state delta, interrupts, reported error | attempt, retry with backoff, deadline, abort, checkpoint of the input | runs a body; pushes events to the channel | `NodeRunner` |
| dynamic nodes (`dynamic_node_scheduler.ts`, `node_context.ts`, `nodes/parallel_worker.ts`) | `state.runs`: one task per child path | `ctx.runNode`, replay, hand-over, deduplication; the pool of `ParallelWorker` | node runner; resume | `DynamicNodes` |
| node entry point (`run_node_as_invocation.ts`) | an `AsyncQueue` channel | drain, close, fail, settle, announce the output | between node runner and Runner | `Invocation` |
| node kinds (`nodes/`) | what a `FunctionNode` has already attached to events | wrap functions, tools, agents, joins, sub-workflows | bodies of the node runner | `StateCommits`, `HumanInput` |
| agents as nodes (`run_llm_agent_as_node.ts`) | none | append the input as a user turn, run the agent, collect its output | session directly; channel for events | `AgentHistory`, `HumanInput` |

### Around it

| Component | State | Operations | Module |
|---|---|---|---|
| runner (`runner/`) | one generator per call | look up session, plugins, append user message, run the root, persist and yield each event, abort checks, close toolsets; choose the agent to resume | `Invocation`, `Handover` |
| sessions (`sessions/`) | session, app and user state; event list; write stamps | create, get, append event, list, delete; in memory, database, Vertex AI | `StateCommits`, `DatabaseSessions`, `SessionServices` |
| agent turn (`agents/llm_agent.ts`, `agents/functions.ts`) | last event of the step, count of model calls, calls in flight | request, response, tool batch, confirmation, end of the turn | `AgentTurn`, `Callbacks` |
| request processors (`agents/processors/`) | none | instructions, contents, code, transfer, input and confirmation requests | `AgentRequests`, `RequestContents`, `CodeExecution`, `HumanInput` |
| live sessions (`agents/live_request_queue.ts`, `agents/llm_agent.ts`, `models/google_llm.ts`) | queue, parked readers, connection, resumption handle, reconnect count | send loop, receive loop, reconnect, transfer, teardown | `LiveFlow`, `ModelStreams` |
| composite agents (`sequential`, `loop`, `parallel`, `routed`) | position, iteration, merged generators | run sub-agents in order, again, side by side, in place of one that failed | `CompositeAgents` |
| transfers, `AgentTool` | transfer target, event actions | offer, make and remember a transfer; run an agent as a tool | `Handover` |
| tools (`tools/`) | mostly none | function, agent, long-running, OpenAPI, skill, artifact and memory tools; MCP and retrieval | `RestTools`, `Skills`, `AgentRequests` |
| plugins (`plugins/`) | per plugin | callbacks around every step; reflect-and-retry | `Callbacks` |
| auth (`auth/`) | credentials in state or a service | handshake, exchange, refresh | `Credentials` |
| A2A (`a2a/`) | task states, open artifacts | executor, aggregation, what is sent | `RemoteAgents` |
| models (`models/`) | per stream: text, calls under way | aggregation of streams, interactions API, registry | `ModelStreams`, `Interactions`, `AgentRequests` |
| memory, artifacts | files, versions, words | add, search; save, load, list, delete | `Memory`, `Artifacts` |
| context compaction (`context/`), planners | summaries in the session | compact, truncate, summarize; plan | `RequestContents`, `AgentRequests` |
| code executors, environment | files, container, sandbox | execute, time out, upload, collect | `CodeExecution`, `Sandboxes` |
| skills (`skills/`, `tools/skill/`) | activated skills, registry cache | load, activate, read, run a script | `Skills` |
| developer server (`dev/src`) | loaded agents, runner cache | compile, watch, reload, draw; HTTP, CLI, conformance recorder | `DevServer`, `GraphViews` |

### How a turn flows

    caller ──pull──> Runner.runAsync ──pull──> AsyncQueue <──push── node runners
                        │   appendEvent                               │  ctx.state
                        ▼                                             ▼
                     session (stored copy)                  session.state (live copy)
                        │
                        └── next turn: eventsForCurrentRun → LoopState → replay

The bodies write to the *live* session at once and to the *stored* one through
events that the runner commits when the consumer asks for them. The next turn
knows nothing but the stored events. A root that is an agent takes the place of
the channel: its generator moves only when the runner pulls.

### What is hard, and what must hold

- **Scheduling.** Tasks settle in any order, a node may be triggered while it
  runs, waits or has been rehydrated, and the concurrency limit cuts a pass short.
  No trigger may be lost, none may start two activations, a join must see every
  branch, a failure must stop everything before the turn ends.
- **Resume.** Which events belong to the run in progress is inferred. Recorded
  work must be reused exactly once, an answer must settle its question, a finished
  run must not be replayed.
- **Attempts.** The deadline abandons a body but cannot stop it; attempts share
  one context. A retry must start clean, an abort must be final, a waiting node
  must be resumable.
- **State.** Events are committed after the nodes moved on. A late commit must
  not roll a key back, and the store must end with the last write; with a
  database, other processes append and delete meanwhile.
- **The stream.** Consumer, abort, plugin errors and store errors can hit at
  every `await`. What was seen must be stored, the last output must be the result,
  a failure must come last, nothing may be left running or waiting.
- **Pools and merges.** Items fail, ask and abort in any order; a list must have no
  holes and no stale results, an item must not run twice, no branch may run ahead.
- **An agent's turn.** Whether a step ends the turn is read off its last event; an
  approval is found by scanning the session. The model must hear every tool, a
  gate must hold the turn, an approval must be used for its call and once.
- **Live sessions.** Requests, connections and nested agents share one queue. Each
  request must go to one connection, in order; each connection must resume its own
  agent's session; nothing may outlive the flow.
- **Caches.** Runners, compiled agents, credentials, sandboxes and skills are kept
  while what they were made from changes.

`PROJECT.json` lists every hazard at its line with the properties aimed at it,
those that no property covers included.

## 2. The plan

The order was that of importance: first the loop and what it resumes from, then
what each activation does, then what leaves the engine, then agents and sessions,
then the computations around them. Every module that is to be proved about has its
parameters as CONSTANTS with named assumptions, one action per handler, and no
RECURSIVE operator.

| # | Module | Composes | State |
|---|---|---|---|
| 1 | `WorkflowGraph` | — | done |
| 2 | `Activations` (abstract), `WorkflowLoop` | `WorkflowGraph` through the MC module; refines `Activations` | done; the refinement and three properties proved |
| 3 | `ResumeTurns` | extends `WorkflowLoop` over turns | done, four properties proved, and two of the loop's over sessions |
| 4 | `NodeRunner` | — | done, four properties proved |
| 5 | `StateCommits` | — | done, two properties proved |
| 6 | `Invocation` | — | done, five properties proved |
| 7 | `DynamicNodes` | — | done, four properties proved |
| 8 | `AgentHistory` | — | done, model-checked |
| 9 | `AgentTurn` | — | done, four properties proved |
| 10 | `LiveFlow` | — | done, four properties proved |
| 11 | `DatabaseSessions` | — | done, three properties proved |
| 12 | `CompositeAgents` | — | done, three properties proved |
| 13 | `DevServer` | — | done, model-checked |
| 14 | the computations: `RequestContents`, `Callbacks`, `Credentials`, `CodeExecution`, `RestTools`, `RemoteAgents`, `Handover`, `Sandboxes`, `Skills`, `SessionServices`, `Artifacts`, `Memory`, `ModelStreams`, `Interactions`, `HumanInput`, `GraphViews`, `AgentRequests` | instantiated by the MC module of the state machine they belong to | done, checked as formulas |

Left to do, in this order:

- An abstract specification of a session as an atomic log of events, implemented by
  the in-memory and the database service.
- Hazards without a run: callers of `ctx.runNode` that count their run ids,
  `runEphemeral`, the app and user rows of the database.
- MCP tools.

## 3. The modules

### WorkflowGraph — `graph.ts`, `utils/graph_validation.ts`

Edges are records of a source, a target and a set of routes. `GetNextPendingNodes`
is the triggering rule (unconditional edges, matching routes, `DEFAULT_ROUTE` when
nothing else matched), `ValidateGraph` every check of `validateGraph`. There is no
state: MC modules build their graphs with it, and those of the passing runs assert that
they are valid, so that no property is checked on a graph the constructor refuses.

### Activations and WorkflowLoop — `workflow.ts`

`WorkflowLoop` is one turn of `Workflow.runLoop`. Its variables are the fields of
`LoopState` (`keys`/`buffer` is the insertion-ordered trigger map, `pending`/`task`
the promises, `status`, `interrupts`, `runCounter`, `outputs`, `activated`,
`rehydrated`, `raised`) plus what the bodies are doing (`live`, `execs`).

| Action | Code |
|---|---|
| `SkipHeld`, `StopAtLimit`, `FastForward`, `HandOver`, `StartBody` | one key of `scheduleReadyNodes` / `startNodeTask`: skip, stop at `maxConcurrency`, replay a completed run, hand an answer over, execute |
| `Race` | `Promise.race` over `pending`, first settled in insertion order |
| `Settle` | a body ends: done, error, interrupt, output claimed by a delegate, aborted |
| `DeliverError`, `DeliverInterrupt`, `DeliverWait`, `DeliverCompletion`, `Fanout` | `handleCompletion` and `bufferDownstreamTriggers`, joins included |
| `Rethrow`, `Finalize` (with `Remaining`) | `cleanupPending`, `collectRemainingInterrupts`, `finalize` |
| `Abort` | the external signal |

A pass and a fan-out are synchronous in the code. They are walked one key per step
and `Settle` is disabled meanwhile, which yields the same set of behaviours with
smaller actions. A value is the set of tokens it was made from, so that `input`
says which executions contributed to it: this is what the join and resume
properties compare. `Activations` is the contract, with three variables: queued
triggers, running nodes, and whether the turn is open, failing or closed.

### ResumeTurns — `utils/rehydration_utils.ts`, resume paths of `workflow.ts`

Extends `WorkflowLoop` with `session`, the sequence of turns and the node events
of each. `EventsForCurrentRun`, `ResolvedIn`, `ReconstructNodeRuns` and the
plain-text rule are functions of it, as in the code; `Reply`, `PlainText` and
`RefuseReply` begin a turn. Interrupt ids are fresh for every body execution, as
`RequestInput` makes them. Premise `CarefulClient`: a client answers all open
questions at once, and writes text only if at most one is open. The graph of the run
has no node with `rerunOnResume`, and no terminal node is handed an answer as the last
thing of a run (section 6 says what happens with other clients and graphs). Three more
premises are named, for the proofs to use and for the run to assert of its graph:
`Forest` (a node that several edges lead to is a join, so each node is activated once),
`AsksOnly` (a body that asks does nothing else, and its node takes the answer as its
output), and `Retraceable` (no cycle, a join's predecessors lead to it on every route,
a completed body leaves one event, the session starts with its first turn).

### NodeRunner — `node_runner.ts`, `utils/retry_utils.ts`, `node_context.ts`

One activation: `before` plugins, attempts, `backoff`, and the end. What an attempt
leaves in the context is named by the attempt, so a leftover can be told from own
work. A deadline makes the body `abandoned`: it goes on until its current step is
over, beside the retry. Premise `Obedient`: an abandoned body does not touch its
context any more (the code asks it to through `ctx.abortSignal`, which it clears
once the attempt is over).

### StateCommits — `sessions/state.ts`, `state_write_order.ts`, `in_memory_session_service.ts`, `nodes/function_node.ts`

`SetState` writes the live session and the context's delta with a stamp of the
write clock; `EmitValue` and `EmitEvent` attach the delta to an event; `Commit`
applies the oldest event to both copies, key by key, under `shouldApplyDeltaWrite`;
`ResetState` is what a retry discards; `NextTurn` is `getSession`. Each write writes
its own clock tick, so a value says which write it is.

### Invocation — `runner.ts`, `run_node_as_invocation.ts`, `utils/async_queue.ts`

One `runAsync` call from the lookup of the session to the closing of the toolsets.
`at` names the `await` the runner stands at; each action of the runner is one
`await` that is over, the abort check after it, and the way to the next. `hand` is
the event between root and consumer, `queue`/`closed`/`failed` the `AsyncQueue`.
`direct` tells a root agent (a generator, moving only when pulled) from a root
node (running on its own). `Leave` is the `finally` of `runNodeAsInvocation`: close
the channel, wait for the body. The plugins may throw or replace an event at every
callback; a replacement is assumed to keep the event's output and partial flag.

### DynamicNodes — `dynamic_node_scheduler.ts`, `nodes/parallel_worker.ts`

`ctx.runNode` driven by the pool of `ParallelWorker`, over turns. `runs` is
`state.runs`; `Schedule` is `scheduleRun` with its cases: share the task in flight,
return the settled one, complete without running, hand an answer over, ask again,
execute. `Return` is one worker coming back from its `await` and claiming the next
item; `Finish` is `Promise.all` with failures before questions before the list. A
result is the item and the input it was computed from. `Abort` is a failed sibling
of the worker or the caller's signal (`cut`: nothing is committed any more).

### AgentHistory — `run_llm_agent_as_node.ts`, `agents/processors/content_processor_utils.ts`

A chain of agents as nodes: the input goes to the session directly, events through
the channel, and `getCurrentTurnContents` walks back over whatever the session has
at that moment.

### AgentTurn — `agents/llm_agent.ts`, `agents/functions.ts`, `agents/processors/request_confirmation_llm_request_processor.ts`, `tools/function_tool.ts`

One agent over the messages of a session, with the model as an environment that
calls, says, streams, reports usage or fails. `log` is the stored session, `hand` an
event that was yielded and is not stored; `at` names the `await` the turn stands at.
A call is named by its number, and the gate it raises by the call. A typed "yes" is looked
up as the code does it, backwards from the message it is in: a gate raised later in that
turn is not approved by it. The comparison of an approval with the arguments of its call
(`bindApprovedCalls`) is left out: a gate is of one call, whose arguments do not change.

| Action | Code |
|---|---|
| `UserSends` | a message: text, a typed "yes", or decisions on gates |
| `Confirm`, `ResumeCall`, `Resumed` | the confirmation processor: find the decisions in the session, run the approved calls, answer |
| `Paused`, `CallModel`, `CallTooMany` | `runOneStepAsync` until the model is called |
| `ModelCalls`, `ModelSays`, `ModelReports`, `ModelStreamsText`, `ModelFails`, `StreamEnds` | one response of the stream and its postprocessing |
| `RunCall`, `BatchThrows`, `Batched`, `BatchIsSilent`, `BatchAnswers`, `BatchAsks` | `handleFunctionCallList` and the merged answer |
| `Store` | the runner commits what was yielded and asks for more |
| `EndStep` | the loop of `runAsyncImpl` reads the last event of the step |
| `Cut` | abort, error or crash at any `await`: what is not in `log` is gone |

### LiveFlow — `agents/live_request_queue.ts`, the live half of `agents/llm_agent.ts`, `models/google_llm.ts`, `runner.runLive`

`queue`/`waiters`/`shut` is the `LiveRequestQueue`; `conns` every connection opened so
far, with the send loop on it (`loop`, `hand`) and what became of it; `flows` the stack
of flows, one for each agent that was transferred to, of which only the innermost
moves. A resumption handle is named by the connection that issued it, so that whose
session it resumes can be read off it.

| Action | Code |
|---|---|
| `SendRequest`, `CloseQueue`, `Abort` | the caller |
| `TakeRequest`, `TakeClose`, `Park`, `Dispatch`, `DispatchClose`, `DispatchFails`, `StopSending` | the send loop of one connection |
| `Connect`, `ConnectFails` | opening, with the handle or with the history to send |
| `SendHistory`, `HistoryFails` | the `await` of `sendHistory`, which stands outside every `try`: if it rejects, the flow throws without a teardown |
| `ReceiveHandle`, `ReceiveGoAway`, `ReceiveCall`, `ReceiveEnd`, `ReceiveTooLate`, `ServerEnds` | server messages and the end of the socket |
| `ToolAnswered`, `ToolAnswerFails`, `Transfer`, `NestedEnds` | a tool's answer, a transfer and the nested flow inside the receive loop |
| `Teardown`, `Settle`, `ConsumerStops` | the `finally` blocks and the choice between ending, reconnecting and throwing |

### DatabaseSessions — `sessions/database_session_service.ts`

One session and the copies of it that several processes hold: `row` (state and
`updateTime`), `events` (their rows), `copy` (the `Session` objects). An append is a
transaction that locks the row (`phase` "appending"), checks whether the copy is stale,
reloads it if so, and commits or fails; `Delete` and `DeleteEvents` are the two
statements of a deletion, `Crash` a process that ends between them or holding a copy.

### CompositeAgents — `agents/sequential_agent.ts`, `loop_agent.ts`, `parallel_agent.ts`, `routed_agent.ts`

Each agent's current run is a generator (`run`): it moves when asked and is held at
its `yield`. `Emit` and `Finish` are the leaves; `Sequence`, `Loop`, `Parallel` and
`Routed` what a composite agent does with what came up from below; `Take`,
`AskForMore`, `Leave`, `RootEnds` the runner. There is one run for each agent. A
`ParallelAgent` that failed below a routed agent leaves branches going, and a loop
around the two would start those agents a second time beside themselves: the premise
`OneRunAtATime` excludes such a tree.

### DevServer — `dev/src/utils/agent_loader.ts`, `dev/src/server/adk_api_server.ts`

`disk` holds the version of each file, `passes` what each loading pass has read,
`preloadedAgents` and `runnerCache` what requests are served with. `Edit` and
`InvalidateAll` are the developer and the watcher, `GetRunner`/`ExecuteAgentRun` a
request, `Compile`, `LoadAgentFromFile` and `EndPass` the pass, which requests share.

### The computations

These modules have no variables. Each defines a computation of the code as a function of
its inputs, and the MC module of the state machine it belongs to states what must hold
of it as a named `ASSUME` over every input up to a size given there. TLC evaluates
these formulas at the start of the run of that module, and refuses to go on if one is
false. Data is abstracted to what they tell apart: a word is a member of a small set, a
string where its parts matter is a sequence.

| Module | Code | Checked in | What its formulas say |
|---|---|---|---|
| `RequestContents` | `content_processor_utils.ts`, `content_request_processor.ts`, `context/`, `branch_trie.ts` | `MCAgentTurn` | in every request an answer follows its call; compaction loses nothing a reader could see and concerns no other reader; truncation keeps both ends |
| `Callbacks` | `functions.ts`, `llm_agent.ts`, `plugin_manager.ts`, the reflect-retry plugins | `MCAgentTurn` | a tool runs exactly when every callback before it was silent; a model call's error comes last; retries are bounded however invocations interleave |
| `Credentials` | `auth/`, OpenAPI auth handlers | `MCAgentTurn` | a tool asks when it must and only then; a sign-in with the right state reaches the tool now and later; other answers change nothing; a refresh loses nothing |
| `CodeExecution` | `code_execution_request_processor.ts`, `code_execution_utils.ts`, `code_executor_context.ts` | `MCAgentTurn` | every file is loaded once; failing code is given up; what runs is what the model wrote and left open |
| `RestTools` | `tools/openapi_tool/` | `MCAgentTurn` | arguments and credentials go where the document says; resolving references ends and leaves none |
| `RemoteAgents` | `a2a/` | `MCCompositeAgents` | the caller stores what the remote session stores, artifacts once and whole; everything is sent once |
| `Handover` | `base_agent.ts`, `functions.ts`, `llm_agent.ts`, `agent_transfer` processor, `event_actions.ts`, `runner.ts`, `agent_tool.ts` | `MCCompositeAgents` | a conversation stays where it was handed; an answer resumes who asked; one event answers a batch; callbacks speak for their agent |
| `Sandboxes` | `code_executors/`, `environment/`, `file_utils.ts` | `MCCompositeAgents` | runs see their files; failures are told; every running container is one the process removes; a session keeps its sandbox |
| `Skills` | `skills/`, `tools/skill/` | `MCCompositeAgents` | directory and zip agree; every skill and file is found; a toolset has the tools of its activated skills; inline scripts run only approved |
| `SessionServices` | reads of the in-memory and database services, `vertex_ai_session_service.ts` | `MCDatabaseSessions` | all return the same window; pages partition the list; an event read back is the event written |
| `Artifacts` | `artifacts/` | `MCDatabaseSessions` | three services agree after any sequence of saves and deletions; a save torn by a crash loses no version |
| `Memory` | `memory/` | `MCDatabaseSessions` | a search gives a user's own events, each once; facts are sent in order and once |
| `ModelStreams` | `streaming_utils.ts`, `live_connection_utils.ts` | `MCLiveFlow` | complete turns are kept in order, calls survive the connection, pieces make one call |
| `Interactions` | `interactions_utils.ts`, `interactions_request_processor.ts` | `MCLiveFlow` | a streamed answer is the whole answer; the server is told what is new and nothing else |
| `HumanInput` | `request_input` processor, `user_input_request.ts`, `node_tool.ts`, `run_llm_agent_as_node.ts`, `hitl_utils.ts` | `MCResumeTurns` | a tool is finished by the message that answers all its questions, once; a client is shown what is open |
| `GraphViews` | `utils/graph_parser.ts`, `dev/` `agent_graph.ts`, `app_info.ts`, `structure_graph.ts` | `MCWorkflowLoop` | a parsed graph has the edges that were written; every level of the drawing agrees with it; the step taken is lit |
| `AgentRequests` | instructions and the other request processors, registry, planners, built-in tools, `finish_task` | `MCWorkflowLoop` | there is one way to answer, tools are offered once, processors in order; what is saved is what was said |

## 4. The runs

| Run | Module | Distinct states | Expectation |
|---|---|---|---|
| `workflow_loop` | `MCWorkflowLoop` | 11 471 | pass |
| `resume_turns` | `MCResumeTurns` | 2 758 | pass |
| `node_runner` | `NodeRunner` | 393 267 | pass |
| `state_commits` | `StateCommits` | 167 425 | pass |
| `invocation` | `Invocation` | 139 673 | pass |
| `dynamic_nodes` | `DynamicNodes` | 195 966 | pass |
| `agent_turn` | `MCAgentTurn` | 888 861 | pass |
| `live_flow` | `MCLiveFlow` | 322 723 | pass |
| `database_sessions` | `MCDatabaseSessions` | 4 177 812 | pass |
| `composite_agents` | `MCCompositeAgents` | 377 568 | pass |
| `agent_history` | `MCAgentHistory` | — | violation of `RequestIsOwnTurn` |
| `reloaded_agents` | `DevServer` | — | violation of `NewRunSeesTheChange` |

- **`workflow_loop`** — a graph with a fan-out from START, a join behind a routed
  edge, a node that routes back to itself, a default route into a node that waits
  for output and may ask, two terminal nodes, limit 2, failures and aborts; fresh,
  or resuming a turn in which two nodes completed, the join failed and a question
  was answered. `KeepsActivationContract` is the refinement of `Activations`;
  `NoRunnableTriggerLost`, `JoinMissesNoOutput`, `AsksInsteadOfAnswering` and
  `Terminates` are the loop's own. Bound `MaxExecs = 2`: executions of a body that
  may still emit a route, i.e. two rounds of the self-loop; a third adds no new
  configuration of buffer, pending tasks and statuses. `JoinMissesNoOutput` is a
  property of graphs in which no cycle runs *through* a node's other predecessor:
  with a two-node cycle `b → w → b` a predecessor can be running again and have
  dropped out of the join's view, as the code's COMPLETED test allows. The theorem
  about it takes graphs that satisfy `Forest`. This run's graph does not, since it has
  two cycles; that the property follows from `Forest` and `JoinsStartAfresh` was checked
  with TLC on a smaller graph of that kind (2 649 states) before it was proved.
- **`resume_turns`** — three turns: a worker, two questions side by side, a join,
  a question behind it, a report. Three turns is the least in which a run pauses,
  is resumed, pauses again and is resumed again; refused replies and failed turns
  take part. The resume properties are stated for graphs without cycles: each node
  has one activation in a run. `MCRetraces` asserts `Forest`, `AsksOnly` and
  `Retraceable` of this graph, so the theorems' premises are those of the run. The
  invariants of their proofs were also checked on a graph with routes (34 372 states).
- **`node_runner`** — three attempts, so a second retry sees leftovers of two;
  two acts per attempt (write, then fail); with and without deadline (`hasTimeout`
  is chosen in `Init`); abort at any moment.
- **`state_commits`** — two contexts race on one key, a third travels on events
  with an `app:` key; four writes, two invocations. Four writes are two per writer
  with commits between them. `StoredCatchesUp` excludes writes a retry discarded.
- **`invocation`** — three events: one in the consumer's hands, one in the
  runner's, one in the queue.
- **`dynamic_nodes`** — three items on a pool of two (one item is claimed late),
  three turns, up to three inputs, a graph that routes back to the worker.
- **`agent_turn`** — three messages (ask, decide, send the decision again), two calls
  (a batch in which a gate stands beside another tool), two responses of a model call
  (a streamed part or a usage report after the whole answer), two model calls per
  turn (`maxLlmCalls`), plain-text confirmation switched on. The four properties are
  about what crosses turns and cuts: an approval works once and only for its call
  (`ApprovalBinds`, in which a "yes" counts only for a gate raised before it, with no other
  message between), decisions are carried out (`DecisionsAreCarriedOut`), a gate keeps
  the model from being called (`GateHoldsTheTurn`), tools are heard (`ToolsAreHeard`).
- **`live_flow`** — two requests (one can overtake the other), two server messages (a
  handle and then what makes it matter), three connections, a nested flow, one
  reconnect attempt. With these a request can be parked for, in hand or queued while
  its connection is cut by a reconnect or a transfer, and a handle can be inherited. The
  history is sent or fails on each connection that does not resume; that a failure leaves
  the connection open is what the code does, and `NothingOutlivesTheFlow` excepts it
  (section 6). With `TeardownIsComplete` it says that there is no other such end.
- **`database_sessions`** — two processes, three events (one process misses two of the
  other), three timestamps, so that clocks may agree or not, two deletions (a deletion
  of the session that was created anew). The copies are interchangeable: the run uses
  symmetry over them, and checks invariants only.
- **`composite_agents`** — a sequence of a loop and of a routed agent one target of
  which runs two agents in parallel: each kind inside another. Two events per leaf (an
  event after the one that escalates, a branch that could run ahead), two iterations.
- **`agent_history`** — two agents, one tool call; section 6. `RequestIsOwnTurn` asks of a
  request that it starts at the agent's input and goes on with the agent's own events, as
  many of them as are committed: that the newest may be missing is not held against it.
  With `Prompt = TRUE`, where the runner commits each event before the agents go on, TLC
  finds the property to hold (34 states), so it is the delay that breaks it.
- **`reloaded_agents`** — two apps, two requests, one edit; section 6.

**Fairness.** Every liveness property assumes weak fairness of the engine, that
is: timers fire and continuations of settled promises run, which the JavaScript
event loop guarantees. Beyond it:

- `Terminates` and `TurnEnds` assume bodies end (`WF(BodyStep)`, `WF(Bodies)`).
  The engine has no way to stop a body without a deadline, so nothing weaker would
  do.
- `Settles` assumes *nothing* of the body and holds only with a deadline, which is
  what the deadline is for.
- `Ends` assumes that what the runner awaits arrives, that a root that can move
  goes on to its end, and that the consumer asks for the next event or stops. A
  consumer that holds the generator forever keeps the call open, by design of
  generators. It does not assume that anyone ever aborts.
- `CloseEndsTheFlow` assumes that the flow's own steps and send loops go on (its `await`s
  of `connect` and `sendHistory` settle), that a socket closed on this side ends, and that its end is received. It assumes nothing of
  servers: they need not send, or end by themselves.

`MaxTurns`, `MaxWrites`, `MaxInputs`, `MaxExecs`, `MaxActs`, `MaxEvents`, `MaxCalls`,
`MaxResponses`, `MaxRequests`, `MaxMessages`, `MaxConnections`, `MaxDepth`, `MaxTime`,
`MaxDeletes` and `MaxEdits` bound the runs; `MaxAttempts`, `MaxConcurrency`,
`MaxIterations` and `MaxLlmCalls` are parameters of the code. Deadlock is checked where
a model that has finished stutters explicitly; `agent_turn`, `database_sessions`,
`composite_agents` and `reloaded_agents` stop at their bounds or at the end of the run,
and say `CHECK_DEADLOCK FALSE`. Type invariants are proved (section 5) or kept in the
modules; no run checks only types.

Each property of a passing run has a mutant: a named variant of one action
(`…Peeking`, `DequeueTaskOnly`, `WakeNobody`, `LeaveAtOnce`, `NeverLocked`,
`InheritedHandle`, …, defined just before the action, with the mistake it makes in its
comment) under which TLC finds the property violated. `PROJECT.json` pairs them.

## 5. The proofs

TLAPS checks the following for *all* values of the constants that satisfy the
modules' named assumptions. TLC first checked each invariant on the instances above.

| Module | Theorem | States | Premise |
|---|---|---|---|
| `WorkflowLoopProofs` | `TypeCorrect` | `[]TypeOK` | — |
| | `OpenQuestionsAreReported` | `[]AsksInsteadOfAnswering` | — |
| | `NoTriggerIsLost` | `[]NoRunnableTriggerLost` | — |
| | `LoopKeepsTheContract` | `KeepsActivationContract` (refinement of `Activations`) | — |
| | `JoinGathersEveryOutput` | `[]JoinMissesNoOutput` | `Forest`, `JoinsStartAfresh` |
| the same, over sessions | `SessionTypeCorrect` | `[](TypeOK /\ SessionTypeOK)` | — |
| | `NoTurnLosesATrigger` | `[]NoRunnableTriggerLost` | — |
| | `EveryTurnReportsItsQuestions` | `[]AsksInsteadOfAnswering` | — |
| | `FinishedRunIsOver` | `[]FinishedRunIsNotReplayed` | the turn emitted a node event |
| | `AnAnswerIsFinal` | `[]AnswerSettlesTheQuestion` | `Forest`, `CarefulClient`, `AsksOnly` |
| | `CompletedWorkIsNotRepeated` | `CompletedRunsAreNotRepeated` | `Forest`, `CarefulClient`, `AsksOnly` |
| | `RecordedWorkIsKept` | `[]RecordedWorkIsReused` | `Forest`, `CarefulClient`, `AsksOnly`, `Retraceable` |
| `NodeRunnerProofs` | `TypeCorrect` | `[]TypeOK` | — |
| | `CancellationIsTerminal` | `NoRetryAfterAbort` | — |
| | `ReportedErrorsFail` | `[]NoSilentSuccess` | — |
| | `WaitingNodesAreResumable` | `[]WaitingIsResumable` | `Obedient` |
| | `OnlyTheSuccessfulAttemptCounts` | `[]OnlyThisAttemptCounts` | `Obedient` |
| `StateCommitsProofs` | `TypeCorrect` | `[]TypeOK` | — |
| | `LateCommitsAreHarmless` | `CommitsNeverRollBack` | `Separated` |
| | `StoreCatchesUp` | `[]StoredCatchesUp` | `Separated`, `AppKeysOnEvents` |
| `InvocationProofs` | `TypeCorrect` | `[]TypeOK` | — |
| | `NothingIsLeftRunning` | `[]NoBodyOutlivesTheRun` | — |
| | `AbortIsSilent` | `NothingSeenAfterAbort` | — |
| | `FailureComesLast` | `[]FailureIsSeenLast` | — |
| | `LastOutputIsRight` | `[]LastOutputIsTheResult` | — |
| | `StoreIsAhead` | `[]SeenIsStoredIsEmitted` | — |
| `DynamicNodesProofs` | `TypeCorrect` | `[]TypeOK` | — |
| | `ListHasNoHole` | `[]ListIsOfThisRun` | — |
| | `ItemsRunOnce` | `[]RecordedItemsRunOnce` | `Careful` |
| | `PauseReportsTheOpen` | `[]AsksWhatIsOpen` | `Careful` |
| | `NoQuestionTwice` | `AnsweredIsNotAskedAgain` | `Careful` |
| `AgentProofs` | `TypeCorrect` | `[]TypeOK` | — |
| | `TurnIsHeld` | `GateHoldsTheTurn` | — |
| | `AnswersAreTold` | `[]ToolsAreHeard` | — |
| | `NoDecisionIsDropped` | `[]DecisionsAreCarriedOut` | — |
| | `NoWorkUnapproved` | `ApprovalBinds` | — |
| the same, trees of agents | `TreeTypeCorrect` | `[]TreeTypeOK` | `OneRunAtATime` |
| | `NobodyRunsAhead` | `[]NoRunAhead` | `OneRunAtATime` |
| | `EveryEventIsHeard` | `[]NothingIsLost` | `OneRunAtATime` |
| | `EscalationEndsTheLoop` | `EscalationLeavesTheLoop` | — |
| `DatabaseSessionsProofs` | `TypeCorrect` | `[]TypeOK` | — |
| | `NoAppendIsUndone` | `[]RowIsTheFold` | — |
| | `DeletionIsComplete` | `[]DeletedSessionLeavesNothing` | — |
| | `CopiesMissNothing` | `[]OrderedClocksMissNothing` | in the property: clocks agree, nothing is deleted |
| `LiveFlowProofs` | `TypeCorrect` | `[]TypeOK` | — |
| | `NoRequestIsLost` | `[]HandedOverInOrder` | — |
| | `HandlesStayWithTheirFlow` | `[]ResumesItsOwnSession` | — |
| | `TeardownIsComplete` | `[]NothingOutlivesTheFlow` | — |
| | `CutMeansSilent` | `CutConnectionTakesNothing` | — |

**The loop.** `AsksInsteadOfAnswering` looks only at the end of a turn, so the
invariant has to know all along that what the loop collected (`raised`) is what
the waiting nodes asked (`Collected`). That survives a completion only if the node
delivered was running until now, which needs `Tracked` (a pending node is running,
and is pending once: `Promise.race` cannot win with a node that is gone), and
`scheduleReadyNodes` takes a trigger only of a key that is in the buffer
(`Buffered`). Insertion order matters: `keys`, `todo` and `pending` are injective
sequences, and the lemmas `WithoutFacts` and `AppendFacts` say what deleting and
adding a map key does to one.

`NoRunnableTriggerLost` and the refinement need to know what became of every
trigger and every body (`Accounted`): a key that a pass has stepped over is held or
waits for the limit, and then something is pending, so the loop comes back to it
(`Passed`); a running node is pending unless the turn is failing; a body that
executes is the latest one of a pending node, unless the turn is failing. The
refinement maps queued triggers, running nodes and the end of the turn; every step of
the loop is a step of `Activations` or leaves all three alone.

**Joins.** A join is started with what its predecessors have left so far, and a later
completion must not find it started. `Once` says that on a `Forest` no node is triggered
twice in a turn, and only when all that lead to it have completed. So what the
predecessors of a triggered join put out cannot change any more; it is their own
(`OwnOutputs`), and all of it is in the join's trigger or, once it runs, in its input
(`Gathered`). `JoinsStartAfresh` is needed because a join that is resumed with an answer
gets the answer, not its predecessors' outputs.

**The turns of a session.** What a turn rebuilds is a function of the events of the
turns before, so the invariants relate the two. `RunInv` says that within the run in
progress a node leaves events in one turn only (`OncePerRun`), since one that has left
something is answered from it when its turn comes (`Matched`), and no body of it executes
(`Fresh`). From this follow that answers are final and that completed work is not executed
again. That no recorded run is orphaned needs the converse: every node with a recorded
run must be triggered again. `RetraceInv` says that a node leaves something only when
all that lead to it have, on routes that lead to it (`Founded`), and that a turn that
resumes goes the same way: a node completes on what it left and on the routes it left
(`Retraced`), and what that leads to has its trigger or is a join that waits
(`HandedOn`). If recorded runs were left unmatched when the turn returns then, the
graph having no cycle, one of them is of a node all of whose predecessors have completed
again; so it was triggered, and no trigger is lost. What the concatenation of the turns'
events contains (`FlattenSeq`, which is recursive) is had from its defining equation
(`FlattenDefined`) and from the least position at which a claim about it would fail
(`FlattenFacts`, `FlattenSingle`).

The premises are what TLC found to be needed, on graphs beside those of the runs:

- *The turn emitted a node event.* With START leading to one node that only asks, the turn
  that hands over its answer emits none, and the next message replays the finished run
  (section 6). Every other turn that returns an output ends its run.
- *A join's predecessors lead to it on every route.* A join behind a route that was not
  taken can lose its recorded run (section 6).
- *`CarefulClient`, `AsksOnly`.* Other clients make a question be asked twice, and a
  `rerunOnResume` node can be executed again after it completed (section 6). A body that
  asks and puts something out as well would leave two results of one run.

**The activation.** `BodiesInOrder` says that only the current attempt's body can
be live and later attempts have not begun; with `BackoffIsNotAborted`, an attempt
begins only while the signal is unfired. Whether a waiting node is resumable
depends on `recorded` meaning that an event of this very attempt carries the input.
`Obedient` is needed: with `Obedient = FALSE` TLC finds the property false (section 6).

**State.** Every entry of a `ctx.state` key that is on its way carries the stamp of
its own write, no newer than the live value (`EntriesFaithful`), and a stamped live
value is its own stamp (`LiveIsStamped`). So a commit writes a key only when it
writes the value that is already there. `Separated` says that the contexts and the
keys of self-built events are apart from those of `ctx.state`; without it the
property is false (section 6). That the store catches up is the other half: the last
write of a key is stored, discarded or still on its way (`NoWriteIsLost`), its commit
meets nothing newer (`StoredIsStamped`), and keys that travel on events settle in the
order of the stream (`EventsSettle`). Shared keys have to travel on events for this
(`AppKeysOnEvents`): their commits follow the stream and look at no stamp.

**The call.** `Stages` relates where the runner stands to how far the root is,
`OneInHand` says that exactly the plugins and the store hold an event. `Tally`
counts: until the runner leaves, seen + in hand + queued = emitted. Hence when the
queue is drained everything emitted was seen, and a failure, which is only thrown
then, comes last. `InOrder` refines the count: event by event, the outputs seen, in
hand and queued are those emitted; so `AlreadyLast`, which the code evaluates over
what it emitted, says the same of what the consumer saw. `Kept` adds the session: the
stored events after the user's message are a prefix of those emitted, and what was
seen is stored, which only the runner's order (store, then hand out) gives.

**Items of a worker.** While the worker runs, every item below the next one to claim
is in the pool or accounted for: completed with a result of this run, asked and
reported, or failed (`Collected`). What the worker ends with then follows from how its
items ended (`Concluded`), and the list has no hole. The other three theorems are about
what the session remembers over turns (`Answering`, `Executed`): an item is executed
only when the session has nothing of it, and it asks anew only when all it asked before
was answered. This holds of a client that answers all open questions at once; with
`Careful = FALSE` TLC finds the three false, because an item that is still asked is
executed again when the worker resumes (section 6).

**The turns of an agent.** The stored events are the only memory between turns, so the
invariant relates what they say of a call to what the turn has in hand of it. Every
call is asked about by one gate, and an answer of a gated call follows that gate
(`AskedOnce`): hence `Spent`, which looks behind the gate only, sees every answer, and an
approval cannot work twice. A decision of a turn that was not cut is spent, or in the
hands of the confirmation processor (`CarriedOut`), whichever of several gates it came
from. A stored gate of the present turn has ended the invocation (`GateEnds`); a step
that had no tools leaves no answer untold (`Heeded`), which is what `EndsTheTurn` relies on
when a usage report comes last.

**Trees of agents.** `Shape` says where the agents stand: a composite agent has one
sub-agent under way, a parallel one all of them, and everything it is not at is idle.
`Path` follows an event: what an agent has at its yield is held by every agent between
it and the leaf the event is of. `Heard` adds what the runner was given: a leaf has one
event at most that the runner was not given and stands at its yield meanwhile; an agent
that was asked for more holds below it only events the runner is done with. So a leaf
that is asked has nothing unheard. When the root has ended every agent is idle, or
below a target of a routed agent that another one took the place of (`AllOver`), and
an idle leaf has nothing unheard. The loop has an invariant of its own (`Leaving`): one
that passed on an event that escalates is at the sub-agent that yielded it or has noted
that it shall end, whatever the tree. `OneRunAtATime` is needed by the others: in a loop
around a routed agent whose first target is parallel, the first iteration can abandon a
branch that goes on and the second starts it again. The code has two generators of the
branch then and the model one, and TLC finds both properties false there. The invariant
was checked on three trees (377 568, 123 822 and 82 403 states).

**The database.** The row is locked while a process appends (`OneHolder`), and what
that process has reloaded is the state of the row (`HolderIsCurrent`), whatever its
copy was before and whatever the clocks say: so the state it writes extends the fold
of the events committed before. An append and a deletion exclude each other through
the row, and a row that is gone has no history (`NoRowNoHistory`): an append that
comes after the deletion finds no row, so nothing is left behind. That copies are
complete depends on clocks: only if timestamps grow in the order of the commits does the
row's stamp say how many events there are (`Rank`), so that a copy with that stamp has
them all. `Chronicle` says so of copies at rest, loading and appending; the property
itself excludes deletions and clocks that disagree.

**The live flow.** The four invariants hold together because at most one connection whose
send loop was started is not cut, and it is the current one of the innermost flow
(`ConnsOK`): so every other reader of the queue has been withdrawn. A connection whose
history could not be sent has no send loop and reads nothing. Reads are parked only on an open and empty
queue, each connection's once (`QueueOK`); hence a request that is sent goes to the
first of them or waits, and what was taken and what is queued is what was sent, in
order. The stack of flows is in the order of the connections they left (`FlowsOK`),
and a handle names the last connection of its own flow that issued one (`HandlesOK`):
this is what makes a reconnect after a nested agent resume the right session.
The proof has one step per action and conjunct, and lemmas for what withdrawing a
reader does to the parked reads.

**What the proofs changed.** Three invariants did not go through at first, each for a
reason. `Outcome` of `DynamicNodes` was a CASE whose guards overlap: TLC takes the first
that holds, but TLA+ lets it be any, and the prover rightly refused what only the first
gives. It is now a chain of alternatives in the order of the code, as is every other CASE
of the project whose guards overlapped. The calls `AgentTurn` has still to run are a set,
of which the least goes first, where they were a sorted sequence: calls are numbered in
the order of the batch, so the two say the same, and sorting is recursion over data that
the prover cannot follow. `InHand` of `AgentProofs` had to say that only an event with
calls leads to a batch.

For sessions and trees, assumptions had to say what every graph and history has:
an edge's target has its source among its predecessors, and what a turn finds of a node
are that node's own outputs (`GraphAssumption`, `HistoryAssumption`); interrupts
are finitely many and there is at least one turn (`SessionAssumption`). The set of
agents below one, which was a RECURSIVE operator, is the least set that is closed under
sub-agents. And the attempts to prove them showed what `FinishedRunIsNotReplayed`,
`RecordedWorkIsReused` and `NoRunAhead` rest on beyond the instances of the runs: the
premises above.

**Only model-checked:**

- `JoinMissesNoOutput` on graphs with cycles and other graphs that are no `Forest`, of which
  it is false in general, as section 4 says; that of the run is one on which it holds.
- The formulas of the computations, `AgentHistory` and `DevServer`.
- Every liveness property (`Terminates`, `Settles`, `Ends`, `TurnEnds`, `CloseEndsTheFlow`),
  since the prover handles neither fairness nor `ENABLED`. Induction over data is out of
  its reach too, but for the arguments by a least counterexample above.

## 6. Where code and comments part

Two are the counterexample of a run:

1. **An agent's request is not its own turn** (`agent_history`). Its input goes to the
   session at once and overtakes the answer of the agent before it, which is still in the
   channel (`workflow/run_llm_agent_as_node.ts:81`). The answer, committed after the input,
   starts the current turn: the request begins there and lacks the input.
2. **A request after an edit runs the old agent** (`reloaded_agents`). The server keeps
   the runner it made of an app; what the watcher drops is the loader's copy
   (`dev/src/server/adk_api_server.ts:1242`).

The others were met while modelling. The premises, graphs and bounds of the passing
runs leave them out where a property would fail on them.

**Workflow engine**

- A node that asked and then completed is executed again: `startNodeTask` matches an
  activation with the *first* prior run of the node, and a `rerunOnResume` node has its
  waiting run first and its completed run second (`workflow.ts:446`).
- A finished run is replayed: a last turn that only hands an answer to a terminal node
  emits no node event, so `eventsForCurrentRun` takes the next message for a
  continuation of the paused run (`run_node_as_invocation.ts:120`,
  `rehydration_utils.ts:44-66`).
- A join's recorded run is orphaned: let `p` lead to a join, `a` to the same join on a
  route that it did not take, and a third node ask. If `p` completed after `a`, the join
  ran. The next turn replays both in the order of insertion; if that is `p` first, nobody
  triggers the join, whose run is in the session (`bufferDownstreamTriggers` in
  `workflow.ts`). Hence `Retraceable`.
- An abandoned body writes into the retry, since all attempts share the child context
  (`node_runner.ts:417`, `:612`); hence `Obedient`.
- A late commit rolls a key back: `FunctionNode.toEvent` spreads the pending delta of
  an event the node built itself, which drops the stamps (`function_node.ts:230`);
  hence `Separated`.
- A looped worker returns its first list: paths of dynamic children do not name the
  activation of their caller, and settled tasks are shared as well as those in flight
  (`dynamic_node_scheduler.ts:95`).
- A plain-text answer is used in its turn but not recorded as resolved: if the run
  pauses again, the next turn has forgotten it (`run_node_as_invocation.ts:143`).
- Of two open questions one is answered: the other node runs again and asks under a
  new id, and then *both* ids must be answered. A client that answers only the newest
  question is asked for ever, static or dynamic node alike; hence `CarefulClient` and
  `Careful`.
- `request_input.ts:52-55` says plain text goes to every pending interrupt;
  `resumeInputsFromPlainText` uses it only when exactly one is open.
- `base_node.ts:44-45` describes `rerunOnResume` as deciding whether a *completed*
  node runs again; the code consults it for waiting runs only.
- Without a deadline `runOnce` drains the generator of an aborted node to its end
  (`node_runner.ts:538-553`), although its doc says that on any abort "the engine stops
  consuming events" (`:454-463`).
- `child.abortSignal` is reset to `undefined` in a `finally`, so a body that looks at
  it late never learns of the deadline (`node_runner.ts:606-609`).
- An item of a `ParallelWorker` that ends without output leaves nothing in the session
  and is executed again on resume.
- The input of a caller of `ctx.runNode` is recorded only once it gets as far as
  asking: after a sibling item failed, or an abort, the next turn resumes its children
  but gives the caller the *reply* as its input (`node_runner.ts:297`).
- Values of `app:` and `user:` keys are applied in stream order without stamps.
- What a failed attempt wrote stays in the live state although its delta is dropped.
- `FunctionNode` remembers attached keys by *value*: writing an old value again after
  someone else overwrote it is not attached.
- An abort while the runner is parked on an empty queue is noticed at the next event.
- After an early stop of the consumer the error of the body goes to a channel that
  nobody reads.

**Drawing and parsing of graphs**

- A route called "default" looks like `DEFAULT_ROUTE`, an empty one like none
  (`structure_graph.ts:239-242`); a terminal tool node gets no END edge (`:333`, against
  the comment at `:321`).
- Tools of a wrapped agent are not drawn at its workflow's level; a child named like
  the root is shadowed in `navigateToNode`; an edge into a nested workflow is lit only
  for its own event.
- Edges to composite agents use plain names while clusters are called "X (Loop Agent)",
  so a nested composite gets a stray node; its sub-agents are built twice per level; an
  empty Loop or Sequential agent under a parent throws.
- `Object.keys` puts array-like route keys first; "1" and "01" become the same route.

**Agent turn and callbacks**

- For the same reason as in 1, the tool calls an agent node has just made can be missing
  from its next request, although the current turn is to include them
  (`content_processor_utils.ts:161-164`).
- After a tool with `skipSummarization`, a usage-only response or a model error makes
  the loop call the model again (`llm_agent.ts:913`, against `event_actions.ts:18`).
- A gate's event replaces the merged response: siblings that ran stay unanswered. With
  a transfer in the same batch it hands over to nobody.
- A turn cut between the execution of an approved call and the store of its answer runs
  the call again when the approval is sent again; a tool that asks again on its
  second run gets no new gate.
- Under SSE a partial response after the answer of an auth, quiet or long-running call
  reopens the turn. A callback that throws loses the whole batch's answers.
- An `onModelErrorCallback` plugin's response is yielded without `actions`, a TypeError later.
- A streamed part resets the retry count of the model plugin, so a model that streams
  before it fails is retried without bound; another plugin that answers
  `afterToolCallback` first skips the tool plugin's reset.
- The message of a tool's error wins over what the after-callbacks answer;
  `runBeforeAgentCallback` and `runAfterAgentCallback` (`plugin_manager.ts:194`, `:212`) are
  never called.

**What a request is made of**

- The constructor pushes the transfer processor onto the caller's own
  `requestProcessors` array (`llm_agent.ts:544`, `:587`) and `clone` copies that array
  (`base_agent.ts:211`): a clone has it twice, and every request with transfer targets
  fails with "Duplicate tool name".
- A tool filter can remove `finish_task` (`llm_agent.ts:1528-1531` exempts only
  `set_model_response`): the task can never finish. A task-mode agent with output schema,
  tools and an old model is told to call `set_model_response`, which is not offered; live
  sessions likewise (`:1140`). Transfers are decided before an output schema forbids them.
- `finish_task` checks presence only; an explicit null passes. Output that violates the
  schema is saved as it is, texts of thoughts included.
- `PlanReActPlanner` drops parallel calls when the first part is the call
  (`plan_re_act_planner.ts:69`), and nothing in the flow calls the planners.
- "gemini-10" counts as Gemini 1; search tools on Gemini 1 depend on the order of tools;
  the registry's cache keeps a class that was replaced (`registry.ts:109`).
- In a workflow a missing key that is both optional and required shows the form written
  first; an instruction that resolves to "" is appended; the basic processor drops what
  earlier processors put into the configuration.
- Two calls of different events both open: a request that ends in the answer to the
  later drops the answer to the earlier.
- `calculateRetainStartIndex` looks at adjacent events only (`compaction_utils.ts:56-58`);
  `eventRetentionSize` 0 is a TypeError; events with the millisecond of `endTime` are
  dropped without a summary; an unscoped compaction hides a scoped reader's own earlier
  events (against `content_processor_utils.ts:235-243`); one that covers only a summary
  ends at that summary's timestamp; the token estimate ignores the isolation scope.

**Live sessions**

- `google_llm.ts:347` turns the close of the socket into a normal end, and `onerror` hands
  over something that is no `Error`: only a go-away message reconnects, against the
  comment at `llm_agent.ts:957-962`.
- A connection is leaked: `sendHistory` is awaited after `connect` and outside every `try`
  (`llm_agent.ts:1050`). When it rejects, `runLiveFlow` throws and the connection stays
  open, although `teardownLiveConnection` is "used before reconnecting or propagating an
  error" (`:1228-1229`). A recoverable error is not retried there either.
- An abort does not end the flow (`runner.ts:638`): the formula `AbortEndsTheFlow` of
  `LiveFlow` says so, and fails. A `return()` of the consumer skips the teardown.
- An error of the send loop wins over a reconnect (`llm_agent.ts:1105-1107`); the request
  in its hands is lost; a send on a closed socket is silently lost.
- A nested agent's recoverable error makes the *outer* flow reconnect with its own handle.
- The reconnect count is per flow and never reset. Text and transcripts are lost when a
  connection ends in the middle of a turn.
- `runLive` does not keep id and timestamps of an event that a plugin replaced, as
  `runAsync` does.

**Interactions API**

- A streamed call is given in up to three complete responses (`interactions_utils.ts:716`,
  `:728`, `:922`): its tool runs up to three times, and text is stored twice.
- After an error or broken stream what was collected comes as a finished turn, an
  unfinished call with empty arguments; interleaved steps mix arguments.
- A model content without `interactionId` after the last interaction makes
  `GetLatestUserContents` drop the user content before it; parts that do not fit their
  role and texts of thoughts are dropped, calls are told before words.
- Abort signal, `preprocessRequest` and `maybeAppendUserContent` are skipped on this path.

**Transfers, composite and remote agents**

- Names of agents need not be unique; a transfer goes to the first in depth-first order.
- `InvocationContext`'s constructor drops `credentialService`
  (`invocation_context.ts:273-303`). `AgentTool` gives its session the caller's id. A
  callback's writes are lost if the run is aborted during callbacks.
- `endInvocation` in a sub-agent's copied context does not stop its parent; `escalate`
  leaves outer loops too; abandoned parallel branches run on until their next event
  during failover; a `LoopAgent` without `maxIterations` is not stopped by the error
  event of the LLM limit.
- A2A: a completed status without message never flushes what was aggregated (against
  `a2a_remote_agent_run_processor.ts:49`); the aggregator reads `artifact.metadata` where
  the executor writes `event.metadata`; concurrent executions share the map of artifact
  ids; the error event of a failed request marks everything as seen
  (`a2a_remote_agent_utils.ts:297`).

**Questions of tools and tasks**

- `collectResumeInputs` (`request_input_llm_request_processor.ts:154`) returns only the
  newest user event with a structured answer: a node tool that asks one question after
  another is asked the first again and never finishes. Typed text is not taken once any
  structured answer exists, and an old answer serves a later call whose question has the
  same id.
- A wrong answer in the newest message fails the run, and
  `getPendingUserInputRequests` (`user_input_request.ts:163`) no longer shows the question;
  its right neighbours are dropped for that turn.
- An empty model message sets an empty output; running an agent as a node sets
  `includeContents='none'` on the shared agent (`run_llm_agent_as_node.ts:54`).

**Session services, artifacts, memory**

- Database: the app and user rows are read and written without a lock; `updateTime` is
  the event's timestamp, so the stale check misses events when clocks disagree; appends
  ignore write stamps; a crash between the two statements of a deletion leaves orphans; a
  failed commit leaves the in-memory copy ahead (Vertex AI too).
- `afterTimestamp` is inclusive in memory and Vertex AI, exclusive in the database;
  `numRecentEvents` 0 is everything in memory and nothing elsewhere.
- Vertex AI: the fallback without `rawEvent` loses `finishReason` and other fields without
  a column; `partMetadata` is always dropped.
- Artifacts: overlapping saves get the same version; a crash in a save makes the latest
  load undefined; file data without URI is accepted in memory, leaves a torn version on
  disk, fails in a bucket; deleting `doc` on disk deletes `doc/nested`; an empty session
  id means user scope on disk only.
- Memory: events of a session with the same timestamp collapse in the corpus, adding a
  session again leaves one more file, an empty id is never found again, a listing that
  fails or is longer than ten pages searches everything and filters later; in memory a word
  is `[A-Za-z]+` and "a/b" is ambiguous; `addMemoriesViaCreate` is not atomic and its
  retry duplicates (`vertex_ai_memory_bank_service.ts:297-325`); `ttl` is dropped beside a
  null `revisionTtl`; fields of the create call become metadata in generate and vice versa.

**Credentials and REST tools**

- Two tools without `credentialKey` share one temporary key (`tool_auth_handler.ts:24`); a
  reply without `access_token` is cached as exchanged; only calls of the latest event are
  resumed; a failed exchange fails the run; a token reply overwrites the refresh token
  with undefined.
- Parameters are counted under their original names, so `x, x, x_1` collide
  (`operation_parser.ts:225`), as may names cut at 60; path-level parameters are added, not
  overridden (`openapi_spec_parser.ts:296`); `security: []` falls back to the global one
  (`:308-311`); unknown media types send no body; an object property called `body` or
  `array` replaces the whole; an API key of a cookie goes to `Authorization`; a credential
  that was not exchanged is sent as nothing; the resolution of cyclic references depends on
  the order in which they are met.

**Code, containers, skills**

- Files are named by position; the list of input files and error counts are written only
  to the live state; a new file enters an existing list twice; the result of a run has
  text but no `output`, so an empty text is sent (`code_execution_utils.ts:273-281`); failures
  within one pass can exceed `errorRetryAttempts`; a missing artifact service throws after
  the execution; an empty code block hides a later one.
- `close()` during a container's start loses the container until the process ends, and an
  older failed start clears a newer promise (`container_code_executor.ts:212`); a container
  whose own start fails is never registered for removal (`docker_container.ts:241-249`);
  `timeout -s KILL` exits with 137 and not 124; any SIGKILL or SIGTERM of a local process
  is told as a timeout; an input file that was overwritten is not returned.
- A failed creation of an agent engine stays rejected for ever
  (`agent_engine_sandbox_code_executor.ts:247`); the sandbox's name is written to the state
  without an event and not persisted (`:365`); two overlapping executions create two.
- A script path without `scripts/` is found, but the wrapper names a missing file
  (`run_skill_script_tool.ts:102`, `:137`); `.DS_Store` is never ignored (`loader.ts:54`) and a
  zip ignores only `__pycache__`; the check of the name in `validateSkillDir` can never fail
  (`:272`); a registry that fails for one activated skill makes `getTools` throw; `---`
  inside front matter cuts it.

**Developer server**

- A pass that was forgotten by `invalidateAll` still writes what it loaded and marks the
  loader as loaded, and its `finally` clears the newer pass (against
  `dev/src/utils/agent_loader.ts:520-522`). The watcher starts only after the first pass.
  Superseded compiled files are left behind.

## 7. What is not modelled

- *Data*: prompt text, formatting, schema validation beyond its verdict, branch names,
  the length of the backoff delay.
- *User code*: bodies, plugins, models and tools are nondeterministic environments
  bounded by what the engine lets them do.
- *Services*: databases beyond row locks and transactions, containers and processes
  beyond how they end, model APIs, token servers, object storage: each is an environment
  that answers, fails or stops.
- *Parts of the components above*: the dynamic entry of a code-only workflow, run-id
  checks and callers of `ctx.runNode` other than `ParallelWorker` (automatic run ids
  start again at 1 on resume, `node_context.ts:275`), the auth gate of a function node
  (`function_node.ts:136`), the coercion of a tool node's arguments, `runEphemeral`,
  streaming tools, audio caches and activity signals of live sessions, callbacks and
  aborts in composite agents, the trajectory pruner and the token estimate, app and user
  rows of the database, schema migrations, `temp:` keys, agent cards and A2A part formats.
- *Details of modelled functions*: a route counts as something produced in
  `failIfNodeReportedError` (`node_runner.ts:406`), and the nodes of `NodeRunner` have
  none; `Workflow.finalize` adds the interrupts of dynamic nodes (`workflow.ts:257-260`),
  which are in `DynamicNodes` and not in the loop; app and user keys of partial events are
  written (`in_memory_session_service.ts:299-317`), and the events of `StateCommits` are
  whole; a caller of `runLive` can bring a resumption handle (`runner.ts:718`), and the
  flows of `LiveFlow` begin without one.
- *Components*: the security and logging plugins, MCP, retrieval and Google Cloud tools,
  telemetry, features, examples, integrations, the HTTP endpoints, the command line,
  deployment and the conformance recorder: adapters, records and I/O around the parts
  above, with little order in them to get wrong.

To run one: `tlc -config WorkflowLoop.cfg MCWorkflowLoop`; to prove one module:
`tlapm NodeRunnerProofs.tla`.
