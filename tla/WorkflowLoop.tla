---------------------------- MODULE WorkflowLoop ----------------------------
(***************************************************************************)
(* One turn of Workflow.runLoop: the orchestration loop that starts the    *)
(* nodes whose triggers are buffered, races their tasks, and turns each    *)
(* completion into triggers for the successors.                            *)
(*                                                                         *)
(* The loop is one JavaScript thread.  A scheduling pass and a fan-out are *)
(* synchronous in the code; here they are walked one buffer key (`todo')   *)
(* or one successor (`downstream') per step, and no task settles meanwhile *)
(* (Settle is disabled in those phases).                                   *)
(*                                                                         *)
(* A value is the set of tokens it is made of, {} being `undefined': the   *)
(* token <<n, k>> is what the k-th execution of n's body produced, and an  *)
(* interrupt id stands for the human's answer to that interrupt.  Branches *)
(* and isolation scopes are left out: nothing below depends on them.       *)
(***************************************************************************)
EXTENDS Naturals, FiniteSets, SequencesExt

CONSTANTS
  START,           \* the START node
  Node,            \* static nodes of the graph, START excluded
  Route,           \* route values
  Interrupt,       \* interrupt ids
  StartTargets,    \* targets of START's edges, in declaration order
  Targets,         \* Targets[n][R]: getNextPendingNodes(n, R)
  Preds,           \* Preds[n]: predecessors of n
  Terminal,        \* nodes without outgoing edges
  JoinNode,        \* nodes with requiresAllPredecessors
  WaitsForOutput,  \* nodes with waitForOutput
  RerunsOnResume,  \* nodes with rerunOnResume
  MaxConcurrency,  \* 0 when the workflow declares none
  Behaviour,       \* Behaviour[n]: how a run of n's body may end
  History,         \* what the turn may resume from: prior runs and answers
  MaxExecs         \* bound: executions of a body that may still emit a route

Token   == (Node \X Nat) \cup Interrupt
Value   == SUBSET Token
Ending  == [kind : {"done", "error", "claimed", "aborted"}, yields : BOOLEAN,
            routes : SUBSET Route, ids : SUBSET Interrupt]
Prior   == [out : Value, routes : SUBSET Route, ids : SUBSET Interrupt,
            answered : SUBSET Interrupt, input : Value]
Outcome == [kind : {"none", "running", "done", "error", "claimed", "aborted"},
            out : Value, routes : SUBSET Route, ids : SUBSET Interrupt]

ASSUME GraphAssumption ==
  /\ START \notin Node
  /\ StartTargets \in Seq(Node) /\ IsInjective(StartTargets)
  /\ Targets \in [Node -> [SUBSET Route -> Seq(Node)]]
  /\ Preds \in [Node -> SUBSET (Node \cup {START})]
  /\ \A n \in ToSet(StartTargets) : START \in Preds[n]
  /\ \A m \in Node : \A R \in SUBSET Route : \A n \in ToSet(Targets[m][R]) : m \in Preds[n]
  /\ Terminal \subseteq Node
  /\ JoinNode \subseteq Node
  /\ WaitsForOutput \subseteq Node
  /\ RerunsOnResume \subseteq Node

\* What a node put out in an earlier turn, it put out itself: <<n, 0>>.
ASSUME HistoryAssumption ==
  /\ History \subseteq [prior : [Node -> Seq(Prior)], answers : SUBSET Interrupt]
  /\ \A h \in History : \A n \in Node : \A p \in ToSet(h.prior[n]) : p.out \subseteq {<<n, 0>>}

ASSUME BoundAssumption ==
  /\ MaxConcurrency \in Nat
  /\ MaxExecs \in Nat
  /\ Behaviour \in [Node -> SUBSET Ending]

VARIABLES
  phase,        \* where the loop stands
  todo,         \* keys the scheduling pass has yet to look at
  downstream,   \* successors the fan-out has yet to trigger
  relay,        \* the output those successors are given
  keys,         \* keys of triggerBuffer, in insertion order
  buffer,       \* triggerBuffer: the queued trigger inputs of each node
  pending,      \* keys of loop.pending, in insertion order
  task,         \* what each pending task has resolved to so far
  first,        \* the task the race resolved to ({} while it is open)
  status,       \* NodeState.status; "NONE" before the first run
  interrupts,   \* NodeState.interrupts
  runCounter,   \* NodeState.runCounter
  input,        \* what the node's current run was given
  view,         \* the answers its body can read: its resumeInputs
  activated,    \* loop.activated
  outputs,      \* loop.nodeOutputs
  raised,       \* loop.interruptIds
  rehydrated,   \* loop.rehydrated: prior runs not yet matched
  resumeInputs, \* ctx.resumeInputs: interrupts answered so far
  live,         \* <<n, k>>: bodies executing
  execs,        \* body executions of each node so far
  aborted,      \* the workflow-scoped abort signal
  reported,     \* the loop emitted an error event
  result        \* how the workflow ended

loopVars == <<phase, todo, downstream, relay, first>>
bufVars  == <<keys, buffer>>
taskVars == <<pending, task>>
bodyVars == <<live, execs>>
nodeVars == <<status, interrupts>>
runVars  == <<runCounter, input, view, activated, rehydrated>>
doneVars == <<outputs, raised>>
endVars  == <<reported, result>>
vars == <<loopVars, bufVars, taskVars, bodyVars, nodeVars, runVars, doneVars,
          resumeInputs, aborted, endVars>>

NoTask   == [kind |-> "none", out |-> {}, routes |-> {}, ids |-> {}]
Running  == [NoTask EXCEPT !.kind = "running"]
NoResult == [kind |-> "none", out |-> {}, ids |-> {}]

TypeOK ==
  /\ phase \in {"schedule", "race", "fanout", "cleanup", "returned", "threw"}
  /\ todo \in Seq(Node)
  /\ downstream \in Seq(Node)
  /\ relay \in Value
  /\ keys \in Seq(Node)
  /\ buffer \in [Node -> Seq(Value)]
  /\ pending \in Seq(Node)
  /\ task \in [Node -> Outcome]
  /\ first \in SUBSET Node
  /\ status \in [Node -> {"NONE", "RUNNING", "WAITING", "COMPLETED", "FAILED"}]
  /\ interrupts \in [Node -> SUBSET Interrupt]
  /\ runCounter \in [Node -> Nat]
  /\ input \in [Node -> Value]
  /\ view \in [Node -> SUBSET Interrupt]
  /\ activated \subseteq Node
  /\ outputs \in [Node -> Value]
  /\ raised \subseteq Interrupt
  /\ rehydrated \in [Node -> Seq(Prior)]
  /\ resumeInputs \subseteq Interrupt
  /\ live \subseteq Node \X Nat
  /\ execs \in [Node -> Nat]
  /\ aborted \in BOOLEAN
  /\ reported \in BOOLEAN
  /\ result \in [kind : {"none", "output", "interrupted", "conflict", "error"},
                 out : Value, ids : SUBSET Interrupt]

---------------------------------------------------------------------------
(* The buffer and the set of pending tasks                                 *)

In(n, s) == \E i \in DOMAIN s : s[i] = n
PositionOf(n, s) == CHOOSE i \in DOMAIN s : s[i] = n
Without(s, n) == RemoveAt(s, PositionOf(n, s))

\* pushTrigger: a key is appended when the node has no queue.
PushTrigger(n, v) ==
  /\ buffer' = [buffer EXCEPT ![n] = Append(@, v)]
  /\ keys' = IF In(n, keys) THEN keys ELSE Append(keys, n)

\* popTrigger: the queue is FIFO, and its key goes away with its last trigger.
PopTrigger(n) ==
  /\ buffer' = [buffer EXCEPT ![n] = Tail(@)]
  /\ keys' = IF Len(buffer[n]) = 1 THEN Without(keys, n) ELSE keys

Settled(n) == task[n].kind \notin {"none", "running"}

\* Promise.race over pending.values(): among tasks already settled the first
\* in insertion order wins.
FirstSettled ==
  {pending[i] : i \in {j \in DOMAIN pending :
     Settled(pending[j]) /\ \A k \in 1..(j - 1) : ~Settled(pending[k])}}

---------------------------------------------------------------------------
(* Scheduling                                                              *)

\* Mutants of Held: a completed node is stepped over like a running one; a
\* node waiting for the human is not.
HeldWhenDone(n) ==
  \/ In(n, pending)
  \/ status[n] \in {"RUNNING", "COMPLETED"}
  \/ status[n] = "WAITING" /\ interrupts[n] # {}
HeldWhileRunning(n) == In(n, pending) \/ status[n] = "RUNNING"

\* Nodes the scheduling pass steps over.
Held(n) ==
  \/ In(n, pending)
  \/ status[n] = "RUNNING"
  \/ status[n] = "WAITING" /\ interrupts[n] # {}

\* Mutant of AtConcurrencyLimit: off by one.
OverConcurrencyLimit ==
  MaxConcurrency # 0 /\ Len(pending) > MaxConcurrency

AtConcurrencyLimit ==
  MaxConcurrency # 0 /\ Len(pending) >= MaxConcurrency

SkipHeld ==
  /\ phase = "schedule" /\ todo # << >>
  /\ Held(Head(todo))
  /\ todo' = Tail(todo)
  /\ UNCHANGED <<phase, downstream, relay, first, bufVars, taskVars, bodyVars,
                 nodeVars, runVars, doneVars, resumeInputs, aborted, endVars>>

StopAtLimit ==
  /\ phase = "schedule" /\ todo # << >>
  /\ ~Held(Head(todo))
  /\ AtConcurrencyLimit
  /\ todo' = << >>
  /\ UNCHANGED <<phase, downstream, relay, first, bufVars, taskVars, bodyVars,
                 nodeVars, runVars, doneVars, resumeInputs, aborted, endVars>>

\* popTrigger, prepareNodeStateForStarting and the head of startNodeTask.
Ready(n) ==
  /\ phase = "schedule" /\ todo # << >>
  /\ n = Head(todo)
  /\ ~Held(n)
  /\ ~AtConcurrencyLimit
\* Mutant of TakeTrigger: the prior run is looked at but not taken.
TakeTriggerPeeking(n) ==
  /\ todo' = Tail(todo)
  /\ PopTrigger(n)
  /\ status' = [status EXCEPT ![n] = "RUNNING"]
  /\ interrupts' = [interrupts EXCEPT ![n] = {}]
  /\ activated' = activated \cup {n}
  /\ pending' = Append(pending, n)
  /\ UNCHANGED <<phase, downstream, relay, first, doneVars, rehydrated, resumeInputs,
                 aborted, endVars>>
TakeTrigger(n) ==
  /\ todo' = Tail(todo)
  /\ PopTrigger(n)
  /\ status' = [status EXCEPT ![n] = "RUNNING"]
  /\ interrupts' = [interrupts EXCEPT ![n] = {}]
  /\ activated' = activated \cup {n}
  /\ rehydrated' = [rehydrated EXCEPT ![n] = IF @ = << >> THEN @ ELSE Tail(@)]
  /\ pending' = Append(pending, n)
  /\ UNCHANGED <<phase, downstream, relay, first, doneVars, resumeInputs,
                 aborted, endVars>>

HasPrior(n) == rehydrated[n] # << >>
ThePrior(n) == Head(rehydrated[n])
\* Mutant of IsFastForwardable: an output and a route are both required.
IsFastForwardableRouted(p) ==
  p.out # {} /\ p.routes # {} /\ p.ids \subseteq p.answered
IsFastForwardable(p) ==
  (p.out # {} \/ p.routes # {}) /\ p.ids \subseteq p.answered

\* A run completed in an earlier turn is answered from the session.
CanFastForward(n) == HasPrior(n) /\ IsFastForwardable(ThePrior(n))
FastForward(n) ==
  /\ Ready(n) /\ CanFastForward(n)
  /\ TakeTrigger(n)
  /\ input' = [input EXCEPT ![n] = Head(buffer[n])]
  /\ view' = [view EXCEPT ![n] = {}]
  /\ task' = [task EXCEPT ![n] =
       [kind |-> "done", out |-> ThePrior(n).out,
        routes |-> ThePrior(n).routes, ids |-> {}]]
  /\ UNCHANGED <<runCounter, bodyVars>>

\* rerunOnResume=false: a run that only asked completes with the answers.
CanHandOver(n) ==
  /\ HasPrior(n)
  /\ n \notin RerunsOnResume
  /\ ThePrior(n).out = {}
  /\ ThePrior(n).ids # {}
  /\ ThePrior(n).ids \subseteq resumeInputs
HandOver(n) ==
  /\ Ready(n) /\ ~CanFastForward(n) /\ CanHandOver(n)
  /\ TakeTrigger(n)
  /\ input' = [input EXCEPT ![n] = Head(buffer[n])]
  /\ view' = [view EXCEPT ![n] = {}]
  /\ task' = [task EXCEPT ![n] =
       [kind |-> "done", out |-> ThePrior(n).ids, routes |-> {}, ids |-> {}]]
  /\ UNCHANGED <<runCounter, bodyVars>>

\* executeChildNode.  A run that waited in the last turn gets its original
\* input back, and only the first activation of the turn may read answers.
Resuming(n) ==
  HasPrior(n) /\ ThePrior(n).ids # {} /\ ThePrior(n).input # {}
StartBody(n) ==
  /\ Ready(n) /\ ~CanFastForward(n) /\ ~CanHandOver(n)
  /\ TakeTrigger(n)
  /\ runCounter' = [runCounter EXCEPT ![n] = @ + 1]
  /\ input' = [input EXCEPT ![n] =
       IF Resuming(n) THEN ThePrior(n).input ELSE Head(buffer[n])]
  /\ view' = [view EXCEPT ![n] = IF n \in activated THEN {} ELSE resumeInputs]
  /\ task' = [task EXCEPT ![n] = Running]
  /\ execs' = [execs EXCEPT ![n] = @ + 1]
  /\ live' = live \cup {<<n, execs[n] + 1>>}

\* The pass is over: Promise.race subscribes to the pending tasks in order.
Race ==
  /\ phase = "schedule" /\ todo = << >>
  /\ pending # << >>
  /\ phase' = "race"
  /\ first' = FirstSettled
  /\ UNCHANGED <<todo, downstream, relay, bufVars, taskVars, bodyVars, nodeVars,
                 runVars, doneVars, resumeInputs, aborted, endVars>>

---------------------------------------------------------------------------
(* Node bodies                                                             *)

\* The endings open to the k-th execution of n: a cancellation error needs a
\* fired signal, and beyond the bound a body emits no route.
Endings(n) ==
  {e \in Behaviour[n] : /\ e.kind = "aborted" => aborted
                        /\ e.routes # {} => execs[n] <= MaxExecs}

Settle(n, k, e) ==
  /\ phase \in {"race", "cleanup"}
  /\ <<n, k>> \in live
  /\ e \in Endings(n)
  /\ live' = live \ {<<n, k>>}
  /\ IF In(n, pending) /\ k = execs[n]
     THEN /\ task' = [task EXCEPT ![n] =
               [kind |-> e.kind, out |-> IF e.yields THEN {<<n, k>>} ELSE {},
                routes |-> e.routes, ids |-> e.ids]]
          /\ first' = IF first = {} /\ phase = "race" THEN {n} ELSE first
     ELSE UNCHANGED <<task, first>>
  /\ UNCHANGED <<phase, todo, downstream, relay, bufVars, pending, execs,
                 nodeVars, runVars, doneVars, resumeInputs, aborted, endVars>>

\* The invocation's own signal fires; createWorkflowAbort chains it.
Abort ==
  /\ ~aborted /\ phase \in {"race", "cleanup"}
  /\ aborted' = TRUE
  /\ UNCHANGED <<loopVars, bufVars, taskVars, bodyVars, nodeVars, runVars,
                 doneVars, resumeInputs, endVars>>

---------------------------------------------------------------------------
(* Completion handling                                                     *)

Delivered(n) == phase = "race" /\ first = {n}
\* Mutant of Dequeue: the task stays in the map of pending tasks.
DequeueTaskOnly(n) ==
  /\ pending' = pending
  /\ task' = [task EXCEPT ![n] = NoTask]
  /\ first' = {}
Dequeue(n) ==
  /\ pending' = Without(pending, n)
  /\ task' = [task EXCEPT ![n] = NoTask]
  /\ first' = {}

\* The node rejected: report the error unless it was a cancellation or was
\* reported deeper down, cancel the siblings, and wait for them.
DeliverError(n) ==
  /\ Delivered(n)
  /\ task[n].kind \in {"error", "claimed", "aborted"}
  /\ status' = [status EXCEPT ![n] = "FAILED"]
  /\ reported' = (task[n].kind = "error" /\ ~aborted)
  /\ aborted' = TRUE
  /\ pending' = << >>
  /\ task' = [m \in Node |-> NoTask]
  /\ first' = {}
  /\ phase' = "cleanup"
  /\ UNCHANGED <<todo, downstream, relay, bufVars, bodyVars, interrupts,
                 runVars, doneVars, resumeInputs, result>>

\* The run asked the user: the node waits.
DeliverInterrupt(n) ==
  /\ Delivered(n)
  /\ task[n].kind = "done" /\ task[n].ids # {}
  /\ Dequeue(n)
  /\ status' = [status EXCEPT ![n] = "WAITING"]
  /\ interrupts' = [interrupts EXCEPT ![n] = task[n].ids]
  /\ raised' = raised \cup task[n].ids
  /\ phase' = "schedule"
  /\ todo' = keys
  /\ UNCHANGED <<downstream, relay, bufVars, bodyVars, runVars, outputs,
                 resumeInputs, aborted, endVars>>

\* waitForOutput: the node waits for another trigger.
DeliverWait(n) ==
  /\ Delivered(n)
  /\ task[n].kind = "done" /\ task[n].ids = {}
  /\ n \in WaitsForOutput /\ task[n].out = {} /\ task[n].routes = {}
  /\ Dequeue(n)
  /\ status' = [status EXCEPT ![n] = "WAITING"]
  /\ phase' = "schedule"
  /\ todo' = keys
  /\ UNCHANGED <<downstream, relay, bufVars, bodyVars, interrupts, runVars,
                 doneVars, resumeInputs, aborted, endVars>>

\* The run completed: its successors are triggered next.
DeliverCompletion(n) ==
  /\ Delivered(n)
  /\ task[n].kind = "done" /\ task[n].ids = {}
  /\ ~(n \in WaitsForOutput /\ task[n].out = {} /\ task[n].routes = {})
  /\ Dequeue(n)
  /\ status' = [status EXCEPT ![n] = "COMPLETED"]
  /\ outputs' = [outputs EXCEPT ![n] = IF task[n].out = {} THEN @ ELSE task[n].out]
  /\ downstream' = Targets[n][task[n].routes]
  /\ relay' = task[n].out
  /\ phase' = "fanout"
  /\ UNCHANGED <<todo, bufVars, bodyVars, interrupts, runVars, raised,
                 resumeInputs, aborted, endVars>>

\* Mutant of AllCompleted: one completed predecessor is enough.
AnyCompleted(n) ==
  \E p \in Preds[n] : p \in Node /\ status[p] = "COMPLETED"

\* requiresAllPredecessors: START never completes, so a join it feeds is
\* only ever started by its seed trigger.
AllCompleted(n) ==
  \A p \in Preds[n] : p \in Node /\ status[p] = "COMPLETED"
JoinInput(n) == UNION {outputs[p] : p \in Preds[n] \ {START}}

Fanout ==
  /\ phase = "fanout" /\ downstream # << >>
  /\ LET n == Head(downstream)
     IN  IF n \notin JoinNode THEN PushTrigger(n, relay)
         ELSE IF AllCompleted(n) THEN PushTrigger(n, JoinInput(n))
         ELSE UNCHANGED bufVars
  /\ downstream' = Tail(downstream)
  /\ UNCHANGED <<phase, todo, relay, first, taskVars, bodyVars, nodeVars,
                 runVars, doneVars, resumeInputs, aborted, endVars>>

NextPass ==
  /\ phase = "fanout" /\ downstream = << >>
  /\ phase' = "schedule"
  /\ todo' = keys
  /\ UNCHANGED <<downstream, relay, first, bufVars, taskVars, bodyVars, nodeVars,
                 runVars, doneVars, resumeInputs, aborted, endVars>>

---------------------------------------------------------------------------
(* The end of the turn                                                     *)

\* cleanupPending settled every outstanding task: rethrow.
Rethrow ==
  /\ phase = "cleanup" /\ live = {}
  /\ phase' = "threw"
  /\ result' = [NoResult EXCEPT !.kind = "error"]
  /\ UNCHANGED <<todo, downstream, relay, first, bufVars, taskVars, bodyVars,
                 nodeVars, runVars, doneVars, resumeInputs, aborted, reported>>

\* collectRemainingInterrupts.
Remaining ==
  raised \cup UNION {interrupts[n] : n \in {m \in Node : status[m] = "WAITING"}}
TerminalOutputs == {n \in Terminal : outputs[n] # {}}

\* Nothing is pending: collect the interrupts, or take the terminal output.
Finalize ==
  /\ phase = "schedule" /\ todo = << >>
  /\ pending = << >>
  /\ raised' = Remaining
  /\ result' =
       IF Remaining # {}
       THEN [kind |-> "interrupted", out |-> {}, ids |-> Remaining]
       ELSE IF Cardinality(TerminalOutputs) > 1
       THEN [NoResult EXCEPT !.kind = "conflict"]
       ELSE [kind |-> "output", ids |-> {},
             out |-> UNION {outputs[n] : n \in TerminalOutputs}]
  /\ phase' = IF result'.kind = "conflict" THEN "threw" ELSE "returned"
  /\ UNCHANGED <<todo, downstream, relay, first, bufVars, taskVars, bodyVars,
                 nodeVars, runVars, outputs, resumeInputs, aborted, reported>>

---------------------------------------------------------------------------
\* orchestrate: a new LoopState whose buffer holds the START triggers.  The
\* workflow's input is {} (no node produced it).
SeedBuffer == [n \in Node |-> IF In(n, StartTargets) THEN <<{}>> ELSE << >>]
None(v) == [n \in Node |-> v]

Init ==
  /\ phase = "schedule" /\ todo = StartTargets
  /\ downstream = << >> /\ relay = {} /\ first = {}
  /\ keys = StartTargets /\ buffer = SeedBuffer
  /\ pending = << >> /\ task = None(NoTask)
  /\ live = {} /\ execs = None(0)
  /\ status = None("NONE") /\ interrupts = None({})
  /\ runCounter = None(0) /\ input = None({}) /\ view = None({})
  /\ activated = {}
  /\ \E h \in History : rehydrated = h.prior /\ resumeInputs = h.answers
  /\ outputs = None({}) /\ raised = {} /\ aborted = FALSE
  /\ reported = FALSE /\ result = NoResult

\* The next turn of the same session: the history of body executions goes on.
Restart(prior, answers) ==
  /\ phase' = "schedule" /\ todo' = StartTargets
  /\ downstream' = << >> /\ relay' = {} /\ first' = {}
  /\ keys' = StartTargets /\ buffer' = SeedBuffer
  /\ pending' = << >> /\ task' = None(NoTask)
  /\ live' = {} /\ UNCHANGED execs
  /\ status' = None("NONE") /\ interrupts' = None({})
  /\ runCounter' = None(0) /\ input' = None({}) /\ view' = None({})
  /\ activated' = {} /\ rehydrated' = prior
  /\ outputs' = None({}) /\ raised' = {}
  /\ resumeInputs' = answers /\ aborted' = FALSE
  /\ reported' = FALSE /\ result' = NoResult

LoopStep ==
  \/ SkipHeld
  \/ StopAtLimit
  \/ \E n \in Node : FastForward(n) \/ HandOver(n) \/ StartBody(n)
  \/ Race
  \/ \E n \in Node : \/ DeliverError(n) \/ DeliverInterrupt(n)
                     \/ DeliverWait(n) \/ DeliverCompletion(n)
  \/ Fanout
  \/ NextPass
  \/ Rethrow
  \/ Finalize

BodyStep == \E r \in live : \E e \in Endings(r[1]) : Settle(r[1], r[2], e)

Stopped == phase \in {"returned", "threw"}
Terminated == Stopped /\ UNCHANGED vars
Next == LoopStep \/ BodyStep \/ Abort \/ Terminated

Spec == Init /\ [][Next]_vars

\* The event loop keeps running the orchestration, and every body settles
\* (a body that never settles is the node author's, bounded by `timeout').
FairSpec == Spec /\ WF_vars(LoopStep) /\ WF_vars(BodyStep)

---------------------------------------------------------------------------
(* Properties                                                              *)

RunningNodes ==
  IF phase \in {"cleanup", "threw"} THEN {r[1] : r \in live} ELSE ToSet(pending)
Mode ==
  CASE phase \in {"schedule", "race", "fanout"} -> "open"
    [] phase = "cleanup" -> "failing"
    [] OTHER -> "closed"

A == INSTANCE Activations
       WITH Limit <- MaxConcurrency, Seeded <- ToSet(StartTargets),
            queued <- [n \in Node |-> Len(buffer[n])],
            running <- RunningNodes, mode <- Mode

\* The loop implements the activation contract (runLoop, scheduleReadyNodes,
\* cleanupPending): one activation per trigger, no overlapping runs of a node,
\* maxConcurrency respected, nothing started after a failure, and no return
\* or throw while a body is still executing.
KeepsActivationContract == A!Spec

\* The turn never returns with work it could still do: a trigger left in the
\* buffer belongs to a node that is waiting for the human (runLoop's break).
NoRunnableTriggerLost ==
  phase = "returned" =>
    \A n \in Node : buffer[n] # << >> => status[n] = "WAITING" /\ interrupts[n] # {}

\* A graph that activates each node once in a turn at most: a node that several
\* edges lead to is a join, one that START leads to is led to by nothing else,
\* and a completion triggers no node twice.
Forest ==
  /\ \A n \in Node \ JoinNode : \A p, q \in Preds[n] : p = q
  /\ \A n \in Node : START \in Preds[n] => Preds[n] = {START}
  /\ \A m \in Node : \A R \in SUBSET Route : IsInjective(Targets[m][R])

\* The turn resumes no join, and no node before a join that asked.
JoinsStartAfresh ==
  \A h \in History : \A n \in JoinNode : \A m \in {n} \cup (Preds[n] \ {START}) :
    \A p \in ToSet(h.prior[m]) : p.ids = {}

\* A join that is running was given something from every predecessor that has
\* ever produced an output, so no branch of the fan-in is dropped or missed
\* (bufferDownstreamTriggers).
JoinMissesNoOutput ==
  \A n \in JoinNode : status[n] = "RUNNING" =>
    \A p \in Preds[n] \ {START} :
      outputs[p] # {} => input[n] \cap ({p} \X (0..execs[p])) # {}

\* While anyone still waits for an answer the workflow reports the question
\* and never an output, and what it reports is exactly what the waiting nodes
\* asked (finalize, collectRemainingInterrupts).
AsksInsteadOfAnswering ==
  phase = "returned" =>
    LET asked == UNION {interrupts[n] : n \in {m \in Node : status[m] = "WAITING"}}
    IN  /\ result.ids = asked
        /\ asked # {} => result.kind = "interrupted" /\ result.out = {}

\* Every turn ends: the race cannot be left waiting on tasks that are gone,
\* and the scheduling pass cannot spin (runLoop).
Terminates == <>Stopped
=============================================================================
