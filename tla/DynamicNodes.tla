---------------------------- MODULE DynamicNodes ----------------------------
(***************************************************************************)
(* The scheduler of ctx.runNode and its busiest caller, ParallelWorker: a  *)
(* node that runs an inner node once per item of its input, a few at a     *)
(* time, over the turns of a conversation in which items may ask the user. *)
(*                                                                         *)
(* What a turn leaves for the next one is in the session: for each item    *)
(* path the output and the interrupts of its events, and the replies; for  *)
(* the worker its input, if it got as far as asking.  Inside a turn,       *)
(* state.runs keeps one entry for each item path.  A result is the item    *)
(* and the input it was computed from: every activation has its own input, *)
(* but for one that resumes the input the session kept.                    *)
(*                                                                         *)
(* A worker of the pool always awaits one item: what happens between two   *)
(* awaits is one step.  Events are committed at once until the caller      *)
(* aborts; the worker's workflow pauses only when the worker does.         *)
(***************************************************************************)
EXTENDS Naturals, FiniteSetsExt

CONSTANTS
  Items,     \* how many items the input has
  Pool,      \* maxParallelWorkers
  Loops,     \* the graph may route back to the worker in the same turn
  Careful,   \* the client answers all the open questions at once
  MaxTurns,  \* bound: turns
  MaxInputs  \* bound: inputs the worker is given

ASSUME DynamicNodesAssumption ==
  /\ Items \in Nat /\ Pool \in Nat \ {0}
  /\ Loops \in BOOLEAN /\ Careful \in BOOLEAN
  /\ MaxTurns \in Nat /\ MaxInputs \in Nat

VARIABLES
  rerun,     \* inner.rerunOnResume (fixed for the behaviour)
  turn,      \* turns so far
  phase,     \* where the worker stands
  input,     \* which input it works on
  origin,    \* the input with which the run in progress began
  kept,      \* the session has the worker's input
  aborted,   \* the signal of the workflow or of the caller
  cut,       \* the caller aborted: events are no longer committed
  runs,      \* state.runs: for each item path, how its run stands
  busy,      \* items the workers of the pool await
  next,      \* nextIndex
  results,   \* results: the item and the input each was computed from
  failed,    \* an item failed
  reported,  \* ctx.interruptIds
  out,       \* committed output of each item path (0: none)
  asked,     \* how many interrupts each item path raised
  answered,  \* those that have a reply
  spoke,     \* this turn committed a node event
  raised,    \* this turn committed an interrupt
  made       \* executions of each item that committed an output in this run

turnVars    == <<rerun, turn, input, origin>>
poolVars    == <<busy, next, results, failed, reported>>
sessionVars == <<out, asked, answered, spoke, raised, made, kept>>
vars == <<turnVars, phase, aborted, cut, runs, poolVars, sessionVars>>

Item == 1..Items
Run == [is : {"none", "task", "completed", "asked", "failed", "booked"}, of : Nat]
NoRun == [is |-> "none", of |-> 0]
Hole == <<0, 0>>
Ids(i) == {<<i, n>> : n \in 1..asked[i]}
OpenIds == UNION {{<<i, n>> : n \in (1..asked[i]) \ answered[i]} : i \in Item}

\* The pool is bounded, and only items it awaits are running.
TypeOK ==
  /\ rerun \in BOOLEAN /\ turn \in 0..MaxTurns /\ input \in 0..MaxInputs
  /\ origin \in 0..MaxInputs /\ kept \in BOOLEAN
  /\ phase \in {"off", "triggered", "running", "list", "asked", "failed", "nothing"}
  /\ aborted \in BOOLEAN /\ cut \in BOOLEAN /\ spoke \in BOOLEAN /\ raised \in BOOLEAN
  /\ runs \in [Item -> Run]
  /\ busy \subseteq Item /\ Cardinality(busy) <= Pool
  /\ \A i \in Item : runs[i].is = "task" => i \in busy
  /\ next \in Nat /\ results \in [Item -> Nat \X Nat] /\ failed \in BOOLEAN
  /\ reported \in SUBSET (Item \X Nat)
  /\ out \in [Item -> Nat] /\ asked \in [Item -> Nat] /\ made \in [Item -> Nat]
  /\ answered \in [Item -> SUBSET Nat]

---------------------------------------------------------------------------
(* The scheduler                                                           *)

AllAnswered(i) == answered[i] = 1..asked[i]

\* Mutant of FastForwardable: rerunOnResume is consulted first.
FastForwardableOnce(i) == out[i] # 0 /\ AllAnswered(i) /\ ~rerun
\* isFastForwardable, of what reconstructNodeStatesByPath merged for the path.
FastForwardable(i) == out[i] # 0 /\ AllAnswered(i)

\* Mutant of HandedOver: a child that asked always runs again.
NeverHandedOver(i) == FALSE
\* resumeHandoff: an item that asked and was answered is not executed again.
HandedOver(i) == ~rerun /\ out[i] = 0 /\ asked[i] > 0 /\ AllAnswered(i)

\* scheduleRun: join the run of this path, or book a result, or execute.
Scheduled(i) ==
  IF runs[i].is # "none" THEN runs[i]
  ELSE IF FastForwardable(i) THEN [is |-> "booked", of |-> out[i]]
  ELSE IF HandedOver(i) THEN [is |-> "booked", of |-> input]
  ELSE [is |-> "task", of |-> input]
Schedule(S) == runs' = [i \in Item |-> IF i \in S THEN Scheduled(i) ELSE runs[i]]

\* The child's body ends: with an output or without, or with a question,
\* which has its own id unless the child is one that looks up its answer.
Produce(i) ==
  /\ runs[i].is = "task"
  /\ runs' = [runs EXCEPT ![i].is = "completed"]
  /\ out' = [out EXCEPT ![i] = IF cut THEN @ ELSE runs[i].of]
  /\ made' = [made EXCEPT ![i] = IF cut THEN @ ELSE @ + 1]
  /\ spoke' = (spoke \/ ~cut)
  /\ UNCHANGED <<turnVars, phase, aborted, cut, poolVars, asked, answered, raised, kept>>
EndSilently(i) ==
  /\ runs[i].is = "task"
  /\ runs' = [runs EXCEPT ![i].is = "completed"]
  /\ UNCHANGED <<turnVars, phase, aborted, cut, poolVars, sessionVars>>
Ask(i) ==
  /\ runs[i].is = "task"
  /\ rerun => answered[i] = {}
  /\ runs' = [runs EXCEPT ![i].is = "asked"]
  /\ asked' = [asked EXCEPT ![i] = IF cut THEN @ ELSE IF rerun THEN 1 ELSE @ + 1]
  /\ raised' = (raised \/ ~cut) /\ spoke' = (spoke \/ ~cut)
  /\ UNCHANGED <<turnVars, phase, aborted, cut, poolVars, out, answered, made, kept>>
Throw(i) ==
  /\ runs[i].is = "task"
  /\ runs' = [runs EXCEPT ![i].is = "failed"]
  /\ UNCHANGED <<turnVars, phase, aborted, cut, poolVars, sessionVars>>
Body(i) == Produce(i) \/ EndSilently(i) \/ Ask(i) \/ Throw(i)

---------------------------------------------------------------------------
(* The pool                                                                *)

FirstClaims == {i \in Item : i <= Pool}
\* The worker's body starts: each worker of the pool claims an item.
Activate ==
  /\ phase = "triggered"
  /\ phase' = "running"
  /\ busy' = IF aborted THEN {} ELSE FirstClaims
  /\ next' = Cardinality(busy') + 1
  /\ Schedule(busy')
  /\ results' = [i \in Item |-> Hole] /\ failed' = FALSE /\ reported' = {}
  /\ UNCHANGED <<turnVars, aborted, cut, sessionVars>>

\* schedule: the interrupts of a child are copied onto its caller.
Reports(i) == IF runs[i].is = "asked" THEN reported \cup {<<i, asked[i]>>} ELSE reported

\* Mutant of KeepResult: results in the order in which the items end.
KeepResultInOrder(i) ==
  LET ended == Cardinality({j \in Item : results[j] # Hole}) IN
  IF runs[i].is \in {"completed", "booked"} /\ ended < Items
  THEN [results EXCEPT ![ended + 1] = <<i, runs[i].of>>] ELSE results
KeepResult(i) ==
  IF runs[i].is \in {"completed", "booked"}
  THEN [results EXCEPT ![i] = <<i, runs[i].of>>] ELSE results

\* Mutant of Return: a worker whose run is aborted never comes back.
ReturnUnlessAborted(i) ==
  /\ ~aborted
  /\ i \in busy /\ runs[i].is # "task"
  /\ results' = KeepResult(i)
  /\ reported' = Reports(i)
  /\ failed' = (failed \/ runs[i].is = "failed")
  /\ busy' = busy \ {i}
  /\ UNCHANGED <<turnVars, phase, aborted, cut, sessionVars, runs, next>>

\* The await of item i is over; its worker claims the next item or ends.
Return(i) ==
  /\ i \in busy /\ runs[i].is # "task"
  /\ results' = KeepResult(i)
  /\ reported' = Reports(i)
  /\ failed' = (failed \/ runs[i].is = "failed")
  /\ IF failed' \/ reported' # {} \/ aborted \/ runs[i].is = "asked" \/ next > Items
     THEN /\ busy' = busy \ {i}
          /\ UNCHANGED <<runs, next>>
     ELSE /\ busy' = (busy \ {i}) \cup {next}
          /\ Schedule({next})
          /\ next' = next + 1
  /\ UNCHANGED <<turnVars, phase, aborted, cut, sessionVars>>

\* Mutant of Outcome: questions are looked at before failures.
OutcomeAsksFirst ==
  IF reported # {} THEN "asked"
  ELSE IF failed THEN "failed"
  ELSE IF aborted THEN "nothing"
  ELSE "list"
Outcome ==
  IF failed THEN "failed"
  ELSE IF reported # {} THEN "asked"
  ELSE IF aborted THEN "nothing"
  ELSE "list"

\* Promise.all: the worker throws, or waits for answers and has its input
\* recorded, or emits its list.
Finish ==
  /\ phase = "running" /\ busy = {}
  /\ phase' = Outcome
  /\ spoke' = (spoke \/ (~cut /\ Outcome \in {"failed", "list"}))
  /\ kept' = (kept \/ (~cut /\ Outcome = "asked"))
  /\ UNCHANGED <<turnVars, aborted, cut, runs, poolVars, out, asked, answered, raised, made>>

\* A sibling failed, or the caller aborted and commits nothing more.
Abort ==
  /\ phase \in {"triggered", "running"} /\ ~aborted
  /\ aborted' = TRUE
  /\ cut' \in BOOLEAN
  /\ UNCHANGED <<turnVars, phase, runs, poolVars, sessionVars>>

---------------------------------------------------------------------------
(* Turns                                                                   *)

\* The graph triggers the worker again, with another list of as many items.
Reactivate ==
  /\ Loops /\ phase = "list" /\ input < MaxInputs
  /\ phase' = "triggered" /\ input' = input + 1
  /\ UNCHANGED <<rerun, turn, origin, aborted, cut, runs, poolVars, sessionVars>>

EndTurn ==
  /\ phase \in {"list", "asked", "failed", "nothing"}
  /\ phase' = "off"
  /\ UNCHANGED <<turnVars, aborted, cut, runs, poolVars, sessionVars>>

\* eventsForCurrentRun: a turn that emitted node events and no interrupt
\* ended the run.
InProgress == (raised \/ ~spoke) /\ \E i \in Item : asked[i] > 0

NewTurn ==
  /\ phase = "off" /\ turn < MaxTurns
  /\ turn' = turn + 1
  /\ phase' = "triggered"
  /\ aborted' = FALSE /\ cut' = FALSE /\ spoke' = FALSE /\ raised' = FALSE
  /\ runs' = [i \in Item |-> NoRun]
  /\ UNCHANGED <<rerun, poolVars>>
\* The client answers questions that are open, if any are; the worker gets
\* the input it had, or the reply if the session does not have that input.
Reply ==
  /\ NewTurn
  /\ InProgress
  /\ \E S \in SUBSET OpenIds :
       /\ S = {} => OpenIds = {}
       /\ Careful => S = OpenIds
       /\ answered' = [i \in Item |-> answered[i] \cup {n \in 1..asked[i] : <<i, n>> \in S}]
  /\ IF kept THEN UNCHANGED input ELSE input < MaxInputs /\ input' = input + 1
  /\ UNCHANGED <<origin, out, asked, made, kept>>
FreshRun ==
  /\ NewTurn
  /\ ~InProgress /\ input < MaxInputs
  /\ input' = input + 1 /\ origin' = input' /\ kept' = FALSE
  /\ out' = [i \in Item |-> 0] /\ asked' = [i \in Item |-> 0]
  /\ made' = [i \in Item |-> 0] /\ answered' = [i \in Item |-> {}]

---------------------------------------------------------------------------
Init ==
  /\ rerun \in BOOLEAN
  /\ turn = 0 /\ phase = "off" /\ input = 0 /\ origin = 0 /\ kept = FALSE
  /\ aborted = FALSE /\ cut = FALSE /\ spoke = FALSE /\ raised = FALSE
  /\ runs = [i \in Item |-> NoRun]
  /\ busy = {} /\ next = 1 /\ results = [i \in Item |-> Hole]
  /\ failed = FALSE /\ reported = {}
  /\ out = [i \in Item |-> 0] /\ asked = [i \in Item |-> 0]
  /\ made = [i \in Item |-> 0] /\ answered = [i \in Item |-> {}]

Engine == Activate \/ (\E i \in Item : Return(i)) \/ Finish \/ EndTurn
Bodies == \E i \in Item : Body(i)
User == Reply \/ FreshRun
Quiet == phase = "off" /\ UNCHANGED vars
Next == Engine \/ Bodies \/ Abort \/ Reactivate \/ User \/ Quiet

\* The engine goes on, and the bodies of the items end.
Spec == Init /\ [][Next]_vars /\ WF_vars(Engine) /\ WF_vars(Bodies)

---------------------------------------------------------------------------
(* Properties                                                              *)

\* The list a worker emits has no hole, and at each place a result of that
\* item computed in the run in progress (ParallelWorker.runImpl).
ListIsOfThisRun ==
  phase = "list" => \A i \in Item : results[i] \in {i} \X (origin..input)

\* An item whose output the session has is not executed again while the run
\* is resumed (scheduleRun, completeWithoutRunning).
RecordedItemsRunOnce == \A i \in Item : made[i] <= 1

\* A paused worker reports the questions that are open, all of them and
\* nothing else, and never hides a failure behind them (schedule, runImpl).
AsksWhatIsOpen ==
  /\ phase = "asked" /\ ~cut => reported = OpenIds
  /\ phase \in {"asked", "list"} => \A i \in Item : runs[i].is # "failed"

\* An item whose last question was answered does not ask again in that run
\* (resumeHandoff).
AnsweredIsNotAskedAgain ==
  [][\A i \in Item : asked'[i] > asked[i] => asked[i] \notin answered[i]]_vars

\* Every turn of the worker ends (Promise.all over the pool).
TurnEnds == phase # "off" ~> phase = "off"
=============================================================================
