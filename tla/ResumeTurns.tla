---------------------------- MODULE ResumeTurns ----------------------------
(***************************************************************************)
(* A session of several turns of one workflow.  Every turn is a run of     *)
(* WorkflowLoop; between turns the user answers questions or writes text,  *)
(* and the next turn rebuilds what it knows from the session's events:     *)
(* eventsForCurrentRun, resolvedInterruptResponses, reconstructNodeRuns    *)
(* and resumeInputsFromPlainText.                                          *)
(*                                                                         *)
(* The session is the sequence of its turns.  A turn keeps the events of   *)
(* each node, `emitted' and `paused' (what eventsForCurrentRun reads off   *)
(* them) and the structured replies it opened with.  Interrupt ids are     *)
(* generated, as RequestInput does when the node names none: every body    *)
(* execution has ids of its own.                                           *)
(***************************************************************************)
EXTENDS WorkflowLoop

CONSTANTS MaxTurns,       \* bound: turns in a session
          Dispersed,      \* nodes whose bodies emit each result in its own event
          Generated,      \* Generated[n][k]: ids n's k-th execution may ask under
          CarefulClient   \* the client answers every open question at once, and
                          \* writes text only while at most one is open

ASSUME SessionAssumption == IsFiniteSet(Interrupt) /\ MaxTurns \in Nat \ {0}

VARIABLE session

NodeEvent == [out : Value, routes : SUBSET Route, ids : SUBSET Interrupt,
              input : Value]
Turn == [emitted : BOOLEAN, paused : BOOLEAN, replies : SUBSET Interrupt,
         refused : BOOLEAN, events : [Node -> Seq(NodeEvent)]]

NewTurn(replies, refused) ==
  [emitted |-> FALSE, paused |-> FALSE, replies |-> replies, refused |-> refused,
   events |-> [n \in Node |-> << >>]]

Now == Len(session)

\* What a node's events carry stems from executions of its own body.
SessionTypeOK ==
  /\ session \in Seq(Turn) /\ Now \in 1..MaxTurns
  /\ \A t \in DOMAIN session, n \in Node : \A e \in ToSet(session[t].events[n]) :
       /\ e.out \subseteq {n} \X (1..execs[n])
       /\ e.ids \subseteq UNION {Generated[n][k] : k \in 1..execs[n]}

---------------------------------------------------------------------------
(* Reading a session                                                       *)

\* Mutant of EventsForCurrentRun: a turn that ran to completion is no boundary.
EventsSinceFirstPause(s) ==
  {t \in DOMAIN s : \E from \in 1..t : s[from].emitted /\ s[from].paused}

\* eventsForCurrentRun, for a turn about to be appended to s: walking back
\* over the turns that emitted node events, those that paused belong to the
\* run in progress; a turn without node events is no boundary.
EventsForCurrentRun(s) ==
  {t \in DOMAIN s :
     \E from \in 1..t :
       /\ s[from].emitted /\ s[from].paused
       /\ \A u \in from..Len(s) : s[u].emitted => s[u].paused}

Raised(t) == UNION {UNION {e.ids : e \in ToSet(t.events[n])} : n \in Node}
RaisedIn(s, turns) == UNION {Raised(s[t]) : t \in turns}

\* resolvedInterruptResponses: a reply counts when the interrupt was open.
ResolvedIn(s, turns) ==
  {i \in Interrupt : \E t \in turns : /\ i \in s[t].replies
                                      /\ i \in RaisedIn(s, turns \cap 1..(t - 1))}

\* The events of node n over the kept turns, each a run of its own because
\* every one of them closes the run it belongs to (isRunClosed).
NodeEventsIn(s, turns, n) ==
  FlattenSeq([t \in DOMAIN s |-> IF t \in turns THEN s[t].events[n] ELSE << >>])

\* reconstructNodeRuns.
ReconstructNodeRuns(s, turns) ==
  [n \in Node |->
    LET es == NodeEventsIn(s, turns, n)
    IN  [i \in DOMAIN es |->
          [out |-> es[i].out, routes |-> es[i].routes, ids |-> es[i].ids,
           answered |-> es[i].ids \cap ResolvedIn(s, turns),
           input |-> es[i].input]]]

---------------------------------------------------------------------------
(* What a run of a node's body leaves in the session                       *)

Part(n, out, routes, ids) ==
  [out |-> out, routes |-> routes, ids |-> ids,
   input |-> IF ids = {} THEN {} ELSE input[n]]

EventsOf(n, out, routes, ids) ==
  LET whole == Part(n, out, routes, ids)
      parts == (IF out = {} THEN << >> ELSE <<Part(n, out, {}, {})>>)
               \o (IF routes = {} THEN << >> ELSE <<Part(n, {}, routes, {})>>)
               \o [i \in 1..Cardinality(ids) |-> Part(n, {}, {}, {SetToSeq(ids)[i]})]
  IN  IF out = {} /\ routes = {} /\ ids = {} THEN << >>
      ELSE IF n \in Dispersed THEN parts ELSE <<whole>>

Record(n, es) ==
  LET turn == session[Now]
  IN  session' = [session EXCEPT ![Now] =
        [turn EXCEPT !.events[n] = @ \o es,
                     !.emitted = @ \/ es # << >>,
                     !.paused = @ \/ \E i \in DOMAIN es : es[i].ids # {}]]

SettleAndRecord(n, k, e) ==
  /\ e.ids \subseteq Generated[n][k]
  /\ Settle(n, k, e)
  /\ Record(n, EventsOf(n, IF e.yields THEN {<<n, k>>} ELSE {}, e.routes, e.ids))

\* The error event carries the node's path but closes no run.
OrchestrateAndRecord ==
  /\ LoopStep
  /\ session' = IF reported' # reported
                THEN [session EXCEPT ![Now].emitted = TRUE] ELSE session

---------------------------------------------------------------------------
(* The next turn                                                           *)

\* Mutant of Resume: only the replies of the new turn are looked at.
ResumeFromReplies(turns, text) ==
  Restart(ReconstructNodeRuns(session', turns), session'[Len(session')].replies \cup text)
\* The turn starts from a new LoopState, replaying `turns' of the session.
Resume(turns, text) ==
  Restart(ReconstructNodeRuns(session', turns), ResolvedIn(session', turns) \cup text)

\* The questions of the run in progress that no structured reply resolved.
Unanswered ==
  LET kept == EventsForCurrentRun(session)
  IN  RaisedIn(session, kept) \ ResolvedIn(session, kept)

\* Structured replies to open questions.
Reply(ids) ==
  /\ Stopped /\ Now < MaxTurns
  /\ ids # {} /\ ids \subseteq Unanswered
  /\ CarefulClient => ids = Unanswered
  /\ session' = Append(session, NewTurn(ids, FALSE))
  /\ Resume(EventsForCurrentRun(session) \cup {Now + 1}, {})

\* Plain text: fed to the open question if there is exactly one.
PlainText ==
  /\ Stopped /\ Now < MaxTurns
  /\ CarefulClient => Cardinality(Unanswered) <= 1
  /\ session' = Append(session, NewTurn({}, FALSE))
  /\ Resume(EventsForCurrentRun(session) \cup {Now + 1},
            IF Cardinality(Unanswered) = 1 THEN Unanswered ELSE {})

\* A reply to an interrupt that is not open: the turn throws before any node
\* is triggered, and nothing is resolved.
RefuseReply(i) ==
  /\ Stopped /\ Now < MaxTurns
  /\ i \notin Unanswered
  /\ session' = Append(session, NewTurn({i}, TRUE))
  /\ phase' = "threw"
  /\ result' = [NoResult EXCEPT !.kind = "error"]
  /\ UNCHANGED <<todo, downstream, relay, first, bufVars, taskVars, bodyVars,
                 nodeVars, runVars, doneVars, resumeInputs, aborted, reported>>

---------------------------------------------------------------------------
sessionVars == <<vars, session>>

SessionInit == Init /\ session = <<NewTurn({}, FALSE)>>

SessionStep ==
  \/ OrchestrateAndRecord
  \/ \E r \in live : \E e \in Endings(r[1]) : SettleAndRecord(r[1], r[2], e)
  \/ Abort /\ UNCHANGED session
UserStep ==
  \/ \E ids \in SUBSET Interrupt : Reply(ids)
  \/ PlainText
  \/ \E i \in Interrupt : RefuseReply(i)
SessionOver == Stopped /\ Now = MaxTurns /\ UNCHANGED sessionVars

SessionNext == SessionStep \/ UserStep \/ SessionOver
SessionSpec == SessionInit /\ [][SessionNext]_sessionVars

---------------------------------------------------------------------------
(* Properties, for graphs without cycles: each node has one activation in  *)
(* a run, however many turns the run takes                                 *)

\* A body that asks does nothing else, and its node takes the answer as its
\* output.
AsksOnly ==
  \A n \in Node : \A e \in Behaviour[n] :
    e.ids # {} => n \notin RerunsOnResume /\ ~e.yields /\ e.routes = {}

\* A session whose turns retrace each other: it starts with its first turn, the
\* graph has no cycle, a join's predecessors lead to it on every route, and a
\* body that completes leaves one event.
Retraceable ==
  /\ \A h \in History : \A n \in Node : h.prior[n] = << >>
  /\ \A S \in SUBSET Node : S # {} => \E n \in S : Preds[n] \cap S = {}
  /\ \A n \in JoinNode : \A p \in Preds[n] \ {START} : \A R \in SUBSET Route :
       In(n, Targets[p][R])
  /\ \A n \in Node : \A e \in Behaviour[n] :
       e.kind = "done" => e.yields \/ e.routes # {} \/ e.ids # {}
  /\ Dispersed = {}

Earlier == EventsForCurrentRun(SubSeq(session, 1, Now - 1))
CompletedEarlier(n) ==
  \E e \in ToSet(NodeEventsIn(session, Earlier, n)) : e.out # {} \/ e.routes # {}

\* Resuming never executes a body again that completed in an earlier turn of
\* the same run (startNodeTask's fast-forward of a rehydrated run).
CompletedRunsAreNotRepeated ==
  [][\A n \in Node : execs'[n] # execs[n] => ~CompletedEarlier(n)]_sessionVars

\* An answer settles the question for good: a node that only asks does not
\* emit anything in the turn that brings the answer, nor later in the run
\* (startNodeTask's hand-over, applyResumeInputs).
AnswerSettlesTheQuestion ==
  LET kept == Earlier \cup {Now}
  IN  \A n \in Node \ RerunsOnResume : \A t \in kept :
        \A e \in ToSet(session[t].events[n]) :
          e.ids # {} =>
            \A u \in kept : t < u /\ e.ids \subseteq ResolvedIn(session, kept \cap 1..u)
                             => session[u].events[n] = << >>

\* A run that produced its output is over: the next message starts a new run
\* and is not answered from the old one (eventsForCurrentRun).
FinishedRunIsNotReplayed ==
  phase = "returned" /\ result.kind = "output" => EventsForCurrentRun(session) = {}

\* A resumed turn that returns has matched every completed run of the session
\* with an activation: no recorded work is orphaned (reconstructNodeRuns).
RecordedWorkIsReused ==
  phase = "returned" =>
    \A n \in Node : \A i \in DOMAIN rehydrated[n] :
      rehydrated[n][i].out = {} /\ rehydrated[n][i].routes = {}
=============================================================================
