--------------------------- MODULE MCResumeTurns ----------------------------
(***************************************************************************)
(* A worker and two questions asked side by side, a join of the three, a   *)
(* follow-up question behind the join, and a terminal node that reports.   *)
(* HumanInput, what of a session answers which question, over short ones.  *)
(***************************************************************************)
EXTENDS ResumeTurns

\* Each node is activated once in a run, a body that asks does nothing else,
\* and the turns of a run retrace each other.
ASSUME MCRetraces == Forest /\ AsksOnly /\ Retraceable

CONSTANTS work, ask1, ask2, join, ask3, report, Default, Thrown, Missing

Graph == INSTANCE WorkflowGraph

Edge(m, n) == [from |-> m, to |-> n, routes |-> {}]
MCEdges == <<Edge(START, work), Edge(START, ask1), Edge(START, ask2),
             Edge(work, join), Edge(ask1, join), Edge(ask2, join),
             Edge(join, ask3), Edge(ask3, report)>>

ASSUME MCGraphIsValid == Graph!ValidateGraph(MCEdges)

MCNode == {work, ask1, ask2, join, ask3, report}
MCStartTargets == Graph!StartTargetsOf(MCEdges)
MCTargets == [n \in MCNode |-> [R \in {{}} |-> Graph!GetNextPendingNodes(MCEdges, n, R)]]
MCPreds == [n \in MCNode |-> Graph!PredecessorsOf(MCEdges, n)]
MCTerminal == Graph!TerminalNodesOf(MCEdges)

Yields == [kind |-> "done", yields |-> TRUE, routes |-> {}, ids |-> {}]
Fails == [kind |-> "error", yields |-> FALSE, routes |-> {}, ids |-> {}]
Asks(i) == [kind |-> "done", yields |-> FALSE, routes |-> {}, ids |-> {i}]
MCAsk == {ask1, ask2, ask3}
MCGenerated == [n \in MCNode |-> [k \in 1..MaxTurns |->
                  IF n \in MCAsk THEN {<<"id", n, k>>} ELSE {}]]
MCInterrupt == {<<"id", n, k>> : n \in MCAsk, k \in 1..MaxTurns}
MCHistory == {[prior |-> [n \in MCNode |-> << >>], answers |-> {}]}
MCBehaviour ==
  (work :> {Yields, Fails}) @@ (join :> {Yields}) @@ (report :> {Yields}) @@
  [n \in MCAsk |-> {Asks(i) : i \in MCInterrupt}]

---------------------------------------------------------------------------
(* An agent `me' whose tool is a form that asks one or two questions, the  *)
(* first for an object, and a user who answers them, wrongly too, or types.*)
Question(id, schema) == [name |-> "adk_request_input", id |-> id, alt |-> "", schema |-> schema]
Forms == ("form1" :> <<Question("a", "object")>>)
         @@ ("form2" :> <<Question("a", "object"), Question("b", "none")>>)
FormBody(form, inputs) ==
  LET open == SelectSeq(Forms[form], LAMBDA q : q.id \notin DOMAIN inputs)
  IN  [asks |-> open, output |-> IF open = << >> THEN [kind |-> "object", v |-> inputs] ELSE Missing]

Input == INSTANCE HumanInput WITH Throws <- Thrown, Nothing <- Missing, Body <- FormBody

FormCall(form) == [name |-> form, id |-> "c1", alt |-> "", schema |-> "none"]
Asked(form) == << Input!Said("user", "hi"), [Input!Said("me", "") EXCEPT !.calls = <<FormCall(form)>>],
                  [Input!Said(form, "") EXCEPT !.calls = Forms[form]] >>
Answering(id, kind) == [name |-> "adk_request_input", id |-> id, wrapped |-> kind # "wrong",
                    value |-> [kind |-> kind, v |-> id]]
Replies(id, kinds) == {<< >>} \cup {<<Answering(id, k)>> : k \in kinds}
Messages == {Input!Said("user", "typed")} \cup
  {[Input!Said("user", "") EXCEPT !.answers = a \o b] :
     a \in Replies("a", {"object", "wrong", "json"}), b \in Replies("b", {"text", "object"})}
Talked(form, messages) ==
  FoldLeft(LAMBDA events, msg : Input!Turn(events, msg, "me", {form}), Asked(form), messages)
Finished(events) == SelectSeq(Input!AnswersOf(events), LAMBDA x : x.id = "c1")
Wrongly(msg) == \E i \in DOMAIN msg.answers : msg.answers[i].value.kind = "wrong"
Complete(form, msg) ==
  ~Wrongly(msg) /\ {Forms[form][i].id : i \in DOMAIN Forms[form]} \subseteq Input!Ids(msg.answers)

\* Whatever was said before, the message that answers every question of a tool
\* that waits finishes it with these answers; typed text answers them all if
\* the user answered none before; a wrong answer leaves the tool waiting and
\* its question open; and the tool is finished once.
ASSUME AnsweredToolFinishes ==
  \A form \in DOMAIN Forms : \A n \in 0..2 : \A before \in [1..n -> Messages] : \A msg \in Messages :
    LET was == Talked(form, before)
        now == Talked(form, Append(before, msg))
        waited == Finished(was) = << >>
        given == Finished(now)[1].value.v
    IN /\ Len(Finished(now)) <= 1
       /\ waited /\ Complete(form, msg) =>
            /\ Finished(now) # << >>
            /\ \A i \in DOMAIN Forms[form] : given[Forms[form][i].id].v = Forms[form][i].id
            /\ given["a"].kind = "object"
       /\ waited /\ msg.text = "typed" /\ (\A i \in 1..n : before[i].answers = << >> \/ Wrongly(before[i]))
            /\ (\A i \in 1..n : "b" \notin Input!Ids(before[i].answers))
              => Finished(now) # << >> /\ \A q \in DOMAIN given : given[q].v = "typed"
       /\ Wrongly(msg) => now = Append(was, msg)
       /\ (\A i \in 1..n : "a" \notin Input!Ids(before[i].answers) \/ Wrongly(before[i])) /\ Wrongly(msg)
              => "a" \in Input!PendingInterruptIds(now)

\* Unless a wrong answer was given, which a client sees as an answer, a client
\* is shown exactly the questions the agent waits for, each once; and another
\* agent never runs this one's tool.
ASSUME ClientSeesWhatIsOpen ==
  \A form \in DOMAIN Forms : \A n \in 1..3 : \A messages \in [1..n -> Messages] :
    LET events == Talked(form, messages)
        shown == Input!GetPendingUserInputRequests(events)
    IN /\ Cardinality(Input!Ids(shown)) = Len(shown)
       /\ (\A i \in 1..n : ~Wrongly(messages[i])) => Input!Ids(shown) = Input!PendingInterruptIds(events)
       /\ Input!Turn(Asked(form), messages[1], "peer", {form}) = Append(Asked(form), messages[1])

Task(call, says) ==
  [Input!Said("me", "") EXCEPT
     !.calls = IF call = "" THEN << >> ELSE << [FormCall("finish_task") EXCEPT !.id = call] >>,
     !.answers = IF says = "" THEN << >>
                 ELSE << [name |-> "finish_task", id |-> "x", wrapped |-> TRUE, value |-> says] >>]
\* A task ends at its first success and with the arguments of the call it is
\* the success of: a refused call's arguments are never its output.
ASSUME TaskEndsWithWhatSucceeded ==
  \A n \in 1..5 :
  \A run \in [1..n -> {Task("", ""), Task("c1", ""), Task("c2", ""), Task("", "failed"), Task("", "success")}] :
    LET ended == Input!RunTaskMode(run)
        Successes == {i \in 1..n : run[i] = Task("", "success") /\ \E k \in 1..(i - 1) : run[k].calls # << >>}
        won == CHOOSE i \in Successes : \A k \in Successes : i <= k
        last == CHOOSE k \in 1..(won - 1) : run[k].calls # << >> /\ \A m \in (k + 1)..(won - 1) : run[m].calls = << >>
    IN IF Successes = {} THEN ended.yielded = run /\ ended.output = << >>
       ELSE ended.yielded = SubSeq(run, 1, won) /\ ended.output = <<run[last].calls[1].id>>

Line(text, partial, calls, run) ==
  [who |-> "model", text |-> text, partial |-> partial, calls |-> calls, invocation |-> run,
   path |-> <<"flow", "writer">>, output |-> Missing]
Lines == {Line(text, partial, calls, run) :
            text \in {"json", "x"}, partial \in BOOLEAN, calls \in {<< >>, <<FormCall("f")>>}, run \in {1, 2}}
\* What the instruction of a later node shows of an agent node is its last whole
\* message of this run, as an object where the agent has a schema, and never a
\* streamed piece, a call or the output of an earlier run.
ASSUME InstructionSeesTheLastWord ==
  \A n \in 1..3 : \A run \in [1..n -> Lines] : \A hasSchema \in BOOLEAN :
    LET told == Input!CollectPredecessorOutputs([i \in 1..n |-> Input!MaybeSetOutput(run[i], hasSchema)], 1)
        words == SelectSeq(run, LAMBDA e : ~e.partial /\ e.calls = << >> /\ e.invocation = 1)
    IN IF words = << >> THEN DOMAIN told = {}
       ELSE told = ("writer" :> (IF hasSchema /\ Last(words).text = "json" THEN "object" ELSE Last(words).text))
=============================================================================
