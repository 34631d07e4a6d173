----------------------------- MODULE HumanInput -----------------------------
(***************************************************************************)
(* An agent whose tools are nodes that ask the user: how the questions     *)
(* show to a client, how a reply of a later turn is matched to them, and   *)
(* which tools run again with it; beside it agents run as nodes.           *)
(*                                                                         *)
(* An event is [who, calls, answers, text]: a call [name, id, alt,         *)
(* schema], `alt' the id in its arguments; an answer [name, id, wrapped,   *)
(* value], wrapped if it came as {result: value}.  A value is [kind, v]:   *)
(* "text", "json" (text that parses as an object), "object" (one that fits *)
(* its schema) or "wrong" (one that does not).                             *)
(***************************************************************************)
EXTENDS Naturals, SequencesExt, FiniteSetsExt, TLC

CONSTANTS Throws, Nothing,
          Body(_, _)    \* what a node does with resume inputs: [asks, output]

Ask == "adk_request_input"
Kinds == (Ask :> "input") @@ ("adk_request_credential" :> "credential")
         @@ ("adk_request_confirmation" :> "confirmation")
MaxNodeToolDepth == 8
NoInputs == [x \in {} |-> Nothing]

Said(who, text) == [who |-> who, calls |-> << >>, answers |-> << >>, text |-> text]
CallsOf(events) == FlattenSeq([i \in DOMAIN events |-> events[i].calls])
AnswersOf(events) == FlattenSeq([i \in DOMAIN events |-> events[i].answers])
Ids(things) == {things[i].id : i \in DOMAIN things} \ {""}

---------------------------------------------------------------------------
(* What a client sees.                                                     *)

InterruptId(call) == IF call.id # "" THEN call.id ELSE call.alt

GetUserInputRequests(event) ==
  LET asked == SelectSeq(event.calls, LAMBDA c : c.name \in DOMAIN Kinds /\ InterruptId(c) # "")
  IN  [i \in DOMAIN asked |->
         [kind |-> Kinds[asked[i].name], id |-> InterruptId(asked[i]), who |-> event.who]]
RequiresUserInput(event) == GetUserInputRequests(event) # << >>

\* Answered is what any response names, wherever it stands.
GetPendingUserInputRequests(events) ==
  LET raised == FlattenSeq([i \in DOMAIN events |-> GetUserInputRequests(events[i])])
      Fresh(acc, r) == IF r.id \in Ids(AnswersOf(events)) \cup Ids(acc) THEN acc ELSE Append(acc, r)
  IN  FoldLeft(Fresh, << >>, raised)

---------------------------------------------------------------------------
(* The reply of a user.                                                    *)

ResponseSchema(events, id) ==
  LET asked == SelectSeq(CallsOf(events),
                         LAMBDA c : c.name = Ask /\ c.id = id /\ c.schema # "none")
  IN  IF asked = << >> THEN "none" ELSE Last(asked).schema

\* Text in a wrapper is read as JSON unless the question accepts a text.
UnwrapResponse(answer, schema) ==
  IF answer.wrapped /\ answer.value.kind = "json" /\ schema # "string"
  THEN [answer.value EXCEPT !.kind = "object"] ELSE answer.value

\* Only an object is held against the schema.
Mismatch(value, schema) ==
  /\ value.kind \in {"object", "wrong"} /\ schema # "none"
  /\ ~(value.kind = "object" /\ schema = "object")

Given(events, answer) == UnwrapResponse(answer, ResponseSchema(events, answer.id))
Fits(events, answer) == ~Mismatch(Given(events, answer), ResponseSchema(events, answer.id))

\* A user's own calls ask nothing.  An answer counts under any name.
PendingInterruptIds(events) ==
  LET user == AnswersOf(SelectSeq(events, LAMBDA e : e.who = "user"))
      asked == CallsOf(SelectSeq(events, LAMBDA e : e.who # "user"))
  IN  Ids(SelectSeq(asked, LAMBDA c : c.name = Ask))
        \ Ids(SelectSeq(user, LAMBDA a : Fits(events, a)))

\* The newest event of the user with an answer that fits; a newest one that
\* does not fit fails the run.  Without any, typed text answers all that is open.
CollectResumeInputs(events) ==
  LET users == {i \in DOMAIN events : events[i].who = "user"}
      To(i) == SelectSeq(events[i].answers, LAMBDA a : a.name = Ask /\ a.id # "")
      Valid(i) == SelectSeq(To(i), LAMBDA a : Fits(events, a))
      found == {i \in users : Valid(i) # << >>}
      newest == Max(users)
      LastTo(s, id) == Last(SelectSeq(s, LAMBDA a : a.id = id))
  IN  IF users = {} THEN NoInputs
      ELSE IF Valid(newest) # To(newest) THEN Throws
      ELSE IF found # {}
      THEN [id \in Ids(Valid(Max(found))) |-> Given(events, LastTo(Valid(Max(found)), id))]
      ELSE IF events[newest].text # "" /\ events[newest].answers = << >> /\ events[newest].calls = << >>
      THEN [id \in PendingInterruptIds(events) |-> [kind |-> "text", v |-> events[newest].text]]
      ELSE NoInputs

---------------------------------------------------------------------------
(* The tools that run again.                                               *)

\* A node runs as a tool: what it asks is raised by the node, and then the
\* call has no answer yet.
RunNodeTool(call, inputs, depth, hasQueue) ==
  IF ~hasQueue \/ call.id = "" \/ depth >= MaxNodeToolDepth THEN Throws
  ELSE LET child == Body(call.name, inputs)
       IN  [asks |-> child.asks,
            answer |-> IF child.asks # << >> THEN << >>
                       ELSE << [name |-> call.name, id |-> call.id, wrapped |-> child.output = Nothing,
                                value |-> child.output] >>]

PendingCalls(events, agent, nodeTools) ==
  LET mine == CallsOf(SelectSeq(events, LAMBDA e : e.who = agent))
      open == Ids(SelectSeq(mine, LAMBDA c : c.name \in nodeTools)) \ Ids(AnswersOf(events))
      first(id) == Min({i \in DOMAIN mine : mine[i].id = id})
      order == SetToSortSeq({first(id) : id \in open}, <)
  IN  [k \in DOMAIN order |-> Last(SelectSeq(mine, LAMBDA c : c.id = mine[order[k]].id))]

ErrorAnswer(call) ==
  [name |-> call.name, id |-> call.id, wrapped |-> FALSE, value |-> [kind |-> "error", v |-> ""]]

\* Every tool that still waits is given all the inputs.  The nodes' events come
\* as they are raised, the answers of the tools that finished in one event behind.
RequestInputProcessor(events, agent, nodeTools, depth) ==
  LET inputs == CollectResumeInputs(events)
      pending == PendingCalls(events, agent, nodeTools)
      ran == [k \in DOMAIN pending |-> RunNodeTool(pending[k], inputs, depth, TRUE)]
      asks == [k \in DOMAIN ran |->
                [Said(pending[k].name, "") EXCEPT !.calls = IF ran[k] = Throws THEN << >> ELSE ran[k].asks]]
      answers == FlattenSeq([k \in DOMAIN ran |->
                   IF ran[k] = Throws THEN << ErrorAnswer(pending[k]) >> ELSE ran[k].answer])
  IN  IF inputs = Throws THEN Throws
      ELSE IF inputs = NoInputs \/ pending = << >> THEN << >>
      ELSE SelectSeq(asks, LAMBDA e : e.calls # << >>)
           \o (IF answers = << >> THEN << >> ELSE << [Said(agent, "") EXCEPT !.answers = answers] >>)

\* One turn of a session: the message is stored, then the pending tools run.
Turn(events, message, agent, nodeTools) ==
  LET stored == Append(events, message)
      new == RequestInputProcessor(stored, agent, nodeTools, 0)
  IN  IF new = Throws THEN stored ELSE stored \o new

---------------------------------------------------------------------------
(* An agent as a node.                                                     *)

Finish == "finish_task"

\* A task ends with the success of a finish call; its output is what the last
\* such call was made with.  [yielded, output] of a run's events.
RunTaskMode(events) ==
  LET Step(st, e) ==
        IF st.done THEN st
        ELSE LET calls == SelectSeq(e.calls, LAMBDA c : c.name = Finish)
                 success == \E i \in DOMAIN e.answers :
                              e.answers[i].name = Finish /\ e.answers[i].value = "success"
             IN  IF calls # << >> THEN [st EXCEPT !.args = <<Head(calls).id>>, !.yielded = Append(@, e)]
                 ELSE IF st.args # << >> /\ success
                 THEN [st EXCEPT !.output = st.args, !.done = TRUE, !.yielded = Append(@, e)]
                 ELSE [st EXCEPT !.yielded = Append(@, e)]
  IN  FoldLeft(Step, [args |-> << >>, output |-> << >>, done |-> FALSE, yielded |-> << >>], events)

\* Otherwise each complete message of the model without calls is the output so
\* far, an empty one too.
MaybeSetOutput(event, hasSchema) ==
  IF event.partial \/ event.calls # << >> \/ event.who # "model" THEN event
  ELSE [event EXCEPT !.output = IF hasSchema /\ event.text = "json" THEN "object" ELSE event.text]

\* What an agent's instruction sees of the nodes before it, by their names.
CollectPredecessorOutputs(events, invocation) ==
  LET mine == SelectSeq(events, LAMBDA e : e.invocation = invocation /\ e.output # Nothing /\ e.path # << >>)
      NameOf(e) == Last(e.path)
  IN  [n \in {NameOf(mine[i]) : i \in DOMAIN mine} |->
         Last(SelectSeq(mine, LAMBDA e : NameOf(e) = n)).output]
=============================================================================
