---------------------------- MODULE Interactions ----------------------------
(***************************************************************************)
(* The stateful conversations of the Interactions API: the server keeps    *)
(* what it was told, so a request names the interaction it continues and   *)
(* sends only what came after; what comes back, whole or as a stream of    *)
(* steps, is turned into the responses an agent works on.                  *)
(*                                                                         *)
(* A content is [role, parts], a part or step [kind, id, body, sig]: body  *)
(* is a sequence of pieces (of text, or of the arguments of a call), sig a *)
(* thought signature.  `None' stands for what is absent.                   *)
(***************************************************************************)
EXTENDS Naturals, SequencesExt

CONSTANTS None, Broken     \* Broken: a piece no JSON parser accepts

Item(kind, id, body, sig) == [kind |-> kind, id |-> id, body |-> body, sig |-> sig]
IsMedia(p) == p.kind \in {"text", "image", "file"}

---------------------------------------------------------------------------
(* The request.                                                            *)

\* The last event of this agent on this branch that was an interaction.
PreviousInteractionId(events, agent, branch) ==
  LET own == {i \in DOMAIN events : /\ events[i].branch = branch
                                    /\ events[i].author = agent
                                    /\ events[i].interaction # None}
  IN  IF own = {} THEN None
      ELSE events[CHOOSE i \in own : \A k \in own : k <= i].interaction

\* The user contents at the end, after the calls they answer if they do.
GetLatestUserContents(contents) ==
  LET others == {i \in DOMAIN contents : contents[i].role # "user"}
      last   == IF others = {} THEN 0 ELSE CHOOSE i \in others : \A k \in others : k <= i
      latest == SubSeq(contents, last + 1, Len(contents))
      answers == \E i \in DOMAIN latest : \E k \in DOMAIN latest[i].parts :
                   latest[i].parts[k].kind = "answer"
      asks == /\ last > 0
              /\ contents[last].role = "model"
              /\ \E k \in DOMAIN contents[last].parts : contents[last].parts[k].kind = "call"
  IN  (IF answers /\ asks THEN <<contents[last]>> ELSE << >>) \o latest

\* What the role may say goes step by step, words and media together last.
ConvertContentToSteps(content) ==
  LET steps == IF content.role = "user" THEN {"answer", "result"}
               ELSE {"call", "code", "thought"}
      step(p) == IF p.kind = "result" THEN [p EXCEPT !.id = None]
                 ELSE IF p.kind = "thought" THEN [p EXCEPT !.body = << >>]
                 ELSE p
      said   == SelectSeq(content.parts, LAMBDA p : p.kind \in steps)
      media  == SelectSeq(content.parts, IsMedia)
      spoken == Item(IF content.role = "user" THEN "user_input" ELSE "model_output",
                     None, media, None)
  IN  IF content.role \notin {"user", "model"} THEN << >>
      ELSE [i \in DOMAIN said |-> step(said[i])] \o (IF media = << >> THEN << >> ELSE <<spoken>>)

\* Functions are offered one by one; the built-in tools once per entry.
ConvertToolsConfig(tools) ==
  FlattenSeq([i \in DOMAIN tools |->
    tools[i].functions \o
    SelectSeq(<<"google_search", "code_execution", "url_context">>,
              LAMBDA b : b \in tools[i].builtin)])

Request(r) ==
  [input |-> LET contents == IF r.previous = None THEN r.contents
                             ELSE GetLatestUserContents(r.contents)
             IN  FlattenSeq([i \in DOMAIN contents |-> ConvertContentToSteps(contents[i])]),
   tools |-> ConvertToolsConfig(r.tools),
   previous |-> r.previous]

---------------------------------------------------------------------------
(* The answer as a whole.                                                  *)

ConvertStepToParts(step) ==
  IF step.kind \in {"model_output", "user_input"} THEN step.body
  ELSE IF step.kind = "thought" THEN <<[step EXCEPT !.body = << >>]>>
  ELSE IF step.kind \in {"call", "answer", "code", "result"} THEN <<step>>
  ELSE << >>

\* The parts of the steps after the last one that was input.
GetLatestModelParts(steps) ==
  LET inputs == {i \in DOMAIN steps : steps[i].kind \in {"user_input", "answer", "result"}}
      last   == IF inputs = {} THEN 0 ELSE CHOOSE i \in inputs : \A k \in inputs : k <= i
  IN  FlattenSeq([i \in 1 .. (Len(steps) - last) |-> ConvertStepToParts(steps[last + i])])

Response(parts, partial, complete, error, id) ==
  [parts |-> parts, partial |-> partial, complete |-> complete, error |-> error, id |-> id]

ConvertInteraction(interaction) ==
  IF interaction.status = "failed"
  THEN Response(<< >>, FALSE, FALSE,
                IF interaction.error = None THEN "UNKNOWN_ERROR" ELSE interaction.error,
                interaction.id)
  ELSE Response(GetLatestModelParts(interaction.steps), FALSE,
                interaction.status \in {"completed", "requires_action"}, None, interaction.id)

---------------------------------------------------------------------------
(* The answer as a stream.  A call or thought is open from the start of    *)
(* its step to the end; what comes for it goes to the latest open one.     *)

Open(part) == [part |-> part, open |-> TRUE]
Closed(part) == [part |-> part, open |-> FALSE]

ParseArgs(pieces) == IF Broken \in ToSet(pieces) THEN << >> ELSE pieces

ActivePart(aggregated, kinds) ==
  {i \in DOMAIN aggregated :
     /\ aggregated[i].open /\ aggregated[i].part.kind \in kinds
     /\ \A k \in DOMAIN aggregated :
          aggregated[k].open /\ aggregated[k].part.kind \in kinds => k <= i}

\* s = [parts, id, out]: what is aggregated, the interaction, the responses.
Yields(s, r) == [s EXCEPT !.out = Append(@, r)]

StepStart(s, step) ==
  IF step.kind = "call" THEN [s EXCEPT !.parts = Append(@, Open([step EXCEPT !.body = << >>]))]
  ELSE IF step.kind = "thought" THEN [s EXCEPT !.parts = Append(@, Open([step EXCEPT !.body = << >>]))]
  ELSE s

StepDelta(s, delta) ==
  LET shown == Closed(Item(delta.kind, None, delta.body, None)) IN
  IF (delta.kind = "text" /\ delta.body # << >>) \/ delta.kind \in {"image", "file"}
  THEN Yields([s EXCEPT !.parts = Append(@, shown)],
              Response(<<shown.part>>, delta.kind = "text", FALSE, None, s.id))
  ELSE IF delta.kind = "arguments"
  THEN [s EXCEPT !.parts = [i \in DOMAIN @ |->
         IF i \in ActivePart(@, {"call"}) THEN [@[i] EXCEPT !.part.body = @ \o delta.body] ELSE @[i]]]
  ELSE IF delta.kind = "signature"
  THEN [s EXCEPT !.parts = [i \in DOMAIN @ |->
         IF i \in ActivePart(@, {"call", "thought"})
         THEN [@[i] EXCEPT !.part.sig = delta.sig] ELSE @[i]]]
  ELSE s

StepStop(s) ==
  LET active == ActivePart(s.parts, {"call", "thought"})
      ended  == [i \in DOMAIN s.parts |->
        IF i \notin active THEN s.parts[i]
        ELSE Closed([s.parts[i].part EXCEPT !.body = ParseArgs(@)])]
      calls  == SelectSeq([i \in DOMAIN ended |-> IF i \in active THEN ended[i].part
                                                  ELSE Item("other", None, << >>, None)],
                          LAMBDA p : p.kind = "call")
  IN  IF calls = << >> THEN [s EXCEPT !.parts = ended]
      ELSE Yields([s EXCEPT !.parts = ended], Response(calls, FALSE, FALSE, None, s.id))

\* A call whose step has not ended has no arguments yet.
Aggregated(s) ==
  [i \in DOMAIN s.parts |->
     IF s.parts[i].open THEN [s.parts[i].part EXCEPT !.body = << >>] ELSE s.parts[i].part]

ConvertEvent(s0, event) ==
  LET s == IF event.id = None THEN s0 ELSE [s0 EXCEPT !.id = event.id]
      failed == Response(<< >>, FALSE, TRUE,
                         IF event.error = None THEN "UNKNOWN_ERROR" ELSE event.error, s.id)
  IN  CASE event.type = "step.start" -> StepStart(s, event.item)
        [] event.type = "step.delta" -> StepDelta(s, event.item)
        [] event.type = "step.stop" -> StepStop(s)
        [] event.type \in {"completed", "requires_action"} ->
             Yields(s, Response(Aggregated(s), FALSE, TRUE, None, s.id))
        [] event.type \in {"failed", "error"} -> Yields(s, failed)
        [] OTHER -> s

\* What was aggregated is given once more when the stream ends, whatever ended it.
GenerateContentViaInteractions(previous, events) ==
  LET s == FoldLeft(ConvertEvent, [parts |-> << >>, id |-> previous, out |-> << >>], events)
  IN  IF s.parts = << >> THEN s.out
      ELSE Append(s.out, Response(Aggregated(s), FALSE, TRUE, None, s.id))
=============================================================================
