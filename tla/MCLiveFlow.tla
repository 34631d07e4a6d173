----------------------------- MODULE MCLiveFlow -----------------------------
(* A live session: two requests, up to three connections, one transfer.  The  *)
(* collectors of what the models stream (ModelStreams) and the steps of the   *)
(* interactions API (Interactions) are checked over bounded inputs.           *)
EXTENDS LiveFlow

S == INSTANCE ModelStreams

Inputs(messages, n) == UNION {[1..k -> messages] : k \in 0..n}

---------------------------------------------------------------------------
\* What a live server sends: words, a thought, media, transcripts of either
\* side, tool calls, the ends of a turn, and combinations of them.
Nothing == [parts |-> << >>, heard |-> << >>, heardAll |-> FALSE, said |-> << >>, saidAll |-> FALSE,
            interrupted |-> FALSE, complete |-> FALSE, generated |-> FALSE, calls |-> << >>, eager |-> FALSE]
Text == S!Piece("text", <<"a">>)
Thought == S!Piece("thought", <<"b">>)
Media == S!Piece("media", <<"m">>)
Messages ==
  {[Nothing EXCEPT !.parts = ps] : ps \in {<<Text>>, <<Thought, Text>>, <<Media>>, <<Text, Media>>}}
  \union {[Nothing EXCEPT !.heard = <<"h">>], [Nothing EXCEPT !.heard = <<"h">>, !.heardAll = TRUE],
          [Nothing EXCEPT !.said = <<"s">>, !.heardAll = TRUE], [Nothing EXCEPT !.generated = TRUE]}
  \union {[Nothing EXCEPT !.calls = <<"f", "g">>, !.eager = e] : e \in BOOLEAN}
  \union {[Nothing EXCEPT !.parts = <<Text>>, !.complete = c, !.interrupted = TRUE] : c \in BOOLEAN}

PartsOf(ms) == FlattenSeq([i \in DOMAIN ms |-> ms[i].parts])
End == [Nothing EXCEPT !.complete = TRUE]

\* When a turn is complete, the session has every word and thought of it in the
\* order they came, every transcript and, at the latest when the connection
\* closes, every tool call once (LiveResponseAggregator).
ASSUME CompleteTurnsAreKept ==
  \A ms \in Inputs(Messages, 2) :
    LET out == S!LiveResponses(Append(ms, End)).out
        spoken == SelectSeq(S!Letters(S!Kept(out)), LAMBDA w : w[1] \in {"text", "thought"})
        asked == SelectSeq(S!Letters(PartsOf(ms)), LAMBDA w : w[1] \in {"text", "thought"})
        words(field) == FlattenSeq([i \in DOMAIN ms |-> IF field = "heard" THEN ms[i].heard ELSE ms[i].said])
    IN /\ spoken = asked
       /\ \A side \in {"heard", "said"} :
            LET kept == S!LettersOf(side, S!Kept(out))
            IN [i \in DOMAIN kept |-> kept[i][2]] = words(side)
       /\ Len(S!LettersOf("calls", S!Kept(out))) = Len(FlattenSeq([i \in DOMAIN ms |-> ms[i].calls]))

\* A call survives the end of a connection, whatever was collected with it.
ASSUME CallsSurviveTheConnection ==
  \A ms \in Inputs(Messages, 2) :
    Len(S!LettersOf("calls", S!Kept(S!LiveResponses(ms).out)))
      = Len(FlattenSeq([i \in DOMAIN ms |-> ms[i].calls]))

---------------------------------------------------------------------------
\* Chunks of a streamed request, and calls that are streamed in pieces.
Call == S!Piece("call", <<"f">>)
Chunks == Inputs({Text, Thought, Call, Media}, 2)
PieceOf(name, more) == [kind |-> "piece", body |-> <<"x">>, name |-> name, more |-> more]
CallInPieces(n) == [i \in 1..n |-> <<PieceOf(IF i = 1 THEN "f" ELSE "none", i < n)>>]

\* Both strategies keep every word, call and file once; the progressive one keeps
\* their order, the other the order of each kind; and what is shown while the
\* model streams is what is kept (StreamingResponseAggregator).
ASSUME StreamedRequestsAreKept ==
  \A cs \in Inputs(Chunks, 3) :
    LET sent == FlattenSeq(cs)
        progressive == S!Kept(S!ProgressiveResponses(cs))
        whole == S!Kept(S!WholeResponses(cs))
    IN /\ S!Letters(progressive) = S!Letters(sent)
       /\ S!Letters(S!Shown(S!ProgressiveResponses(cs))) = S!Letters(sent)
       /\ \A kind \in {"text", "thought", "call", "media"} :
            S!LettersOf(kind, whole) = S!LettersOf(kind, sent)

\* A call streamed in pieces is one call with all its arguments, after the text
\* that came before its last piece and before the text that follows it.
ASSUME PiecesMakeOneCall ==
  \A n \in 1..3, before, after \in Inputs({<<Text>>, <<Thought>>}, 2) :
    LET kept == S!Kept(S!ProgressiveResponses(before \o CallInPieces(n) \o after))
        call == [i \in 1..n |-> <<"call", "x">>]
    IN S!Letters(kept) = S!Letters(FlattenSeq(before)) \o call \o S!Letters(FlattenSeq(after))

---------------------------------------------------------------------------
(* Conversations the server remembers, on every short history and stream.  *)

Talk == INSTANCE Interactions WITH None <- "", Broken <- "{"

Said(words) == Talk!Item("text", "", words, "")
Asks(id, args, sig) == Talk!Item("call", id, args, sig)
Thinks(sig) == Talk!Item("thought", "", << >>, sig)
Output(parts) == Talk!Item("model_output", "", parts, "")
Image == Talk!Item("image", "", <<"i">>, "")

\* The steps of an answer, what a stream of each is, and the parts it holds.
AnswerSteps == {Output(<<Said(<<"a">>)>>), Output(<<Said(<<"b", "c">>), Image>>),
                Asks("c1", << >>, ""), Asks("c2", <<"x", "y">>, "s"), Asks("c3", <<"x", "{">>, ""),
                Thinks("s")}
StreamEvent(type, item) == [type |-> type, item |-> item, id |-> "", error |-> ""]
Deltas(kind, pieces, sig) ==
  [i \in DOMAIN pieces |->
     StreamEvent("step.delta", Talk!Item(kind, "", <<pieces[i]>>, sig))]
StreamOf(step) ==
  <<StreamEvent("step.start", [step EXCEPT !.sig = ""])>>
  \o (IF step.kind = "model_output"
      THEN FlattenSeq([i \in DOMAIN step.body |-> Deltas(step.body[i].kind, step.body[i].body, "")])
      ELSE IF step.kind = "call" THEN Deltas("arguments", step.body, "")
      ELSE << >>)
  \o (IF step.sig = "" THEN << >> ELSE Deltas("signature", <<"">>, step.sig))
  \o <<StreamEvent("step.stop", Said(<< >>))>>
StreamOfAll(steps) ==
  <<[StreamEvent("created", Said(<< >>)) EXCEPT !.id = "new"]>>
  \o FlattenSeq([i \in DOMAIN steps |-> StreamOf(steps[i])])
InPieces(parts) ==
  FlattenSeq([i \in DOMAIN parts |->
    IF parts[i].kind = "text" THEN [k \in DOMAIN parts[i].body |-> Said(<<parts[i].body[k]>>)]
    ELSE <<[parts[i] EXCEPT !.body = IF parts[i].kind = "call" THEN Talk!ParseArgs(@) ELSE @]>>])
CallsOf(parts) == SelectSeq(parts, LAMBDA p : p.kind = "call")
Earlier == {<< >>, <<Talk!Item("user_input", "", <<Said(<<"u">>)>>, "")>>,
            <<Asks("c0", << >>, ""), Talk!Item("answer", "c0", << >>, "")>>}

\* Streamed or whole, an answer ends in the same parts, each call with its own
\* arguments and signature; text is shown as it comes; and every response names
\* the interaction, so that the next request continues it
\* (interactions_utils.ts:509, :590).
ASSUME StreamedAnswerIsTheWholeAnswer ==
  \A steps \in Inputs(AnswerSteps, 3) : \A end \in {"closed", "completed", "requires_action"} :
    LET Answer(all) == Talk!ConvertInteraction([status |-> IF end = "closed" THEN "completed" ELSE end,
                                                error |-> "", id |-> "new", steps |-> all])
        whole    == Answer(steps).parts
        streamed == Talk!GenerateContentViaInteractions("old",
                      Append(StreamOfAll(steps), StreamEvent(end, Said(<< >>))))
        partial  == SelectSeq(streamed, LAMBDA r : r.partial)
    IN  /\ \A before \in Earlier : Answer(before \o steps) = Answer(steps)
        /\ Answer(steps).complete /\ Answer(steps).id = "new"
        /\ whole # << >> => /\ InPieces(Talk!Last(streamed).parts) = InPieces(whole)
                            /\ Talk!Last(streamed).complete
        /\ FlattenSeq([i \in DOMAIN partial |-> partial[i].parts])
             = SelectSeq(InPieces(whole), LAMBDA p : p.kind = "text")
        /\ \A i \in DOMAIN streamed : streamed[i].id = "new"

\* Wherever a stream breaks off, a call whose step had ended has been given to
\* the agent with its arguments (interactions_utils.ts:693).
ASSUME EndedCallsSurviveABreak ==
  \A steps \in Inputs(AnswerSteps, 2) : \A n \in 1 .. Len(StreamOfAll(steps)) :
    LET events == SubSeq(StreamOfAll(steps), 1, n)
        ended  == Len(SelectSeq(events, LAMBDA e : e.type = "step.stop"))
        given  == SelectSeq(Talk!GenerateContentViaInteractions("old", events), LAMBDA r : ~r.partial)
    IN  ended > 0 =>
          \A call \in Talk!ToSet(InPieces(CallsOf(SubSeq(steps, 1, ended)))) :
            \E i \in DOMAIN given : call \in Talk!ToSet(given[i].parts)

\* A history: the user, this agent in interactions i1 and i2, calls with their
\* answers, and another agent, whose words are shown to this one as a user's.
Talked(role, author, interaction, parts) ==
  [role |-> role, author |-> author, branch |-> "", interaction |-> interaction, parts |-> parts]
Turns == {<<Talked("user", "user", "", <<Said(<<"u">>)>>)>>,
          <<Talked("user", "other", "i0", <<Said(<<"o">>)>>)>>,
          <<Talked("model", "me", "i1", <<Said(<<"a">>)>>)>>,
          <<Talked("model", "me", "i2", <<Said(<<"b">>), Asks("c1", <<"x">>, "")>>),
            Talked("user", "me", "", <<Talk!Item("answer", "c1", <<"r">>, "")>>)>>}
Histories == {FlattenSeq(h) : h \in Inputs(Turns, 4)}
StepsOf(contents) ==
  FlattenSeq([i \in DOMAIN contents |-> Talk!ConvertContentToSteps(contents[i])])

\* A request that continues an interaction tells the server all that happened
\* since and nothing it said itself, except the calls that are being answered;
\* a first request tells everything.  Every model content of this agent is the
\* answer of an interaction (interactions_request_processor.ts:30).
ASSUME ServerIsToldWhatIsNew ==
  \A h \in {x \in Histories : x # << >> /\ Talk!Last(x).role = "user"} :
    LET previous == Talk!PreviousInteractionId(h, "me", "")
        input    == Talk!Request([contents |-> h, tools |-> << >>, previous |-> previous]).input
        mine     == {0} \cup {i \in DOMAIN h : h[i].author = "me" /\ h[i].interaction # ""}
        last     == CHOOSE i \in mine : \A k \in mine : k <= i
        since    == StepsOf(SubSeq(h, last + 1, Len(h)))
    IN  /\ last = 0 => previous = "" /\ input = StepsOf(h)
        /\ last > 0 => /\ previous = h[last].interaction
                       /\ SelectSeq(input, LAMBDA p : p.kind \in {"user_input", "answer"}) = since
                       /\ \A i \in DOMAIN since : since[i].kind = "answer" =>
                            \E k \in DOMAIN input : input[k].kind = "call" /\ input[k].id = since[i].id

\* An answer that is sent back later is told as it was given: its calls, code and
\* thoughts in their order, and its words and media in theirs
\* (interactions_utils.ts:189).
ASSUME AnswersAreToldAsGiven ==
  \A steps \in Inputs(AnswerSteps, 3) :
    LET parts == Talk!GetLatestModelParts(steps)
        again == Talk!GetLatestModelParts(
                   Talk!ConvertContentToSteps([role |-> "model", parts |-> parts]))
    IN  \A kinds \in {{"call", "code", "thought"}, {"text", "image", "file"}} :
          SelectSeq(again, LAMBDA p : p.kind \in kinds) = SelectSeq(parts, LAMBDA p : p.kind \in kinds)
=============================================================================
