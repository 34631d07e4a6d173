---------------------------- MODULE ModelStreams ----------------------------
(***************************************************************************)
(* The three collectors that turn what a model streams into the responses  *)
(* an agent sees: the one of a live connection (LiveResponseAggregator)    *)
(* and the two strategies of a streamed request, progressive and not.      *)
(* Partial responses are shown and not stored, the others are stored.      *)
(*                                                                         *)
(* Each is a function from a state and an input to a state and the         *)
(* responses yielded.  A word of text, a call, an argument is a value.     *)
(* Usage, grounding and citation data, ids and signatures are left out.    *)
(***************************************************************************)
EXTENDS Naturals, SequencesExt

\* A piece of content: a run of words that is or is not a thought, a tool call
\* with its arguments, or anything else (media, code).
Piece(kind, body) == [kind |-> kind, body |-> body]
Words(thought, words) == Piece(IF thought THEN "thought" ELSE "text", words)
IsWords(p) == p.kind \in {"text", "thought"}

Response(pieces, partial) == [pieces |-> pieces, partial |-> partial]

\* A collector's state and output, threaded through a fold.
Run(s) == [s |-> s, out |-> << >>]
Yield(acc, r) == [acc EXCEPT !.out = Append(@, r)]
Keep(acc, piece) == Yield(acc, Response(<<piece>>, FALSE))

FeedAll(feed(_, _), s0, inputs) == FoldLeft(feed, Run(s0), inputs)

---------------------------------------------------------------------------
(* LiveResponseAggregator                                                  *)

\* A server message: content parts, the words transcribed for either side and
\* whether that transcript is finished, the flags that end a turn, tool calls.
LiveStart == [text |-> << >>, thought |-> FALSE, calls |-> << >>, heard |-> << >>, said |-> << >>]

FlushLiveText(acc) ==
  IF acc.s.text = << >> THEN acc
  ELSE [Keep(acc, Words(acc.s.thought, acc.s.text)) EXCEPT !.s.text = << >>, !.s.thought = FALSE]

FlushCalls(acc) ==
  IF acc.s.calls = << >> THEN acc
  ELSE [Keep(acc, Piece("calls", acc.s.calls)) EXCEPT !.s.calls = << >>]

\* Text of the other kind flushes what was collected.
CollectPart(acc, p) ==
  IF ~IsWords(p) THEN acc
  ELSE LET thought == p.kind = "thought"
           kept == IF acc.s.text # << >> /\ acc.s.thought # thought THEN FlushLiveText(acc) ELSE acc
       IN [kept EXCEPT !.s.text = @ \o p.body, !.s.thought = thought]

\* The content of a turn: collected, then passed on; media leaves the text alone.
Content(acc, parts) ==
  IF parts = << >> THEN acc
  ELSE LET collected == FoldLeft(CollectPart, acc, parts)
           spoken == \E i \in DOMAIN parts : IsWords(parts[i])
           media == \E i \in DOMAIN parts : parts[i].kind = "media"
           flushed == IF ~spoken /\ ~media THEN FlushLiveText(collected) ELSE collected
       IN Yield(flushed, Response(parts, spoken))

\* A transcription: its words are passed on at once and kept when it finishes.
Heard(acc, words, finished) ==
  LET shown == IF words = << >> THEN acc
               ELSE [Yield(acc, Response(<<Piece("heard", words)>>, TRUE)) EXCEPT !.s.heard = @ \o words]
  IN IF finished THEN [Keep(shown, Piece("heard", shown.s.heard)) EXCEPT !.s.heard = << >>] ELSE shown

Said(acc, words, finished) ==
  LET shown == IF words = << >> THEN acc
               ELSE [Yield(acc, Response(<<Piece("said", words)>>, TRUE)) EXCEPT !.s.said = @ \o words]
  IN IF finished THEN [Keep(shown, Piece("said", shown.s.said)) EXCEPT !.s.said = << >>] ELSE shown

\* The end of a turn finishes open transcriptions.
FinishTranscripts(acc, m) ==
  IF ~(m.interrupted \/ m.complete \/ m.generated) THEN acc
  ELSE LET h == IF acc.s.heard = << >> THEN acc ELSE Heard(acc, << >>, TRUE)
       IN IF h.s.said = << >> THEN h ELSE Said(h, << >>, TRUE)

EndOfTurn(acc, m) ==
  LET complete == IF ~m.complete THEN acc
                  ELSE Yield(FlushCalls(FlushLiveText(acc)), Response(<<Piece("complete", << >>)>>, FALSE))
  IN IF ~m.interrupted THEN complete
     ELSE IF complete.s.text # << >> THEN FlushLiveText(complete)
     ELSE Yield(complete, Response(<<Piece("interrupted", << >>)>>, FALSE))

\* Calls are passed on at once by a 3.x model, else at the end of the turn.
ToolCall(acc, m) ==
  IF m.calls = << >> THEN acc
  ELSE LET collected == [FlushLiveText(acc) EXCEPT !.s.calls = @ \o m.calls]
       IN IF m.eager THEN FlushCalls(collected) ELSE collected

\* processMessage
FeedLive(acc, m) ==
  LET content == Content(acc, m.parts)
      heard == Heard(content, m.heard, m.heardAll)
      said == Said(heard, m.said, m.saidAll)
  IN ToolCall(EndOfTurn(FinishTranscripts(said, m), m), m)

\* receive: the connection closed, only collected calls are flushed.
LiveResponses(messages) == FlushCalls(FeedAll(FeedLive, LiveStart, messages))

---------------------------------------------------------------------------
(* StreamingResponseAggregator, progressive                                *)

\* A chunk is a sequence of pieces.  A call may come whole ("call"), or in
\* pieces ("piece"): a name, one argument word each, and whether more follow.
None == [name |-> "none", args |-> << >>]
ProgressiveStart == [parts |-> << >>, text |-> << >>, thought |-> FALSE, call |-> None]

FlushBuffer(s) ==
  IF s.text = << >> THEN s
  ELSE [s EXCEPT !.parts = Append(@, Words(s.thought, s.text)), !.text = << >>, !.thought = FALSE]

FlushCall(s) ==
  IF s.call.name = "none" THEN s
  ELSE [s EXCEPT !.parts = Append(@, Piece("call", s.call.args)), !.call = None]

AddText(s, p) ==
  LET thought == p.kind = "thought"
      kept == IF s.text # << >> /\ s.thought # thought THEN FlushBuffer(s) ELSE s
  IN [kept EXCEPT !.text = @ \o p.body, !.thought = thought]

\* processStreamingFunctionCall
AddPiece(s, p) ==
  LET named == [s EXCEPT !.call.name = IF p.name = "none" THEN @ ELSE p.name, !.call.args = @ \o p.body]
  IN IF p.more THEN named ELSE FlushCall(FlushBuffer(named))

AddPart(s, p) ==
  IF IsWords(p) THEN AddText(s, p)
  ELSE IF p.kind = "piece" THEN AddPiece(s, p)
  ELSE [FlushBuffer(s) EXCEPT !.parts = Append(@, p)]

FeedProgressive(acc, chunk) ==
  IF chunk = << >> THEN acc
  ELSE Yield([acc EXCEPT !.s = FoldLeft(AddPart, acc.s, chunk)], Response(chunk, TRUE))

\* close: the one stored response of the request.
ProgressiveResponses(chunks) ==
  LET fed == FeedAll(FeedProgressive, ProgressiveStart, chunks)
      parts == FlushCall(FlushBuffer(fed.s)).parts
  IN IF parts = << >> THEN fed.out ELSE Append(fed.out, Response(parts, FALSE))

---------------------------------------------------------------------------
(* StreamingResponseAggregator, not progressive                            *)

Collected(s) ==
  (IF s.thought = << >> THEN << >> ELSE <<Words(TRUE, s.thought)>>)
  \o (IF s.text = << >> THEN << >> ELSE <<Words(FALSE, s.text)>>)

WordsOf(kind, pieces) == FoldLeft(LAMBDA w, p : IF p.kind = kind THEN w \o p.body ELSE w, << >>, pieces)

\* What is not text flushes the text collected before it, thoughts first.  (Of
\* an empty chunk only its metadata is kept, in either mode.)
FeedWhole(acc, chunk) ==
  LET s == [text |-> acc.s.text \o WordsOf("text", chunk),
            thought |-> acc.s.thought \o WordsOf("thought", chunk)]
      others == SelectSeq(chunk, LAMBDA p : ~IsWords(p))
      flushed == IF Collected(s) = << >> THEN acc ELSE Yield(acc, Response(Collected(s), FALSE))
  IN IF chunk = << >> THEN acc
     ELSE IF others = << >> THEN [Yield(acc, Response(chunk, TRUE)) EXCEPT !.s = s]
     ELSE [Yield(flushed, Response(others, FALSE)) EXCEPT !.s = [text |-> << >>, thought |-> << >>]]

WholeResponses(chunks) ==
  LET fed == FeedAll(FeedWhole, [text |-> << >>, thought |-> << >>], chunks)
  IN IF Collected(fed.s) = << >> THEN fed.out ELSE Append(fed.out, Response(Collected(fed.s), FALSE))

---------------------------------------------------------------------------
(* What every collector owes the session                                   *)

\* The pieces of the responses the session keeps, and of those only shown.
Pieces(responses, partial) ==
  FoldLeft(LAMBDA ps, r : IF r.partial = partial THEN ps \o r.pieces ELSE ps, << >>, responses)
Kept(responses) == Pieces(responses, FALSE)

Shown(responses) == Pieces(responses, TRUE)

\* Word by word: what a reader of the pieces reads, and of which kind.
Letters(pieces) ==
  FoldLeft(LAMBDA ws, p : ws \o [i \in DOMAIN p.body |-> <<p.kind, p.body[i]>>], << >>, pieces)
LettersOf(kind, pieces) == SelectSeq(Letters(pieces), LAMBDA w : w[1] = kind)
=============================================================================
