---------------------------- MODULE CodeExecution ----------------------------
(***************************************************************************)
(* Code that an agent's code executor runs: the data files found in a      *)
(* request, which are loaded before the model is called, the block of code *)
(* found in its response, and what the executor remembers between them.    *)
(*                                                                         *)
(* A text is a sequence of words, in which Open and Close are the code     *)
(* block delimiters.  A part is [text, code, ran, data, output]: code to   *)
(* be run, how code ended ("ok", "failed"; output: in the field that holds *)
(* it), and a data file's content; << >> or "" where it has none.          *)
(* A context is what the executor finds in the live session: the input     *)
(* files (NoKey before the first), the names of those already processed,   *)
(* the id of its own session, and the errors of the invocation.            *)
(***************************************************************************)
EXTENDS Naturals, Sequences, SequencesExt, TLC

CONSTANTS Open, Close, NoKey,
          RetryAttempts, Stateful, OptimizeDataFile, ArtifactService

Part == [text |-> << >>, code |-> << >>, ran |-> "", data |-> "", output |-> << >>]
NoContext == [inputs |-> NoKey, processed |-> << >>, session |-> "", errors |-> 0]

BuildExecutableCodePart(code) == [Part EXCEPT !.text = code, !.code = code]
\* The text tells what was printed or saved; the result's own output stays empty.
BuildCodeExecutionResultPart(result) == [Part EXCEPT !.text = result.says, !.ran = result.ended]

GetInputFiles(context) == IF context.inputs = NoKey THEN << >> ELSE context.inputs

---------------------------------------------------------------------------
(* Before the model is called                                              *)

\* The data files of a request, named after their places in it.
DataFiles(contents) ==
  LET Of(i) == FlattenSeq([j \in DOMAIN contents[i].parts |->
                 IF contents[i].role = "user" /\ contents[i].parts[j].data # ""
                 THEN << [name |-> <<i, j>>, data |-> contents[i].parts[j].data] >>
                 ELSE << >>])
  IN FlattenSeq([i \in DOMAIN contents |-> Of(i)])

\* The files themselves stay in the request, with a text beside them.
ReplaceInlineFiles(contents) ==
  [i \in DOMAIN contents |->
     [contents[i] EXCEPT !.parts =
        IF contents[i].role # "user" THEN @
        ELSE [j \in DOMAIN @ |-> IF @[j].data = "" THEN @[j]
                                 ELSE [@[j] EXCEPT !.text = << <<i, j>> >>]]]]

\* The context afterwards, and the files to look at.  A list that was there
\* before is the context's own, and every new file enters it twice.
ExtractInlineFiles(context, contents) ==
  LET known == {f.name : f \in Range(GetInputFiles(context))}
      fresh == SelectSeq(DataFiles(contents), LAMBDA f : f.name \notin known)
      twice == FlattenSeq([i \in DOMAIN fresh |-> << fresh[i], fresh[i] >>])
  IN IF context.inputs = NoKey
     THEN [context |-> IF fresh = << >> THEN context ELSE [context EXCEPT !.inputs = fresh],
           files |-> fresh]
     ELSE [context |-> [context EXCEPT !.inputs = @ \o twice],
           files |-> context.inputs \o twice]

GetOrSetExecutionId(context, id) ==
  IF Stateful /\ context.session = "" THEN [context EXCEPT !.session = id] ELSE context

\* What is recorded with the event of a result, and what only this turn knows.
StateDelta(context) == [processed |-> context.processed, session |-> context.session]
CountError(context, result) ==
  [context EXCEPT !.errors = IF result.ended = "failed" THEN @ + 1 ELSE 0]

\* A run of either processor: the context it leaves, what was executed, the
\* contents of its events, the delta of its last one, and whether it throws.
Idle(context) == [context |-> context, ran |-> << >>, events |-> << >>,
                  delta |-> StateDelta(context), throws |-> FALSE]
Says(part) == [role |-> "model", parts |-> << part >>]

\* The code of a file is the file's own: executing it is loading the file.
LoadFile(run, file, result, id) ==
  LET context == [GetOrSetExecutionId(run.context, id)
                    EXCEPT !.processed = Append(@, file.name)]
      asked == [run EXCEPT !.ran = Append(@, file),
                           !.events = Append(@, Says(BuildExecutableCodePart(<< file.name >>)))]
  IN IF run.throws THEN run
     ELSE IF ~ArtifactService THEN [asked EXCEPT !.context = context, !.throws = TRUE]
     ELSE [asked EXCEPT !.context = CountError(context, result),
                        !.delta = StateDelta(context),
                        !.events = Append(@, Says(BuildCodeExecutionResultPart(result)))]

\* results[n]: how the n-th file's code ends.
RunPreProcessor(context, contents, results, id) ==
  IF ~OptimizeDataFile \/ context.errors >= RetryAttempts THEN Idle(context)
  ELSE LET found == ExtractInlineFiles(context, contents)
           files == SelectSeq(found.files,
                      LAMBDA f : f.name \notin Range(found.context.processed))
       IN FoldLeftDomain(LAMBDA run, n : LoadFile(run, files[n], results[n], id),
                         Idle(found.context), files)

\* Code in the last part goes back as a block, a lone result as its output.
ConvertCodeExecutionParts(content) ==
  LET n == Len(content.parts)
  IN IF n = 0 THEN content
     ELSE IF content.parts[n].code # << >>
     THEN [content EXCEPT !.parts[n] =
             [Part EXCEPT !.text = << Open >> \o content.parts[n].code \o << Close >>]]
     ELSE IF n = 1 /\ content.parts[1].ran # ""
     THEN [role |-> "user", parts |-> << [Part EXCEPT !.text = content.parts[1].output] >>]
     ELSE content

\* What the model is sent.
RequestAfter(run, contents) ==
  LET sent == (IF OptimizeDataFile THEN ReplaceInlineFiles(contents) ELSE contents) \o run.events
  IN [i \in DOMAIN sent |-> ConvertCodeExecutionParts(sent[i])]

---------------------------------------------------------------------------
(* After the model has answered                                            *)

\* Parts left, and the code to run: that of the first part whose result does
\* not follow it, or else the first block in the text, all that follows cut off.
ExtractCodeAndTruncate(parts) ==
  LET open == {i \in DOMAIN parts : /\ parts[i].code # << >>
                                    /\ i < Len(parts) => parts[i + 1].ran = ""}
      i == CHOOSE x \in open : \A y \in open : x <= y
      text == FlattenSeq([p \in DOMAIN parts |-> parts[p].text])
      from == SelectInSeq(text, LAMBDA w : w = Open)
      rest == SubSeq(text, from + 1, Len(text))
      length == SelectInSeq(rest, LAMBDA w : w = Close)
      code == SubSeq(rest, 1, length - 1)
      prefix == SubSeq(text, 1, from - 1)
      first == CHOOSE p \in DOMAIN parts :
                 /\ parts[p].text # << >>
                 /\ \A q \in DOMAIN parts : q < p => parts[q].text = << >>
  IN CASE open # {} -> [parts |-> SubSeq(parts, 1, i), code |-> parts[i].code]
       [] open = {} /\ from > 0 /\ length > 1 ->
            [parts |-> (IF prefix = << >> THEN << >>
                        ELSE << [parts[first] EXCEPT !.text = prefix] >>)
                       \o << BuildExecutableCodePart(code) >>,
             code |-> code]
       [] OTHER -> [parts |-> parts, code |-> << >>]

\* A response that was executed has no content of its own any more.
RunPostProcessor(context, parts, partial, result, id) ==
  LET cut == ExtractCodeAndTruncate(parts)
      ready == GetOrSetExecutionId(context, id)
      said == [role |-> "model", parts |-> cut.parts]
      run == [Idle(ready) EXCEPT !.ran = << cut.code >>, !.events = << said >>]
  IN IF partial \/ parts = << >> \/ context.errors >= RetryAttempts \/ cut.code = << >>
     THEN Idle(context)
     ELSE IF ~ArtifactService THEN [run EXCEPT !.throws = TRUE]
     ELSE [run EXCEPT !.context = CountError(ready, result),
                      !.delta = StateDelta(ready),
                      !.events = Append(@, Says(BuildCodeExecutionResultPart(result)))]

\* What the next turn finds: of the context, only what an event recorded.
NextTurn(run) == [NoContext EXCEPT !.processed = run.delta.processed, !.session = run.delta.session]
==============================================================================
