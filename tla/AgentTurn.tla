------------------------------ MODULE AgentTurn ------------------------------
(***************************************************************************)
(* One LlmAgent over the turns of a session: the steps of runAsyncImpl,    *)
(* each a pass of the request processors, a call of the model, and the     *)
(* tools the model asked for; and the tools that wait for a confirmation,  *)
(* whose gate pauses the turn and whose answer arrives in a later one.     *)
(*                                                                         *)
(* A call is named by its number.  The gate a call raises bears the name   *)
(* of the call: a tool raises it on its first run, and on the run that     *)
(* brings a decision it does its work or reports the refusal.  `log' is    *)
(* the stored session, of which it keeps the events that are read here:    *)
(* the user's messages, the gates and the answers.  An event that was      *)
(* yielded and is not stored yet is in `hand'; everything outside `log' is *)
(* lost with the turn.                                                     *)
(***************************************************************************)
EXTENDS Naturals, FiniteSets, SequencesExt, FiniteSetsExt

CONSTANTS
  MaxTurns,      \* bound: messages of the user
  MaxCalls,      \* bound: calls the model asks for
  MaxResponses,  \* bound: responses of one model call (1: not streaming)
  MaxLlmCalls,   \* runConfig.maxLlmCalls
  PlainText      \* runConfig.plainTextToolConfirmation

ASSUME TurnAssumption ==
  /\ MaxTurns \in Nat /\ MaxCalls \in Nat /\ MaxResponses \in Nat \ {0}
  /\ MaxLlmCalls \in Nat \ {0} /\ PlainText \in BOOLEAN

VARIABLES
  log,        \* the stored events (that are read here)
  kinds,      \* the tool of each call
  effects,    \* how often each call's tool did its work
  cuts,       \* turns that broke off
  at,         \* where the turn is
  hand,       \* the event yielded and not stored, if any
  next,       \* where the turn goes on after it
  todo,       \* calls of the batch still to be run
  done,       \* calls of the batch that returned a response
  asked,      \* calls of the batch that asked for a confirmation
  last,       \* the last event of the step, as runAsyncImpl reads it
  hadTools,   \* stepHadToolCalls
  endInvocation,
  llmCalls,   \* numberOfLlmCalls
  responses,  \* responses of this model call so far
  heard       \* stored events at the last model call of the turn

batchVars == <<todo, done, asked>>
stepVars  == <<last, hadTools>>
runVars   == <<endInvocation, llmCalls, responses, heard>>
vars == <<log, kinds, effects, cuts, at, hand, next, batchVars, stepVars, runVars>>

\* plain: answers; quiet: answers and skips the summary; long: answers later;
\* gated: asks for a confirmation first.
Kinds == {"plain", "quiet", "long", "gated"}
UserWords == {"text", "yes", "decide"}
AgentWords == {"calls", "answers", "gate", "said", "report", "error"}
\* ids: the calls an event is about; ok: those a decision approves.
Event == [what : UserWords \cup AgentWords, ids : SUBSET (1..MaxCalls),
          ok : SUBSET (1..MaxCalls)]
Ev(what, ids) == [what |-> what, ids |-> ids, ok |-> {}]

TypeOK ==
  /\ log \in Seq(Event) /\ kinds \in Seq(Kinds) /\ Len(kinds) <= MaxCalls
  /\ effects \in [1..MaxCalls -> Nat] /\ cuts \subseteq Nat
  /\ at \in {"idle", "confirm", "resume", "model", "stream", "batch", "yield", "stepEnd"}
  /\ hand \in Seq(Event) /\ next \in {"model", "stream", "batch", "stepEnd"}
  /\ todo \subseteq 1..MaxCalls
  /\ done \subseteq 1..MaxCalls /\ asked \subseteq 1..MaxCalls
  /\ last \in {"none", "open", "final", "empty", "partial"}
  /\ hadTools \in BOOLEAN /\ endInvocation \in BOOLEAN
  /\ llmCalls \in Nat /\ responses \in Nat /\ heard \in Nat

Init ==
  /\ log = << >> /\ kinds = << >> /\ effects = [c \in 1..MaxCalls |-> 0]
  /\ cuts = {} /\ at = "idle" /\ hand = << >> /\ next = "model"
  /\ todo = {} /\ done = {} /\ asked = {}
  /\ last = "none" /\ hadTools = FALSE
  /\ endInvocation = FALSE /\ llmCalls = 0 /\ responses = 0 /\ heard = 0

---------------------------------------------------------------------------
(* Reading the session                                                     *)

Is(what) == {i \in DOMAIN log : log[i].what = what}
UserEvents == {i \in DOMAIN log : log[i].what \in UserWords}
Turn(i) == Cardinality({u \in UserEvents : u <= i})
Now == Turn(Len(log))
Gates == UNION {log[i].ids : i \in Is("gate")}
GateOf(c) == CHOOSE i \in Is("gate") : c \in log[i].ids
LatestUser == Max(UserEvents)

\* hasRespondedAfter: the approval is spent once the call has a response that
\* follows its gate.
\* Mutant of Spent: only a response that follows the approval counts.
SpentThisTurn(c) == \E i \in Is("answers") : i > LatestUser /\ c \in log[i].ids
Spent(c) == \E i \in Is("answers") : i > GateOf(c) /\ c \in log[i].ids

\* mapPlainTextConfirmation: the last gate before the reply that nobody
\* decided on, with no other message of the user in between.
PlainTextTarget ==
  LET decided == UNION {log[i].ids : i \in Is("decide")}
      open == {i \in Is("gate") : /\ i < LatestUser
                                  /\ ~ \E u \in UserEvents : i < u /\ u < LatestUser
                                  /\ log[i].ids \ decided # {}}
  IN IF PlainText /\ open # {} THEN {Min(log[Max(open)].ids \ decided)} ELSE {}

\* collectApprovals: what the latest message of the user decides, and how.
Decision ==
  LET m == log[LatestUser]
  IN CASE m.what = "decide" -> [ids |-> m.ids, ok |-> m.ok]
       [] m.what = "yes" -> [ids |-> PlainTextTarget, ok |-> PlainTextTarget]
       [] OTHER -> [ids |-> {}, ok |-> {}]

\* collectGateCandidates and bindApprovedCalls: the gates the decision answers
\* and nothing has spent.  They are resumed in the order they were raised, that
\* of their numbers.
\* Mutant of Resumable: one decision is carried out per turn.
OnlyTheFirst ==
  LET cs == {c \in Decision.ids \cap Gates : ~Spent(c)}
  IN IF cs = {} THEN {} ELSE {Min(cs)}
Resumable == {c \in Decision.ids \cap Gates : ~Spent(c)}

---------------------------------------------------------------------------
(* The turn                                                                *)

\* The event goes to the runner, which stores it before it asks for more.
Yield(e, seenAs, tools, then) ==
  /\ hand' = <<e>> /\ at' = "yield" /\ next' = then
  /\ last' = seenAs /\ hadTools' = (hadTools \/ tools)

Messages ==
  {Ev("text", {})} \cup (IF PlainText THEN {Ev("yes", {})} ELSE {})
    \cup UNION {{[what |-> "decide", ids |-> ids, ok |-> ok] : ok \in SUBSET ids} :
                  ids \in SUBSET Gates \ {{}}}

UserSends ==
  /\ at = "idle" /\ Cardinality(UserEvents) < MaxTurns
  /\ \E m \in Messages : log' = Append(log, m)
  /\ at' = "confirm"
  /\ endInvocation' = FALSE /\ llmCalls' = 0 /\ responses' = 0 /\ heard' = 0
  /\ UNCHANGED <<kinds, effects, cuts, hand, next, batchVars, stepVars>>

\* A crash, an abort, a store that fails, a callback that throws while a
\* decision is carried out, a consumer that stops: the turn is over and what
\* was not stored is gone.
Cut ==
  /\ at # "idle"
  /\ at' = "idle" /\ next' = "model" /\ hand' = << >>
  /\ todo' = {} /\ done' = {} /\ asked' = {} /\ last' = "none" /\ hadTools' = FALSE
  /\ endInvocation' = FALSE /\ llmCalls' = 0 /\ responses' = 0 /\ heard' = 0
  /\ cuts' = cuts \cup {Now}
  /\ UNCHANGED <<log, kinds, effects>>

\* The runner stores the event; the agent goes on.
Store ==
  /\ at = "yield"
  /\ log' = IF \E i \in DOMAIN hand : hand[i].what \in {"answers", "gate"}
            THEN log \o hand ELSE log
  /\ hand' = << >> /\ at' = next /\ next' = "model"
  /\ UNCHANGED <<kinds, effects, cuts, batchVars, stepVars, runVars>>

\* The request processors, at the start of every step.
Confirm ==
  /\ at = "confirm"
  /\ todo' = Resumable
  /\ at' = IF Resumable = {} THEN "model" ELSE "resume"
  /\ last' = "none" /\ hadTools' = FALSE
  /\ UNCHANGED <<log, kinds, effects, cuts, hand, next, done, asked, runVars>>

\* An approved call does its work, a denied one reports the refusal; a tool
\* that throws answers with its error.
ResumeCall ==
  /\ at = "resume" /\ todo # {}
  /\ LET c == Min(todo)
     IN /\ effects' = [effects EXCEPT ![c] = @ + (IF c \in Decision.ok THEN 1 ELSE 0)]
        /\ done' = done \cup {c}
        /\ todo' = todo \ {c}
  /\ UNCHANGED <<log, kinds, cuts, at, hand, next, asked, stepVars, runVars>>

Resumed ==
  /\ at = "resume" /\ todo = {}
  /\ Yield(Ev("answers", done), "open", TRUE, "model")
  /\ done' = {}
  /\ UNCHANGED <<log, kinds, effects, cuts, todo, asked, runVars>>

\* callLlmAsync.  The limit is enforced by an error, which becomes an event.
CallModel ==
  /\ at = "model" /\ ~endInvocation /\ llmCalls < MaxLlmCalls
  /\ llmCalls' = llmCalls + 1 /\ responses' = 0 /\ heard' = Len(log)
  /\ at' = "stream"
  /\ UNCHANGED <<log, kinds, effects, cuts, hand, next, batchVars, stepVars, endInvocation>>
CallTooMany ==
  /\ at = "model" /\ ~endInvocation /\ llmCalls >= MaxLlmCalls
  /\ Yield(Ev("error", {}), "empty", FALSE, "stepEnd")
  /\ llmCalls' = llmCalls + 1
  /\ UNCHANGED <<log, kinds, effects, cuts, batchVars, endInvocation, responses, heard>>
Paused ==
  /\ at = "model" /\ endInvocation
  /\ at' = "stepEnd"
  /\ UNCHANGED <<log, kinds, effects, cuts, hand, next, batchVars, stepVars, runVars>>

Respond ==
  /\ at = "stream" /\ responses < MaxResponses
  /\ responses' = responses + 1
  /\ UNCHANGED <<log, effects, cuts, done, asked, endInvocation, llmCalls, heard>>

\* The model asks for one or two tools; a long-running one makes the event final.
ModelCalls ==
  /\ Respond
  /\ \E ks \in [1..1 -> Kinds] \cup [1..2 -> Kinds] :
       LET n == Len(kinds)
           ids == (n + 1)..(n + Len(ks))
       IN /\ n + Len(ks) <= MaxCalls
          /\ kinds' = kinds \o ks
          /\ todo' = ids
          /\ Yield(Ev("calls", ids), IF "long" \in Range(ks) THEN "final" ELSE "open",
                   TRUE, "batch")
ModelSays ==
  /\ Respond
  /\ Yield(Ev("said", {}), "final", FALSE, "stream")
  /\ UNCHANGED <<kinds, todo>>
\* A response with usage metadata and no content.
ModelReports ==
  /\ Respond
  /\ Yield(Ev("report", {}), "empty", FALSE, "stream")
  /\ UNCHANGED <<kinds, todo>>
\* A partial event is given to the consumer and never stored.
ModelStreamsText ==
  /\ Respond
  /\ last' = "partial"
  /\ UNCHANGED <<kinds, at, hand, next, todo, hadTools>>
ModelFails ==
  /\ at = "stream"
  /\ Yield(Ev("error", {}), "empty", FALSE, "stepEnd")
  /\ UNCHANGED <<log, kinds, effects, cuts, batchVars, runVars>>
StreamEnds ==
  /\ at = "stream"
  /\ at' = "stepEnd"
  /\ UNCHANGED <<log, kinds, effects, cuts, hand, next, batchVars, stepVars, runVars>>

\* handleFunctionCallList: one call after the other.
RunCall ==
  /\ at = "batch" /\ todo # {}
  /\ LET c == Min(todo)
         k == kinds[c]
     IN /\ effects' = [effects EXCEPT ![c] = @ + (IF k = "gated" THEN 0 ELSE 1)]
        /\ done' = IF k = "long" THEN done ELSE done \cup {c}
        /\ asked' = IF k = "gated" THEN asked \cup {c} ELSE asked
        /\ todo' = todo \ {c}
  /\ UNCHANGED <<log, kinds, cuts, at, hand, next, stepVars, runVars>>

\* A callback around a tool throws: the answers of the batch go with it.
BatchThrows ==
  /\ at = "batch" /\ todo # {}
  /\ Yield(Ev("error", {}), "empty", FALSE, "stepEnd")
  /\ todo' = {} /\ done' = {} /\ asked' = {}
  /\ UNCHANGED <<log, kinds, effects, cuts, runVars>>

Batched ==
  /\ at = "batch" /\ todo = {}
  /\ done' = {} /\ asked' = {}
  /\ UNCHANGED <<log, kinds, effects, cuts, todo, llmCalls, responses, heard>>

\* Every tool of the batch answers later.
BatchIsSilent ==
  /\ done = {} /\ Batched
  /\ at' = "stream"
  /\ UNCHANGED <<hand, next, stepVars, endInvocation>>
BatchAnswers ==
  /\ done # {} /\ asked = {} /\ Batched
  /\ Yield(Ev("answers", done),
           IF \E c \in done : kinds[c] = "quiet" THEN "final" ELSE "open", TRUE, "stream")
  /\ UNCHANGED endInvocation
\* The gate replaces the response event: the other answers are not stored.
\* Mutant of BatchAsks: the invocation is not ended.
BatchAsksAndGoesOn ==
  /\ asked # {} /\ Batched
  /\ Yield(Ev("gate", asked), "final", TRUE, "stream")
  /\ UNCHANGED endInvocation
BatchAsks ==
  /\ asked # {} /\ Batched
  /\ Yield(Ev("gate", asked), "final", TRUE, "stream")
  /\ endInvocation' = TRUE

\* The end of a step of runAsyncImpl.
\* Mutant of EndsTheTurn: a report counts as the final response.
EndsAtAnyFinal == last # "open"
EndsTheTurn ==
  \/ last \in {"none", "partial", "final"}
  \/ last = "empty" /\ ~hadTools
EndStep ==
  /\ at = "stepEnd"
  /\ at' = IF EndsTheTurn THEN "idle" ELSE "confirm"
  /\ responses' = 0
  /\ UNCHANGED <<log, kinds, effects, cuts, hand, next, batchVars, stepVars,
                 endInvocation, llmCalls, heard>>

Next ==
  \/ UserSends \/ Cut \/ Store \/ Confirm \/ ResumeCall \/ Resumed
  \/ CallModel \/ CallTooMany \/ Paused
  \/ ModelCalls \/ ModelSays \/ ModelReports \/ ModelStreamsText \/ ModelFails \/ StreamEnds
  \/ RunCall \/ BatchThrows \/ BatchIsSilent \/ BatchAnswers \/ BatchAsks
  \/ EndStep

Spec == Init /\ [][Next]_vars

---------------------------------------------------------------------------
(* Properties                                                              *)

\* A gated tool does its work only on a decision the latest message of the
\* user carries (by an approval of that gate, or by a "yes" that directly
\* follows it), and never again once its response is stored: whatever was cut
\* off or sent again in between.
Approves(m, c) ==
  \/ c \in m.ok
  \/ /\ m.what = "yes" /\ PlainText
     /\ GateOf(c) < LatestUser
     /\ ~ \E u \in UserEvents : GateOf(c) < u /\ u < LatestUser
ApprovalBinds ==
  [][\A c \in 1..MaxCalls :
       effects'[c] # effects[c] /\ kinds[c] = "gated"
         => /\ c \in Gates /\ Approves(log[LatestUser], c)
            /\ ~ \E i \in Is("answers") : c \in log[i].ids]_vars

\* A turn that asked for a confirmation does not go back to the model.
GateHoldsTheTurn ==
  [][llmCalls' > llmCalls => \A i \in Is("gate") : Turn(i) < Now]_vars

\* A turn that ran to its end carried out every decision its message brought.
DecisionsAreCarriedOut ==
  \A i \in Is("decide") :
    Turn(i) \notin cuts /\ (Turn(i) = Now => at = "idle")
      => \A c \in log[i].ids : Spent(c)

\* A turn that ran to its end did not leave the model ignorant of what its
\* tools answered, whatever usage report or error came last: unless the model
\* said something of its own after them (or began to), a tool asked for
\* silence or for a confirmation, or the limit of calls was reached.
ToolsAreHeard ==
  at = "idle" /\ log # << >> /\ Now \notin cuts
    => \A i \in Is("answers") :
         \/ Turn(i) < Now \/ i <= heard
         \/ last \in {"final", "partial"} \/ endInvocation \/ llmCalls > MaxLlmCalls

=============================================================================
