----------------------------- MODULE NodeRunner -----------------------------
(***************************************************************************)
(* One activation of a node, as node_runner.ts drives it: the attempts of  *)
(* runChildNode's retry loop, the deadline of runOnce, the backoff between *)
(* attempts, and the child context (output, state delta, interrupt ids)    *)
(* that all the attempts share.                                            *)
(*                                                                         *)
(* Whatever an attempt leaves behind is named by the attempt: `output' is  *)
(* the attempt whose value ctx.output holds (0: undefined), `delta' and    *)
(* `asked' the attempts that wrote state or raised an interrupt.           *)
(*                                                                         *)
(* When the deadline fires, or the external signal while a deadline is     *)
(* armed, the engine stops consuming the generator and asks it to return;  *)
(* the body itself goes on until its current step is over.  Such a body is *)
(* `abandoned'.  A fired signal and the rejection it causes are one step.  *)
(***************************************************************************)
EXTENDS Naturals, Sequences

CONSTANTS
  MaxAttempts,   \* retryConfig.maxAttempts; 1 without a retry configuration
  RetriesOn,     \* kinds of error the retry configuration matches
  HasSignal,     \* an external abort signal reaches the node
  Obedient,      \* bodies stop touching their context once they are abandoned
  MaxActs        \* bound: things a body does in one attempt

Attempt   == 1..MaxAttempts
ErrorKind == {"node", "timeout", "reported", "child", "aborted", "plugin"}
Act       == {"write", "output", "ask", "childAsks", "error", "emit"}

ASSUME NodeRunnerAssumption ==
  /\ MaxAttempts \in Nat \ {0}
  /\ RetriesOn \subseteq {"node", "timeout", "reported"}
  /\ HasSignal \in BOOLEAN /\ Obedient \in BOOLEAN
  /\ MaxActs \in Nat

VARIABLES
  hasTimeout,  \* the node declares a timeout (fixed for the activation)
  phase,     \* "before" the body, "attempt", "backoff", "completed", "failed"
  attempt,   \* nodeState.attemptCount
  body,      \* "idle", "live", "abandoned" or "ended", per attempt
  acts,      \* things each attempt's body did
  output,    \* child.output
  delta,     \* child.actions.stateDelta
  asked,     \* child.interruptIds
  reported,  \* child.reportedError
  recorded,  \* inputRecorded: an event carried the input for resume
  aborted,   \* the external signal
  sent,      \* events pushed to the channel
  fate       \* the error the activation rejected with

ctxVars  == <<output, delta, asked, reported, recorded>>
vars == <<hasTimeout, phase, attempt, body, acts, ctxVars, aborted, sent, fate>>

Plugin == MaxAttempts + 1   \* names an output a plugin supplied
Sent   == [by : Attempt, what : {"event", "ask", "checkpoint"}, delta : SUBSET Attempt]

TypeOK ==
  /\ hasTimeout \in BOOLEAN
  /\ phase \in {"before", "attempt", "backoff", "completed", "failed"}
  /\ attempt \in Attempt
  /\ body \in [Attempt -> {"idle", "live", "abandoned", "ended"}]
  /\ acts \in [Attempt -> 0..MaxActs]
  /\ output \in {0, Plugin} \cup Attempt
  /\ delta \subseteq Attempt /\ asked \subseteq Attempt
  /\ reported \in BOOLEAN /\ recorded \in BOOLEAN /\ aborted \in BOOLEAN
  /\ sent \in Seq(Sent)
  /\ fate \in {"none"} \cup ErrorKind

Push(k, what) == sent' = Append(sent, [by |-> k, what |-> what, delta |-> delta])

---------------------------------------------------------------------------
(* Before the first attempt                                                *)

\* runBeforeNodeCallback supplied an output: the body never runs.
SkipNode ==
  /\ phase = "before"
  /\ phase' = "completed"
  /\ output' = Plugin
  /\ UNCHANGED <<hasTimeout, attempt, body, acts, delta, asked, reported,
                 recorded, aborted, sent, fate>>

PluginThrows ==
  /\ phase = "before"
  /\ phase' = "failed"
  /\ fate' = "plugin"
  /\ UNCHANGED <<hasTimeout, attempt, body, acts, ctxVars, aborted, sent>>

\* Mutant of ResetState: the state the failed attempt wrote is kept.
ResetOutputOnly ==
  /\ output' = 0 /\ asked' = {} /\ reported' = FALSE /\ recorded' = FALSE
  /\ UNCHANGED delta

\* resetState, then node.run.  With a deadline armed and the signal already
\* fired the generator is started and given up at once.
ResetState ==
  /\ output' = 0 /\ delta' = {} /\ asked' = {} /\ reported' = FALSE
  /\ recorded' = FALSE
CutOff == hasTimeout /\ aborted
StartAttempt ==
  /\ phase \in {"before", "backoff"}
  /\ ResetState
  /\ body' = [body EXCEPT ![attempt] = IF CutOff THEN "abandoned" ELSE "live"]
  /\ phase' = IF CutOff THEN "failed" ELSE "attempt"
  /\ fate' = IF CutOff THEN "aborted" ELSE "none"
  /\ UNCHANGED <<hasTimeout, attempt, acts, aborted, sent>>

---------------------------------------------------------------------------
(* What a body does                                                        *)

CanAct(k) ==
  /\ acts[k] < MaxActs
  /\ \/ body[k] = "live" /\ phase = "attempt"
     \/ body[k] = "abandoned" /\ ~Obedient

\* Direct use of the context: ctx.state.set, ctx.output, ctx.emit, and the
\* ids DynamicNodeScheduler.schedule copies up from a child that asked.
TouchContext(k, what) ==
  /\ CanAct(k)
  /\ acts' = [acts EXCEPT ![k] = @ + 1]
  /\ delta' = IF what = "write" THEN delta \cup {k} ELSE delta
  /\ output' = IF what = "output" THEN k ELSE output
  /\ asked' = IF what = "childAsks" THEN asked \cup {k} ELSE asked
  /\ IF what = "emit" THEN Push(k, "event") ELSE UNCHANGED sent
  /\ UNCHANGED <<hasTimeout, phase, attempt, body, reported, recorded, aborted, fate>>

\* consume: an event the live body yields updates the context and is pushed
\* with the state written so far.
Yield(k, what) ==
  /\ CanAct(k) /\ body[k] = "live"
  /\ acts' = [acts EXCEPT ![k] = @ + 1]
  /\ output' = IF what = "output" THEN k ELSE output
  /\ asked' = IF what = "ask" THEN asked \cup {k} ELSE asked
  /\ recorded' = (recorded \/ what = "ask")
  /\ reported' = (reported \/ what = "error")
  /\ Push(k, IF what = "ask" THEN "ask" ELSE "event")
  /\ UNCHANGED <<hasTimeout, phase, attempt, body, delta, aborted, fate>>

\* An abandoned generator reaches its next yield, where it returns.
AbandonedStops(k) ==
  /\ body[k] = "abandoned"
  /\ body' = [body EXCEPT ![k] = "ended"]
  /\ UNCHANGED <<hasTimeout, phase, attempt, acts, ctxVars, aborted, sent, fate>>

---------------------------------------------------------------------------
(* How an attempt ends                                                     *)

ShouldRetry(err) == attempt < MaxAttempts /\ err \in RetriesOn

\* Mutant of FailAttempt: the signal is not looked at before the backoff.
FailAttemptBlindly(err) ==
  \/ /\ ~ShouldRetry(err)
     /\ phase' = "failed" /\ fate' = err
     /\ UNCHANGED attempt
  \/ /\ ShouldRetry(err)
     /\ attempt' = attempt + 1
     /\ phase' = "backoff"
     /\ UNCHANGED fate

\* The catch of the retry loop: cancellations and a child's own failure are
\* terminal; otherwise retry after a delay, unless the signal already fired.
FailAttempt(err) ==
  \/ /\ ~ShouldRetry(err)
     /\ phase' = "failed" /\ fate' = err
     /\ UNCHANGED attempt
  \/ /\ ShouldRetry(err)
     /\ attempt' = attempt + 1
     /\ IF aborted THEN phase' = "failed" /\ fate' = "aborted"
                   ELSE phase' = "backoff" /\ UNCHANGED fate

\* failIfNodeReportedError: reported an error and produced nothing (a route
\* would count too; the nodes here emit none).
OnlyReportedAnError == reported /\ output = 0 /\ asked = {}

\* Mutant of Complete: no checkpoint for a node that waits on its children.
CompleteUnrecorded(inputRecorded) ==
  /\ UNCHANGED sent
  /\ \/ phase' = "completed" /\ output' \in {output, Plugin} /\ UNCHANGED fate
     \/ phase' = "failed" /\ fate' = "plugin" /\ UNCHANGED output
  /\ UNCHANGED attempt

\* The attempt succeeded.  A node that waits without an interrupt event of
\* its own leaves a checkpoint; the after-node plugin may replace the output
\* or throw.
Complete(inputRecorded) ==
  /\ IF asked # {} /\ ~inputRecorded
     THEN Push(attempt, "checkpoint") ELSE UNCHANGED sent
  /\ \/ phase' = "completed" /\ output' \in {output, Plugin} /\ UNCHANGED fate
     \/ phase' = "failed" /\ fate' = "plugin" /\ UNCHANGED output
  /\ UNCHANGED attempt

BodyReturns ==
  /\ phase = "attempt" /\ body[attempt] = "live"
  /\ body' = [body EXCEPT ![attempt] = "ended"]
  /\ IF OnlyReportedAnError THEN FailAttempt("reported") /\ UNCHANGED <<sent, output>>
                            ELSE Complete(recorded)
  /\ UNCHANGED <<hasTimeout, acts, delta, asked, reported, recorded, aborted>>

\* A dynamic child asked the user and unwound the body: the node waits.  The
\* throw skipped the assignment of inputRecorded.
BodyInterrupted ==
  /\ phase = "attempt" /\ body[attempt] = "live"
  /\ asked # {}
  /\ body' = [body EXCEPT ![attempt] = "ended"]
  /\ Complete(FALSE)
  /\ UNCHANGED <<hasTimeout, acts, delta, asked, reported, recorded, aborted>>

\* The body throws: an error of its own, that of a child it ran, or, once the
\* signal fired, a cancellation.
BodyThrows(err) ==
  /\ phase = "attempt" /\ body[attempt] = "live"
  /\ err = "aborted" => aborted
  /\ body' = [body EXCEPT ![attempt] = "ended"]
  /\ FailAttempt(err)
  /\ UNCHANGED <<hasTimeout, acts, ctxVars, aborted, sent>>

\* Mutant of Deadline: the timer is armed for the first attempt only.
DeadlineOnce ==
  /\ hasTimeout /\ attempt = 1
  /\ phase = "attempt" /\ body[attempt] = "live"
  /\ body' = [body EXCEPT ![attempt] = "abandoned"]
  /\ FailAttempt("timeout")
  /\ UNCHANGED <<hasTimeout, acts, ctxVars, aborted, sent>>
Deadline ==
  /\ hasTimeout
  /\ phase = "attempt" /\ body[attempt] = "live"
  /\ body' = [body EXCEPT ![attempt] = "abandoned"]
  /\ FailAttempt("timeout")
  /\ UNCHANGED <<hasTimeout, acts, ctxVars, aborted, sent>>

---------------------------------------------------------------------------
(* The external signal                                                     *)

\* It rejects the deadline race and the backoff delay; without a deadline
\* the body merely observes it.
Abort ==
  /\ HasSignal /\ ~aborted
  /\ phase \in {"before", "attempt", "backoff"}
  /\ aborted' = TRUE
  /\ IF phase = "backoff" \/ (phase = "attempt" /\ hasTimeout)
     THEN /\ phase' = "failed" /\ fate' = "aborted"
          /\ body' = IF phase = "attempt"
                     THEN [body EXCEPT ![attempt] = "abandoned"] ELSE body
     ELSE UNCHANGED <<phase, fate, body>>
  /\ UNCHANGED <<hasTimeout, attempt, acts, ctxVars, sent>>

---------------------------------------------------------------------------
Init ==
  /\ hasTimeout \in BOOLEAN
  /\ phase = "before" /\ attempt = 1
  /\ body = [k \in Attempt |-> "idle"]
  /\ acts = [k \in Attempt |-> 0]
  /\ output = 0 /\ delta = {} /\ asked = {} /\ reported = FALSE
  /\ recorded = FALSE /\ aborted = FALSE
  /\ sent = << >> /\ fate = "none"

Engine == SkipNode \/ PluginThrows \/ StartAttempt \/ Deadline
Body ==
  \/ \E k \in Attempt :
       \/ \E what \in {"write", "output", "childAsks", "emit"} : TouchContext(k, what)
       \/ \E what \in {"event", "output", "ask", "error"} : Yield(k, what)
       \/ AbandonedStops(k)
  \/ BodyReturns
  \/ BodyInterrupted
  \/ \E err \in {"node", "child", "aborted"} : BodyThrows(err)

Settled == phase \in {"completed", "failed"}
Done == Settled /\ (\A k \in Attempt : body[k] # "abandoned") /\ UNCHANGED vars
Next == Engine \/ Body \/ Abort \/ Done

\* The engine's timers fire and its continuations run; of the body nothing
\* is assumed, not even that it ever yields or returns.
Spec == Init /\ [][Next]_vars /\ WF_vars(Engine)

---------------------------------------------------------------------------
(* Properties                                                              *)

\* A failed or timed-out attempt leaves nothing behind: what a completed
\* activation reports, and the state its events carry, is the work of the
\* attempt that succeeded (resetState).
OnlyThisAttemptCounts ==
  /\ \A i \in DOMAIN sent : sent[i].delta \subseteq {sent[i].by}
  /\ phase = "completed" =>
       /\ output \in {0, attempt, Plugin}
       /\ delta \subseteq {attempt}
       /\ asked \subseteq {attempt}

\* Cancellation is terminal: once the signal fired no further attempt starts,
\* whether it fires while a body runs, as it fails, or during the backoff.
NoRetryAfterAbort ==
  [][\A k \in Attempt \ {1} : body[k] = "idle" /\ body'[k] # "idle" => ~aborted]_vars

\* A node that waits for the user left an event with its input in the session,
\* so the next turn can resume it (runOnce, recordInputForResume).
WaitingIsResumable ==
  phase = "completed" /\ asked # {} =>
    \E i \in DOMAIN sent : sent[i].by = attempt /\ sent[i].what \in {"ask", "checkpoint"}

\* A node that reported an error and produced nothing does not count as done.
NoSilentSuccess ==
  phase = "completed" => ~(reported /\ output = 0 /\ asked = {})

\* With a deadline the activation settles even if its body hangs for ever.
Settles == hasTimeout => <>Settled
=============================================================================
