-------------------------- MODULE NodeRunnerProofs --------------------------
(***************************************************************************)
(* Proofs about NodeRunner, for every number of attempts, every retry      *)
(* policy and every bound on what a body does.                             *)
(***************************************************************************)
EXTENDS NodeRunner, TLAPS

\* Only the current attempt's body can be live; later ones have not started.
BodiesInOrder ==
  /\ \A k \in Attempt : k > attempt => body[k] = "idle"
  /\ \A k \in Attempt : body[k] = "live" => k = attempt
  /\ phase \in {"before", "backoff"} => body[attempt] = "idle"
  /\ phase = "before" => attempt = 1

\* A backoff is only ever waited out with the signal unfired.
BackoffIsNotAborted == phase = "backoff" => ~aborted

\* While an attempt runs, the context records an interrupt event only if one
\* was pushed.
RecordedIsSent ==
  phase = "attempt" /\ recorded =>
    \E i \in DOMAIN sent : sent[i].by = attempt /\ sent[i].what \in {"ask", "checkpoint"}

---------------------------------------------------------------------------
(* Pushing events                                                          *)

\* Pushing keeps the channel well typed.
LEMMA PushTyped ==
  ASSUME TypeOK, NEW k \in Attempt, NEW what \in {"event", "ask", "checkpoint"},
         Push(k, what)
  PROVE  sent' \in Seq(Sent)
BY DEF TypeOK, Push, Sent

\* What was in the channel stays there, and the pushed event is last.
LEMMA PushAppends ==
  ASSUME TypeOK, NEW k \in Attempt, NEW what, Push(k, what)
  PROVE  /\ DOMAIN sent' = 1..(Len(sent) + 1)
         /\ \A i \in DOMAIN sent : i \in DOMAIN sent' /\ sent'[i] = sent[i]
         /\ Len(sent) + 1 \in DOMAIN sent'
         /\ sent'[Len(sent) + 1] = [by |-> k, what |-> what, delta |-> delta]
BY DEF TypeOK, Push

---------------------------------------------------------------------------
(* Type correctness and the invariant                                      *)

\* The attempt counter stays an attempt when the activation is retried.
LEMMA FailAttemptFacts ==
  ASSUME TypeOK, NEW err \in ErrorKind, FailAttempt(err)
  PROVE  /\ attempt' \in Attempt
         /\ phase' \in {"failed", "backoff"}
         /\ fate' \in {"none"} \cup ErrorKind
         /\ attempt' = attempt \/ attempt' = attempt + 1
         /\ phase' = "backoff" => attempt' = attempt + 1 /\ ~aborted
<1> USE NodeRunnerAssumption DEF TypeOK, Attempt, ErrorKind
<1>1. CASE ~ShouldRetry(err)
  BY <1>1 DEF FailAttempt
<1>2. CASE ShouldRetry(err)
  BY <1>2 DEF FailAttempt, ShouldRetry
<1> QED BY <1>1, <1>2

\* A successful attempt completes, or fails in the after-node plugin.
LEMMA CompleteFacts ==
  ASSUME TypeOK, NEW r \in BOOLEAN, Complete(r)
  PROVE  /\ sent' \in Seq(Sent)
         /\ phase' \in {"completed", "failed"}
         /\ fate' \in {"none"} \cup ErrorKind
         /\ output' \in {output, Plugin}
         /\ attempt' = attempt
<1>1. sent' \in Seq(Sent)
  <2>1. CASE asked # {} /\ ~r
    BY <2>1, PushTyped DEF Complete, TypeOK
  <2>2. CASE ~(asked # {} /\ ~r)
    BY <2>2 DEF Complete, TypeOK
  <2> QED BY <2>1, <2>2
<1> QED BY <1>1 DEF Complete, TypeOK, ErrorKind

\* Every step keeps the variables in their types.
LEMMA TypeStep == TypeOK /\ [Next]_vars => TypeOK'
<1> SUFFICES ASSUME TypeOK, [Next]_vars PROVE TypeOK'
  OBVIOUS
<1> USE NodeRunnerAssumption
<1>1. CASE SkipNode
  BY <1>1 DEF SkipNode, TypeOK, ErrorKind
<1>2. CASE PluginThrows
  BY <1>2 DEF PluginThrows, TypeOK, ErrorKind, ctxVars
<1>3. CASE StartAttempt
  BY <1>3 DEF StartAttempt, ResetState, TypeOK, ErrorKind
<1>4. CASE Deadline
  <2>1. FailAttempt("timeout") /\ "timeout" \in ErrorKind
    BY <1>4 DEF Deadline, ErrorKind
  <2> QED BY <1>4, <2>1, FailAttemptFacts DEF Deadline, TypeOK, ctxVars
<1>5. ASSUME NEW k \in Attempt, NEW what \in {"write", "output", "childAsks", "emit"},
             TouchContext(k, what)
      PROVE  TypeOK'
  <2>1. acts' \in [Attempt -> 0..MaxActs]
    BY <1>5 DEF TouchContext, CanAct, TypeOK
  <2>2. sent' \in Seq(Sent)
    <3>1. CASE what = "emit"
      <4>1. Push(k, "event")
        BY <1>5, <3>1 DEF TouchContext
      <4> QED BY <4>1, PushTyped
    <3>2. CASE what # "emit"
      BY <1>5, <3>2 DEF TouchContext, TypeOK
    <3> QED BY <3>1, <3>2
  <2>3. /\ output' \in {0, Plugin} \cup Attempt
        /\ delta' \subseteq Attempt /\ asked' \subseteq Attempt
    BY <1>5 DEF TouchContext, TypeOK
  <2> QED BY <1>5, <2>1, <2>2, <2>3 DEF TouchContext, TypeOK
<1>6. ASSUME NEW k \in Attempt, NEW what \in {"event", "output", "ask", "error"},
             Yield(k, what)
      PROVE  TypeOK'
  <2>1. acts' \in [Attempt -> 0..MaxActs]
    BY <1>6 DEF Yield, CanAct, TypeOK
  <2>2. sent' \in Seq(Sent)
    <3>1. PICK w \in {"event", "ask"} : Push(k, w)
      BY <1>6 DEF Yield
    <3> QED BY <3>1, PushTyped
  <2> QED BY <1>6, <2>1, <2>2 DEF Yield, TypeOK
<1>7. ASSUME NEW k \in Attempt, AbandonedStops(k) PROVE TypeOK'
  BY <1>7 DEF AbandonedStops, TypeOK, ctxVars
<1>8. CASE BodyReturns
  <2>1. CASE OnlyReportedAnError
    <3>1. FailAttempt("reported") /\ "reported" \in ErrorKind
      BY <1>8, <2>1 DEF BodyReturns, ErrorKind
    <3> QED BY <1>8, <2>1, <3>1, FailAttemptFacts DEF BodyReturns, TypeOK
  <2>2. CASE ~OnlyReportedAnError
    <3>1. Complete(recorded) /\ recorded \in BOOLEAN
      BY <1>8, <2>2 DEF BodyReturns, TypeOK
    <3> QED BY <1>8, <3>1, CompleteFacts DEF BodyReturns, TypeOK
  <2> QED BY <2>1, <2>2
<1>9. CASE BodyInterrupted
  <2>1. Complete(FALSE)
    BY <1>9 DEF BodyInterrupted
  <2> QED BY <1>9, <2>1, CompleteFacts DEF BodyInterrupted, TypeOK
<1>10. ASSUME NEW err \in {"node", "child", "aborted"}, BodyThrows(err) PROVE TypeOK'
  <2>1. FailAttempt(err) /\ err \in ErrorKind
    BY <1>10 DEF BodyThrows, ErrorKind
  <2> QED BY <1>10, <2>1, FailAttemptFacts DEF BodyThrows, TypeOK, ctxVars
<1>11. CASE Abort
  BY <1>11 DEF Abort, TypeOK, ctxVars, ErrorKind
<1>12. CASE UNCHANGED vars
  BY <1>12 DEF vars, ctxVars, TypeOK
<1> QED
  BY <1>1, <1>2, <1>3, <1>4, <1>5, <1>6, <1>7, <1>8, <1>9, <1>10, <1>11, <1>12
  DEF Next, Engine, Body, Done

\* The initial state is well typed.
LEMMA TypeInit == Init => TypeOK
<1> SUFFICES ASSUME Init PROVE TypeOK
  OBVIOUS
<1>1. 1 \in Attempt /\ 0 \in 0..MaxActs
  BY NodeRunnerAssumption DEF Attempt
<1>2. sent \in Seq(Sent)
  BY DEF Init
<1> QED BY <1>1, <1>2 DEF Init, TypeOK

\* The variables keep their types (the constants and bounds are arbitrary).
THEOREM TypeCorrect == Spec => []TypeOK
BY TypeInit, TypeStep, PTL DEF Spec
---------------------------------------------------------------------------
(* The safety properties                                                   *)

\* The conjuncts of Next, for proofs by cases that cite one name.
LEMMA NextCases ==
  ASSUME Next
  PROVE  \/ SkipNode \/ PluginThrows \/ StartAttempt \/ Deadline
         \/ \E k \in Attempt :
              \/ \E what \in {"write", "output", "childAsks", "emit"} : TouchContext(k, what)
              \/ \E what \in {"event", "output", "ask", "error"} : Yield(k, what)
              \/ AbandonedStops(k)
         \/ BodyReturns \/ BodyInterrupted
         \/ \E err \in {"node", "child", "aborted"} : BodyThrows(err)
         \/ Abort
         \/ UNCHANGED vars
BY DEF Next, Engine, Body, Done

\* An attempt that ends leaves its successors idle.
LEMMA AttemptEnds ==
  ASSUME TypeOK, BodiesInOrder, phase = "attempt", body[attempt] = "live",
         NEW b \in {"ended", "abandoned"}, body' = [body EXCEPT ![attempt] = b],
         attempt' \in Attempt, attempt' \in {attempt, attempt + 1},
         phase' \in {"failed", "completed", "backoff"},
         phase' = "backoff" => attempt' = attempt + 1
  PROVE  BodiesInOrder'
<1> USE NodeRunnerAssumption DEF TypeOK, Attempt
<1>1. \A k \in Attempt : body'[k] = IF k = attempt THEN b ELSE body[k]
  OBVIOUS
<1>2. \A k \in Attempt : k > attempt' => body'[k] = "idle"
  BY <1>1 DEF BodiesInOrder
<1>3. \A k \in Attempt : body'[k] # "live"
  BY <1>1 DEF BodiesInOrder
<1>4. phase' = "backoff" => body'[attempt'] = "idle"
  BY <1>1 DEF BodiesInOrder
<1> QED BY <1>2, <1>3, <1>4 DEF BodiesInOrder

\* Bodies start one at a time and in order.
LEMMA BodiesStep == TypeOK /\ BodiesInOrder /\ [Next]_vars => BodiesInOrder'
<1> SUFFICES ASSUME TypeOK, BodiesInOrder, [Next]_vars PROVE BodiesInOrder'
  OBVIOUS
<1>1. CASE SkipNode
  BY <1>1 DEF SkipNode, BodiesInOrder
<1>2. CASE PluginThrows
  BY <1>2 DEF PluginThrows, BodiesInOrder
<1>3. CASE StartAttempt
  BY <1>3, NodeRunnerAssumption DEF StartAttempt, BodiesInOrder, TypeOK, Attempt
<1>4. CASE Deadline
  <2>1. FailAttempt("timeout") /\ "timeout" \in ErrorKind
    BY <1>4 DEF Deadline, ErrorKind
  <2> QED BY <1>4, <2>1, FailAttemptFacts, AttemptEnds DEF Deadline
<1>5. ASSUME NEW k \in Attempt, NEW what \in {"write", "output", "childAsks", "emit"},
             TouchContext(k, what)
      PROVE  BodiesInOrder'
  BY <1>5 DEF TouchContext, BodiesInOrder
<1>6. ASSUME NEW k \in Attempt, NEW what \in {"event", "output", "ask", "error"},
             Yield(k, what)
      PROVE  BodiesInOrder'
  BY <1>6 DEF Yield, BodiesInOrder
<1>7. ASSUME NEW k \in Attempt, AbandonedStops(k) PROVE BodiesInOrder'
  BY <1>7, NodeRunnerAssumption DEF AbandonedStops, BodiesInOrder, TypeOK, Attempt
<1>8. CASE BodyReturns
  <2>1. CASE OnlyReportedAnError
    <3>1. FailAttempt("reported") /\ "reported" \in ErrorKind
      BY <1>8, <2>1 DEF BodyReturns, ErrorKind
    <3> QED BY <1>8, <2>1, <3>1, FailAttemptFacts, AttemptEnds DEF BodyReturns
  <2>2. CASE ~OnlyReportedAnError
    <3>1. Complete(recorded) /\ recorded \in BOOLEAN
      BY <1>8, <2>2 DEF BodyReturns, TypeOK
    <3> QED BY <1>8, <3>1, CompleteFacts, AttemptEnds DEF BodyReturns, TypeOK
  <2> QED BY <2>1, <2>2
<1>9. CASE BodyInterrupted
  <2>1. Complete(FALSE)
    BY <1>9 DEF BodyInterrupted
  <2> QED BY <1>9, <2>1, CompleteFacts, AttemptEnds DEF BodyInterrupted, TypeOK
<1>10. ASSUME NEW err \in {"node", "child", "aborted"}, BodyThrows(err)
       PROVE  BodiesInOrder'
  <2>1. FailAttempt(err) /\ err \in ErrorKind
    BY <1>10 DEF BodyThrows, ErrorKind
  <2> QED BY <1>10, <2>1, FailAttemptFacts, AttemptEnds DEF BodyThrows
<1>11. CASE Abort
  BY <1>11, NodeRunnerAssumption DEF Abort, BodiesInOrder, TypeOK, Attempt
<1>12. CASE UNCHANGED vars
  BY <1>12 DEF vars, BodiesInOrder
<1> QED
  BY <1>1, <1>2, <1>3, <1>4, <1>5, <1>6, <1>7, <1>8, <1>9, <1>10, <1>11, <1>12, NextCases

\* A retry is only armed while the signal is unfired, and the signal ends it.
LEMMA BackoffStep ==
  TypeOK /\ BackoffIsNotAborted /\ [Next]_vars => BackoffIsNotAborted'
<1> SUFFICES ASSUME TypeOK, BackoffIsNotAborted, [Next]_vars PROVE BackoffIsNotAborted'
  OBVIOUS
<1> USE DEF BackoffIsNotAborted
<1>1. CASE SkipNode \/ PluginThrows \/ StartAttempt
  BY <1>1 DEF SkipNode, PluginThrows, StartAttempt
<1>2. CASE Deadline
  <2>1. FailAttempt("timeout") /\ "timeout" \in ErrorKind
    BY <1>2 DEF Deadline, ErrorKind
  <2> QED BY <1>2, <2>1, FailAttemptFacts DEF Deadline
<1>3. CASE \E k \in Attempt :
             \/ \E what \in {"write", "output", "childAsks", "emit"} : TouchContext(k, what)
             \/ \E what \in {"event", "output", "ask", "error"} : Yield(k, what)
             \/ AbandonedStops(k)
  BY <1>3 DEF TouchContext, Yield, AbandonedStops
<1>4. CASE BodyReturns
  <2>1. CASE OnlyReportedAnError
    <3>1. FailAttempt("reported") /\ "reported" \in ErrorKind
      BY <1>4, <2>1 DEF BodyReturns, ErrorKind
    <3> QED BY <1>4, <3>1, FailAttemptFacts DEF BodyReturns
  <2>2. CASE ~OnlyReportedAnError
    <3>1. Complete(recorded) /\ recorded \in BOOLEAN
      BY <1>4, <2>2 DEF BodyReturns, TypeOK
    <3> QED BY <3>1, CompleteFacts
  <2> QED BY <2>1, <2>2
<1>5. CASE BodyInterrupted
  <2>1. Complete(FALSE)
    BY <1>5 DEF BodyInterrupted
  <2> QED BY <2>1, CompleteFacts
<1>6. ASSUME NEW err \in {"node", "child", "aborted"}, BodyThrows(err)
      PROVE  BackoffIsNotAborted'
  <2>1. FailAttempt(err) /\ err \in ErrorKind
    BY <1>6 DEF BodyThrows, ErrorKind
  <2> QED BY <1>6, <2>1, FailAttemptFacts DEF BodyThrows
<1>7. CASE Abort
  BY <1>7 DEF Abort
<1>8. CASE UNCHANGED vars
  BY <1>8 DEF vars
<1> QED
  BY <1>1, <1>2, <1>3, <1>4, <1>5, <1>6, <1>7, <1>8, NextCases

\* Initially no body has started and no backoff is pending.
LEMMA FreshBodies == Init => BodiesInOrder /\ BackoffIsNotAborted
<1> SUFFICES ASSUME Init PROVE BodiesInOrder /\ BackoffIsNotAborted
  OBVIOUS
<1>1. 1 \in Attempt
  BY NodeRunnerAssumption DEF Attempt
<1>2. \A k \in Attempt : body[k] = "idle"
  BY DEF Init
<1> QED BY <1>1, <1>2 DEF Init, BodiesInOrder, BackoffIsNotAborted

\* Cancellation is terminal: no attempt but the first starts once the signal
\* fired (runChildNode's retry loop, delay).
THEOREM CancellationIsTerminal == Spec => NoRetryAfterAbort
<1> DEFINE J == TypeOK /\ BodiesInOrder /\ BackoffIsNotAborted
<1> DEFINE A == \A k \in Attempt \ {1} : body[k] = "idle" /\ body'[k] # "idle" => ~aborted
<1>1. Init => J
  BY TypeInit, FreshBodies
<1>2. J /\ [Next]_vars => J'
  BY TypeStep, BodiesStep, BackoffStep
<1>3. J /\ [Next]_vars => [A]_vars
  <2> SUFFICES ASSUME J, Next,
                      NEW k \in Attempt \ {1}, body[k] = "idle", body'[k] # "idle"
               PROVE  ~aborted
    BY DEF A
  <2> USE DEF BodiesInOrder, BackoffIsNotAborted, TypeOK
  <2>1. CASE StartAttempt
    <3>1. k = attempt
      BY <2>1 DEF StartAttempt
    <3>2. phase = "backoff"
      BY <2>1, <3>1 DEF StartAttempt
    <3> QED BY <3>2
  <2>2. CASE SkipNode \/ PluginThrows \/ Deadline \/ BodyReturns \/ BodyInterrupted \/ Abort
    BY <2>2 DEF SkipNode, PluginThrows, Deadline, BodyReturns, BodyInterrupted, Abort
  <2>3. CASE \E l \in Attempt :
              \/ \E what \in {"write", "output", "childAsks", "emit"} : TouchContext(l, what)
              \/ \E what \in {"event", "output", "ask", "error"} : Yield(l, what)
              \/ AbandonedStops(l)
    BY <2>3 DEF TouchContext, Yield, AbandonedStops
  <2>4. CASE \E err \in {"node", "child", "aborted"} : BodyThrows(err)
    BY <2>4 DEF BodyThrows
  <2>5. CASE UNCHANGED vars
    BY <2>5 DEF vars
  <2> QED BY <2>1, <2>2, <2>3, <2>4, <2>5, NextCases
<1> QED BY <1>1, <1>2, <1>3, PTL DEF Spec, NoRetryAfterAbort, J, A
\* A context that recorded its input pushed the event that carries it, and a
\* completed activation that waits left one too.
WaitingInv ==
  /\ phase = "before" => asked = {}
  /\ RecordedIsSent
  /\ WaitingIsResumable

\* Pushing an event loses none of those already sent.
LEMMA PushKeeps ==
  ASSUME TypeOK, NEW k \in Attempt, NEW what, Push(k, what) \/ UNCHANGED sent,
         \E i \in DOMAIN sent :
            sent[i].by = attempt /\ sent[i].what \in {"ask", "checkpoint"}
  PROVE  \E i \in DOMAIN sent' :
            sent'[i].by = attempt /\ sent'[i].what \in {"ask", "checkpoint"}
<1>1. CASE Push(k, what)
  BY <1>1, PushAppends
<1>2. CASE UNCHANGED sent
  BY <1>2
<1> QED BY <1>1, <1>2

\* An activation that completes while waiting has its input in the session.
LEMMA CompletionIsResumable ==
  ASSUME TypeOK, BodiesInOrder, RecordedIsSent, phase = "attempt",
         NEW r \in BOOLEAN, r => recorded, Complete(r),
         UNCHANGED <<asked, recorded>>
  PROVE  WaitingInv'
<1>1. attempt' = attempt /\ phase' \in {"completed", "failed"}
  BY CompleteFacts
<1>2. attempt \in Attempt
  BY DEF TypeOK
<1>3. CASE asked # {} /\ ~r
  <2>1. Push(attempt, "checkpoint")
    BY <1>3 DEF Complete
  <2>2. sent' = Append(sent, [by |-> attempt, what |-> "checkpoint", delta |-> delta])
    BY <2>1 DEF Push
  <2>3. /\ Len(sent) + 1 \in DOMAIN sent'
        /\ sent'[Len(sent) + 1].by = attempt
        /\ sent'[Len(sent) + 1].what = "checkpoint"
    BY <2>2 DEF TypeOK
  <2> QED BY <1>1, <2>3 DEF WaitingInv, RecordedIsSent, WaitingIsResumable
<1>4. CASE asked # {} /\ r
  BY <1>1, <1>4 DEF Complete, WaitingInv, RecordedIsSent, WaitingIsResumable
<1>5. CASE asked = {}
  BY <1>1, <1>5 DEF WaitingInv, RecordedIsSent, WaitingIsResumable
<1> QED BY <1>3, <1>4, <1>5

\* Every step keeps what is needed to resume a waiting activation.
LEMMA WaitingStep ==
  Obedient /\ TypeOK /\ BodiesInOrder /\ WaitingInv /\ [Next]_vars => WaitingInv'
<1> SUFFICES ASSUME Obedient, TypeOK, BodiesInOrder, WaitingInv, [Next]_vars
             PROVE  WaitingInv'
  OBVIOUS
<1> USE DEF WaitingInv, RecordedIsSent, WaitingIsResumable
<1>1. CASE SkipNode
  BY <1>1 DEF SkipNode
<1>2. CASE PluginThrows
  BY <1>2 DEF PluginThrows
<1>3. CASE StartAttempt
  BY <1>3 DEF StartAttempt, ResetState
<1>4. CASE Deadline
  <2>1. FailAttempt("timeout") /\ "timeout" \in ErrorKind
    BY <1>4 DEF Deadline, ErrorKind
  <2> QED BY <1>4, <2>1, FailAttemptFacts DEF Deadline
<1>5. ASSUME NEW k \in Attempt, NEW what \in {"write", "output", "childAsks", "emit"},
             TouchContext(k, what)
      PROVE  WaitingInv'
  <2>1. phase = "attempt" /\ UNCHANGED <<attempt, phase, recorded>>
    BY <1>5 DEF TouchContext, CanAct, BodiesInOrder
  <2>2. Push(k, "event") \/ UNCHANGED sent
    BY <1>5 DEF TouchContext
  <2> QED BY <2>1, <2>2, PushKeeps
<1>6. ASSUME NEW k \in Attempt, NEW what \in {"event", "output", "ask", "error"},
             Yield(k, what)
      PROVE  WaitingInv'
  <2>1. k = attempt /\ phase = "attempt" /\ UNCHANGED <<attempt, phase>>
    BY <1>6 DEF Yield, CanAct, BodiesInOrder
  <2>2. CASE what = "ask"
    <3>1. Push(k, "ask")
      BY <1>6, <2>2 DEF Yield
    <3>2. /\ Len(sent) + 1 \in DOMAIN sent'
          /\ sent'[Len(sent) + 1].by = attempt
          /\ sent'[Len(sent) + 1].what = "ask"
      BY <2>1, <3>1 DEF Push, TypeOK
    <3> QED BY <2>1, <3>2
  <2>3. CASE what # "ask"
    <3>1. Push(k, "event") /\ recorded' = recorded
      BY <1>6, <2>3 DEF Yield, TypeOK
    <3> QED BY <2>1, <3>1, PushKeeps
  <2> QED BY <2>2, <2>3
<1>7. ASSUME NEW k \in Attempt, AbandonedStops(k) PROVE WaitingInv'
  BY <1>7 DEF AbandonedStops, ctxVars
<1>8. CASE BodyReturns
  <2>1. CASE OnlyReportedAnError
    <3>1. FailAttempt("reported") /\ "reported" \in ErrorKind
      BY <1>8, <2>1 DEF BodyReturns, ErrorKind
    <3> QED BY <1>8, <3>1, FailAttemptFacts DEF BodyReturns
  <2>2. CASE ~OnlyReportedAnError
    <3>1. Complete(recorded) /\ recorded \in BOOLEAN
      BY <1>8, <2>2 DEF BodyReturns, TypeOK
    <3> QED BY <1>8, <3>1, CompletionIsResumable DEF BodyReturns
  <2> QED BY <2>1, <2>2
<1>9. CASE BodyInterrupted
  <2>1. Complete(FALSE)
    BY <1>9 DEF BodyInterrupted
  <2> QED BY <1>9, <2>1, CompletionIsResumable DEF BodyInterrupted
<1>10. ASSUME NEW err \in {"node", "child", "aborted"}, BodyThrows(err)
       PROVE  WaitingInv'
  <2>1. FailAttempt(err) /\ err \in ErrorKind
    BY <1>10 DEF BodyThrows, ErrorKind
  <2> QED BY <1>10, <2>1, FailAttemptFacts DEF BodyThrows
<1>11. CASE Abort
  BY <1>11 DEF Abort, ctxVars
<1>12. CASE UNCHANGED vars
  BY <1>12 DEF vars, ctxVars
<1> QED
  BY <1>1, <1>2, <1>3, <1>4, <1>5, <1>6, <1>7, <1>8, <1>9, <1>10, <1>11, <1>12, NextCases

\* A node that ends waiting for the user can be resumed: one of its own events
\* carries the input it ran with (runOnce, recordInputForResume).
\* Stated for bodies that stop using their context once they are abandoned.
THEOREM WaitingNodesAreResumable ==
  ASSUME Obedient PROVE Spec => []WaitingIsResumable
<1>1. Init => TypeOK /\ BodiesInOrder /\ WaitingInv
  BY TypeInit, FreshBodies DEF Init, WaitingInv, RecordedIsSent, WaitingIsResumable
<1>2. TypeOK /\ BodiesInOrder /\ WaitingInv /\ [Next]_vars
        => (TypeOK /\ BodiesInOrder /\ WaitingInv)'
  BY TypeStep, BodiesStep, WaitingStep
<1>3. WaitingInv => WaitingIsResumable
  BY DEF WaitingInv
<1> QED BY <1>1, <1>2, <1>3, PTL DEF Spec
---------------------------------------------------------------------------
(* What a completed activation stands for                                  *)

\* The steps that end an attempt, and what they leave of its context.
LEMMA AttemptOver ==
  ASSUME TypeOK,
         BodyReturns \/ BodyInterrupted \/ Deadline
           \/ \E err \in {"node", "child", "aborted"} : BodyThrows(err)
  PROVE  /\ phase = "attempt" /\ phase' \in {"failed", "backoff", "completed"}
         /\ UNCHANGED <<delta, asked, reported>>
         /\ phase' = "completed" =>
              /\ attempt' = attempt
              /\ output' \in {output, Plugin}
              /\ ~OnlyReportedAnError
         /\ UNCHANGED sent \/ Push(attempt, "checkpoint")
<1>1. CASE BodyReturns
  <2>1. CASE OnlyReportedAnError
    <3>1. FailAttempt("reported") /\ "reported" \in ErrorKind
      BY <1>1, <2>1 DEF BodyReturns, ErrorKind
    <3> QED BY <1>1, <2>1, <3>1, FailAttemptFacts DEF BodyReturns
  <2>2. CASE ~OnlyReportedAnError
    <3>1. Complete(recorded) /\ recorded \in BOOLEAN
      BY <1>1, <2>2 DEF BodyReturns, TypeOK
    <3>2. UNCHANGED sent \/ Push(attempt, "checkpoint")
      BY <3>1 DEF Complete
    <3> QED BY <1>1, <2>2, <3>1, <3>2, CompleteFacts DEF BodyReturns
  <2> QED BY <2>1, <2>2
<1>2. CASE BodyInterrupted
  <2>1. Complete(FALSE)
    BY <1>2 DEF BodyInterrupted
  <2>2. UNCHANGED sent \/ Push(attempt, "checkpoint")
    BY <2>1 DEF Complete
  <2>3. ~OnlyReportedAnError
    BY <1>2 DEF BodyInterrupted, OnlyReportedAnError
  <2> QED BY <1>2, <2>1, <2>2, <2>3, CompleteFacts DEF BodyInterrupted
<1>3. CASE Deadline
  <2>1. FailAttempt("timeout") /\ "timeout" \in ErrorKind
    BY <1>3 DEF Deadline, ErrorKind
  <2> QED BY <1>3, <2>1, FailAttemptFacts DEF Deadline, ctxVars
<1>4. ASSUME NEW err \in {"node", "child", "aborted"}, BodyThrows(err)
      PROVE  /\ phase = "attempt" /\ phase' \in {"failed", "backoff"}
             /\ UNCHANGED <<delta, asked, reported, sent>>
  <2>1. FailAttempt(err) /\ err \in ErrorKind
    BY <1>4 DEF BodyThrows, ErrorKind
  <2> QED BY <1>4, <2>1, FailAttemptFacts DEF BodyThrows, ctxVars
<1> QED BY <1>1, <1>2, <1>3, <1>4

\* An activation never completes on the strength of an error event alone
\* (failIfNodeReportedError), whatever abandoned bodies still do.
THEOREM ReportedErrorsFail == Spec => []NoSilentSuccess
<1> DEFINE J == TypeOK /\ BodiesInOrder /\ NoSilentSuccess
<1>1. Init => J
  BY TypeInit, FreshBodies DEF Init, NoSilentSuccess
<1>2. J /\ [Next]_vars => J'
  <2> SUFFICES ASSUME J, [Next]_vars PROVE NoSilentSuccess'
    BY TypeStep, BodiesStep
  <2> USE NodeRunnerAssumption DEF NoSilentSuccess
  <2>1. CASE SkipNode \/ PluginThrows \/ StartAttempt
    <3>1. Plugin # 0
      BY DEF Plugin
    <3> QED BY <2>1, <3>1 DEF SkipNode, PluginThrows, StartAttempt
  <2>2. CASE BodyReturns \/ BodyInterrupted \/ Deadline
               \/ \E err \in {"node", "child", "aborted"} : BodyThrows(err)
    <3>1. Plugin # 0
      BY DEF Plugin
    <3> QED BY <2>2, <3>1, AttemptOver DEF OnlyReportedAnError
  <2>3. ASSUME NEW k \in Attempt, NEW what \in {"write", "output", "childAsks", "emit"},
               TouchContext(k, what)
        PROVE  NoSilentSuccess'
    BY <2>3 DEF TouchContext, Attempt
  <2>4. ASSUME NEW k \in Attempt, NEW what \in {"event", "output", "ask", "error"},
               Yield(k, what)
        PROVE  NoSilentSuccess'
    BY <2>4 DEF Yield, CanAct, BodiesInOrder
  <2>5. ASSUME NEW k \in Attempt, AbandonedStops(k) PROVE NoSilentSuccess'
    BY <2>5 DEF AbandonedStops, ctxVars
  <2>6. CASE Abort
    BY <2>6 DEF Abort, ctxVars
  <2>7. CASE UNCHANGED vars
    BY <2>7 DEF vars, ctxVars
  <2> QED BY <2>1, <2>2, <2>3, <2>4, <2>5, <2>6, <2>7, NextCases
<1>3. J => NoSilentSuccess
  OBVIOUS
<1> QED BY <1>1, <1>2, <1>3, PTL DEF Spec

\* The context belongs to the attempt in progress.
SoleAuthor ==
  /\ phase = "before" => delta = {} /\ asked = {} /\ output = 0
  /\ phase = "attempt" =>
       delta \subseteq {attempt} /\ asked \subseteq {attempt} /\ output \in {0, attempt}
  /\ OnlyThisAttemptCounts

\* An event pushed while only attempt k wrote state carries only k's writes.
LEMMA PushIsOwn ==
  ASSUME TypeOK, NEW k \in Attempt, k = attempt, NEW what, Push(k, what),
         delta \subseteq {k}, \A i \in DOMAIN sent : sent[i].delta \subseteq {sent[i].by}
  PROVE  \A i \in DOMAIN sent' : sent'[i].delta \subseteq {sent'[i].by}
<1> DEFINE e == [by |-> k, what |-> what, delta |-> delta]
<1>1. sent' = Append(sent, e) /\ sent \in Seq(Sent)
  BY DEF Push, TypeOK
<1>2. ASSUME NEW i \in DOMAIN sent' PROVE sent'[i].delta \subseteq {sent'[i].by}
  <2>1. CASE i \in DOMAIN sent
    BY <1>1, <2>1
  <2>2. CASE i = Len(sent) + 1
    <3>1. sent'[i] = e
      BY <1>1, <2>2
    <3> QED BY <3>1
  <2> QED BY <1>1, <1>2, <2>1, <2>2
<1> QED BY <1>2

\* Every step keeps the context the current attempt's own.
LEMMA SoleAuthorStep ==
  Obedient /\ TypeOK /\ BodiesInOrder /\ SoleAuthor /\ [Next]_vars => SoleAuthor'
<1> SUFFICES ASSUME Obedient, TypeOK, BodiesInOrder, SoleAuthor, [Next]_vars
             PROVE  SoleAuthor'
  OBVIOUS
<1> USE DEF SoleAuthor, OnlyThisAttemptCounts
<1>1. CASE SkipNode \/ PluginThrows \/ StartAttempt
  BY <1>1 DEF SkipNode, PluginThrows, StartAttempt, ResetState, ctxVars
<1>2. CASE BodyReturns \/ BodyInterrupted \/ Deadline
             \/ \E err \in {"node", "child", "aborted"} : BodyThrows(err)
  <2>1. \A i \in DOMAIN sent' : sent'[i].delta \subseteq {sent'[i].by}
    <3>1. CASE UNCHANGED sent
      BY <3>1
    <3>2. CASE Push(attempt, "checkpoint")
      <4>1. PICK k \in Attempt : k = attempt
        BY DEF TypeOK
      <4> QED BY <1>2, <3>2, <4>1, AttemptOver, PushIsOwn
    <3> QED BY <1>2, <3>1, <3>2, AttemptOver
  <2> QED BY <1>2, <2>1, AttemptOver
<1>3. ASSUME NEW k \in Attempt, NEW what \in {"write", "output", "childAsks", "emit"},
             TouchContext(k, what)
      PROVE  SoleAuthor'
  <2>1. k = attempt /\ phase = "attempt" /\ UNCHANGED <<attempt, phase>>
    BY <1>3 DEF TouchContext, CanAct, BodiesInOrder
  <2>2. Push(k, "event") \/ UNCHANGED sent
    BY <1>3 DEF TouchContext
  <2>3. \A i \in DOMAIN sent' : sent'[i].delta \subseteq {sent'[i].by}
    BY <2>1, <2>2, PushIsOwn
  <2> QED BY <1>3, <2>1, <2>3 DEF TouchContext
<1>4. ASSUME NEW k \in Attempt, NEW what \in {"event", "output", "ask", "error"},
             Yield(k, what)
      PROVE  SoleAuthor'
  <2>1. k = attempt /\ phase = "attempt" /\ UNCHANGED <<attempt, phase, delta>>
    BY <1>4 DEF Yield, CanAct, BodiesInOrder
  <2>2. PICK w \in {"ask", "event"} : Push(k, w)
    BY <1>4 DEF Yield
  <2>3. \A i \in DOMAIN sent' : sent'[i].delta \subseteq {sent'[i].by}
    BY <2>1, <2>2, PushIsOwn
  <2> QED BY <1>4, <2>1, <2>3 DEF Yield
<1>5. ASSUME NEW k \in Attempt, AbandonedStops(k) PROVE SoleAuthor'
  BY <1>5 DEF AbandonedStops, ctxVars
<1>6. CASE Abort
  BY <1>6 DEF Abort, ctxVars
<1>7. CASE UNCHANGED vars
  BY <1>7 DEF vars, ctxVars
<1> QED BY <1>1, <1>2, <1>3, <1>4, <1>5, <1>6, <1>7, NextCases

\* A failed or timed-out attempt leaves nothing in what the activation reports
\* (resetState), provided abandoned bodies stop using their context: without
\* that premise it does not hold.
THEOREM OnlyTheSuccessfulAttemptCounts ==
  ASSUME Obedient PROVE Spec => []OnlyThisAttemptCounts
<1>1. Init => TypeOK /\ BodiesInOrder /\ SoleAuthor
  BY TypeInit, FreshBodies DEF Init, SoleAuthor, OnlyThisAttemptCounts
<1>2. TypeOK /\ BodiesInOrder /\ SoleAuthor /\ [Next]_vars
        => (TypeOK /\ BodiesInOrder /\ SoleAuthor)'
  BY TypeStep, BodiesStep, SoleAuthorStep
<1>3. SoleAuthor => OnlyThisAttemptCounts
  BY DEF SoleAuthor
<1> QED BY <1>1, <1>2, <1>3, PTL DEF Spec
=============================================================================
