-------------------------- MODULE InvocationProofs --------------------------
(***************************************************************************)
(* Why an invocation leaves nothing running, reports a failure after the   *)
(* events before it, and ends with the result: where the runner stands     *)
(* says how far the root is (Stages), and until the runner leaves, what    *)
(* the consumer has, the event in hand and the queue are together what the *)
(* root emitted (Tally, InOrder).  What it has was stored before (Kept).   *)
(***************************************************************************)
EXTENDS Invocation, SequenceTheorems, TLAPS

\* Where the runner stands, and what that says of the root and the outcome.
Stages ==
  /\ outcome = "none" <=> at \notin {"settling", "closing", "ended"}
  /\ failed <=> body = "threw"
  /\ closed /\ outcome = "none" => body \in {"returned", "asked", "threw"}
  /\ at = "drained" => body \in {"returned", "asked", "threw"}
  /\ at = "after" => body \in {"returned", "asked"}
  /\ at \in {"closing", "ended"} => body # "running"
  /\ at \in {"lookup", "greet", "store", "before", "exit"} => body = "unstarted"
  /\ at \in {"pull", "parked", "event", "persist"} => body # "unstarted"
  /\ outcome = "done" => body \in {"unstarted", "returned", "asked"}
  /\ outcome = "bodyError" => body = "threw"

\* An event is in hand while the plugins and the store have it, and then only.
OneInHand ==
  /\ at \in {"event", "persist"} => hand # << >>
  /\ at \notin {"event", "persist"} /\ outcome = "none" => hand = << >>

IInv == TypeOK /\ Stages /\ OneInHand

---------------------------------------------------------------------------
(* The inductive invariant                                                 *)

\* What sequences of one more element are.
LEMMA OneMore ==
  ASSUME NEW S, NEW e \in S, NEW q \in Seq(S)
  PROVE  <<e>> \in Seq(S) /\ <<e>> # << >> /\ Append(q, e) \in Seq(S)
OBVIOUS

\* A step of the runner or the consumer before the root runs.
LEMMA StartStep ==
  ASSUME IInv, GetSession \/ OnUserMessage \/ AppendUserMessage \/ BeforeRun
               \/ AppendEarlyExit \/ NoticeAbort
  PROVE  IInv'
<1> USE DEF IInv, TypeOK, Stages, OneInHand, LeaveFrom, GoOn, Leave,
            logVars, bodyVars, queueVars
<1>1. CASE GetSession BY <1>1 DEF GetSession
<1>2. CASE OnUserMessage BY <1>2 DEF OnUserMessage
<1>3. CASE AppendUserMessage
  <2>1. TypeOK' BY <1>3 DEF AppendUserMessage
  <2>2. Stages' BY <1>3 DEF AppendUserMessage
  <2>3. OneInHand' BY <1>3 DEF AppendUserMessage
  <2> QED BY <2>1, <2>2, <2>3
<1>4. CASE BeforeRun BY <1>4 DEF BeforeRun
<1>5. CASE AppendEarlyExit
  <2>1. EarlyExit \in Event BY DEF EarlyExit, Event
  <2>6. Append(stored, EarlyExit) \in Seq(Event) /\ Append(seen, EarlyExit) \in Seq(Event)
    BY <2>1
  <2>7. stored' \in Seq(Event) /\ seen' \in Seq(Event)
    BY <1>5, <2>6 DEF AppendEarlyExit
  <2>2. TypeOK' BY <1>5, <2>7 DEF AppendEarlyExit
  <2>3. Stages' BY <1>5, <2>1 DEF AppendEarlyExit
  <2>4. OneInHand' BY <1>5, <2>1 DEF AppendEarlyExit
  <2> QED BY <2>2, <2>3, <2>4
<1>6. CASE NoticeAbort BY <1>6 DEF NoticeAbort
<1> QED BY <1>1, <1>2, <1>3, <1>4, <1>5, <1>6

\* A step of the event loop.
LEMMA LoopStep ==
  ASSUME IInv, TakeBuffered \/ Park \/ Drain \/ OnEvent \/ Persist \/ AfterRun
  PROVE  IInv'
<1> USE DEF IInv, TypeOK, Stages, OneInHand, LeaveFrom, Leave,
            logVars, bodyVars, queueVars
<1>1. CASE TakeBuffered
  <2>1. Head(queue) \in Event /\ Tail(queue) \in Seq(Event) BY <1>1 DEF TakeBuffered
  <2>2. TypeOK' BY <1>1, <2>1 DEF TakeBuffered
  <2>3. Stages' BY <1>1, <2>1 DEF TakeBuffered
  <2>4. OneInHand' BY <1>1, <2>1 DEF TakeBuffered
  <2> QED BY <2>2, <2>3, <2>4
<1>2. CASE Park BY <1>2 DEF Park
<1>3. CASE Drain
  <2>1. NewEvent(FALSE, output) \in Event BY DEF NewEvent, Event
  <2>5. <<NewEvent(FALSE, output)>> \in Seq(Event)
        /\ <<NewEvent(FALSE, output)>> # << >>
        /\ Append(emitted, NewEvent(FALSE, output)) \in Seq(Event)
    BY <2>1, OneMore
  <2>6. hand' \in Seq(Event) /\ emitted' \in Seq(Event)
    BY <1>3, <2>5 DEF Drain
  <2>2. TypeOK' BY <1>3, <2>6 DEF Drain
  <2>3. Stages' BY <1>3, <2>1 DEF Drain
  <2>4. OneInHand' BY <1>3, <2>5 DEF Drain
  <2> QED BY <2>2, <2>3, <2>4
<1>4. CASE OnEvent
  <2>1. at = "event" => Head(hand) \in Event OBVIOUS
  <2>2. ASSUME NEW t \in BOOLEAN, at = "event"
        PROVE  [Head(hand) EXCEPT !.touched = t] \in Event
    BY <2>1, <2>2 DEF Event
  <2>7. ASSUME NEW t \in BOOLEAN, at = "event"
        PROVE  /\ <<[Head(hand) EXCEPT !.touched = t]>> \in Seq(Event)
               /\ <<[Head(hand) EXCEPT !.touched = t]>> # << >>
    BY <2>2, <2>7, OneMore
  <2>6. hand' \in Seq(Event) /\ (at' = "persist" => hand' # << >>)
    BY <1>4, <2>7 DEF OnEvent
  <2>3. TypeOK' BY <1>4, <2>6 DEF OnEvent
  <2>4. Stages' BY <1>4, <2>2 DEF OnEvent
  <2>5. OneInHand' BY <1>4, <2>6 DEF OnEvent
  <2> QED BY <2>3, <2>4, <2>5
<1>5. CASE Persist
  <2>1. stored \o hand \in Seq(Event) /\ seen \o hand \in Seq(Event) OBVIOUS
  <2>5. stored' \in Seq(Event)
    BY <1>5, <2>1 DEF Persist
  <2>7. seen' \in {seen, seen \o hand} /\ hand' \in {hand, << >>}
    BY <1>5 DEF Persist
  <2>8. << >> \in Seq(Event) OBVIOUS
  <2>6. seen' \in Seq(Event) /\ hand' \in Seq(Event)
    BY <2>1, <2>7, <2>8
  <2>2. TypeOK' BY <1>5, <2>5, <2>6 DEF Persist
  <2>3. Stages' BY <1>5, <2>1 DEF Persist
  <2>4. OneInHand' BY <1>5, <2>1 DEF Persist
  <2> QED BY <2>2, <2>3, <2>4
<1>6. CASE AfterRun
  <2>1. TypeOK' BY <1>6 DEF AfterRun
  <2>2. Stages' BY <1>6 DEF AfterRun
  <2>3. OneInHand' BY <1>6 DEF AfterRun
  <2> QED BY <2>1, <2>2, <2>3
<1> QED BY <1>1, <1>2, <1>3, <1>4, <1>5, <1>6

\* A step of the root.
LEMMA RootStep ==
  ASSUME IInv, Root
  PROVE  IInv'
<1> USE DEF IInv, TypeOK, Stages, OneInHand, Moves, logVars, bodyVars, queueVars
<1>1. ASSUME NEW partial \in BOOLEAN, NEW carries \in BOOLEAN, Say(partial, carries)
      PROVE  IInv'
  <2> DEFINE e == NewEvent(partial, IF carries THEN Len(emitted) + 1 ELSE 0)
  <2>1. e \in Event BY DEF NewEvent, Event
  <2>2. Append(emitted, e) \in Seq(Event) /\ Append(queue, e) \in Seq(Event)
    BY <2>1
  <2> HIDE DEF e
  <2>3. Push(e) /\ body = "running" BY <1>1 DEF Say, e
  <2>7. <<e>> \in Seq(Event) /\ <<e>> # << >> BY <2>1, OneMore
  <2>8. emitted' \in Seq(Event) /\ queue' \in Seq(Event) /\ hand' \in Seq(Event)
    BY <2>2, <2>3, <2>7 DEF Push
  <2>4. TypeOK' BY <1>1, <2>3, <2>8 DEF Say, Push
  <2>5. Stages' BY <1>1, <2>1, <2>2, <2>3 DEF Say, Push
  <2>6. OneInHand' BY <1>1, <2>3, <2>7 DEF Say, Push
  <2> QED BY <2>4, <2>5, <2>6
<1>2. CASE Return
  <2>5. \A i \in DOMAIN emitted : emitted[i].val \in Nat
    <3>1. ASSUME NEW i \in DOMAIN emitted PROVE emitted[i] \in Event BY DEF TypeOK
    <3> QED BY <3>1 DEF Event
  <2>6. Len(emitted) + 1 \in Nat OBVIOUS
  <2>1. Outputs \subseteq Nat BY <2>5, <2>6 DEF Outputs
  <2>11. output' = 0 \/ output' \in Outputs BY <1>2 DEF Return
  <2>12. 0 \in Nat OBVIOUS
  <2>7. output' \in Nat BY <2>1, <2>11, <2>12, Zenon
  <2>8. body' \in {"returned", "asked"} /\ closed' = TRUE BY <1>2 DEF Return
  <2>9. at' \in {at, "drained"} /\ at' # "parked" BY <1>2 DEF Return, Wake
  <2>10. UNCHANGED <<direct, outcome, greeted, stored, seen, hand, emitted, queue, failed, aborted>>
    BY <1>2 DEF Return
  <2>2. TypeOK' BY <2>7, <2>8, <2>9, <2>10
  <2>3. Stages' BY <1>2, <2>1 DEF Return, Wake
  <2>4. OneInHand' BY <1>2, <2>1 DEF Return, Wake
  <2> QED BY <2>2, <2>3, <2>4
<1>3. CASE Throw
  <2>1. TypeOK' BY <1>3 DEF Throw, Wake
  <2>2. Stages' BY <1>3 DEF Throw, Wake
  <2>3. OneInHand' BY <1>3 DEF Throw, Wake
  <2> QED BY <2>1, <2>2, <2>3
<1> QED BY <1>1, <1>2, <1>3 DEF Root

\* The invariant is inductive.
LEMMA Inductive == IInv /\ [Next]_vars => IInv'
<1> SUFFICES ASSUME IInv, [Next]_vars PROVE IInv'
  OBVIOUS
<1> USE DEF IInv, TypeOK, Stages, OneInHand, logVars, bodyVars, queueVars
<1>1. CASE UNCHANGED vars BY <1>1 DEF vars
<1>2. CASE Abort BY <1>2 DEF Abort
<1>3. CASE SettleNode BY <1>3 DEF SettleNode
<1>4. CASE CloseToolsets BY <1>4 DEF CloseToolsets
<1>5. CASE Resume
  <2>1. TypeOK' BY <1>5 DEF Resume, Leave
  <2>2. Stages' BY <1>5 DEF Resume, Leave
  <2>3. OneInHand' BY <1>5 DEF Resume, Leave
  <2> QED BY <2>1, <2>2, <2>3
<1>6. CASE Stop BY <1>6 DEF Stop, LeaveFrom, Leave
<1> HIDE DEF IInv, TypeOK, Stages, OneInHand, logVars, bodyVars, queueVars
<1> QED
  BY <1>1, <1>2, <1>3, <1>4, <1>5, <1>6, StartStep, LoopStep, RootStep
     DEF Next, Runner, Caller, Ended

LEMMA Initially == Init => IInv
<1>1. << >> \in Seq(Event) OBVIOUS
<1>2. ASSUME Init PROVE TypeOK
  <2>1. stored \in Seq(Event) /\ seen \in Seq(Event) /\ hand \in Seq(Event)
        /\ emitted \in Seq(Event) /\ queue \in Seq(Event)
    BY <1>1, <1>2 DEF Init
  <2>2. direct \in BOOLEAN /\ greeted \in BOOLEAN /\ aborted \in BOOLEAN
        /\ closed \in BOOLEAN /\ failed \in BOOLEAN
    BY <1>2 DEF Init
  <2> QED BY <1>2, <2>1, <2>2 DEF Init, TypeOK
<1>3. Init => Stages /\ OneInHand BY DEF Init, Stages, OneInHand
<1> QED BY <1>2, <1>3 DEF IInv

LEMMA Invariant == Spec => []IInv
<1> QED BY Initially, Inductive, PTL DEF Spec

\* The variables of an invocation keep their types, and a reader is parked
\* on an open and empty queue only.
THEOREM TypeCorrect == Spec => []TypeOK
<1>1. IInv => TypeOK BY DEF IInv
<1> QED BY <1>1, Invariant, PTL

\* However the run is ended, it does not end before the root has stopped.
THEOREM NothingIsLeftRunning == Spec => []NoBodyOutlivesTheRun
<1>1. IInv => NoBodyOutlivesTheRun BY DEF IInv, Stages, NoBodyOutlivesTheRun
<1> QED BY <1>1, Invariant, PTL

\* After an abort the consumer is given nothing more.
THEOREM AbortIsSilent == Spec => NothingSeenAfterAbort
<1>1. ASSUME aborted, [Next]_vars PROVE seen' = seen
  BY <1>1 DEF Next, vars, logVars, bodyVars, queueVars, Runner, Root, Caller, Ended,
     GetSession, OnUserMessage, AppendUserMessage, BeforeRun, AppendEarlyExit,
     TakeBuffered, Park, Drain, OnEvent, Persist, AfterRun, NoticeAbort, SettleNode,
     CloseToolsets, Say, Return, Throw, Resume, Stop, Abort, LeaveFrom, GoOn, Leave
<1> QED BY <1>1, PTL DEF Spec, NothingSeenAfterAbort

---------------------------------------------------------------------------
(* Nothing is lost between the root and the consumer                       *)

\* Before the root runs nothing was emitted or seen; until the runner leaves,
\* what was seen, the event in hand and the queue are all that was emitted.
Tally ==
  /\ body = "unstarted" => emitted = << >> /\ queue = << >> /\ hand = << >>
  /\ at \in {"lookup", "greet", "store", "before", "exit"} => seen = << >>
  /\ at \in {"event", "persist"} => Len(hand) = 1
  /\ at \in {"drained", "after"} => queue = << >>
  /\ outcome = "none" /\ body # "unstarted" =>
       Len(seen) + Len(hand) + Len(queue) = Len(emitted)
  /\ outcome = "bodyError" => Len(seen) = Len(emitted)

LEMMA Lengths ==
  ASSUME NEW S, NEW e \in S, NEW q \in Seq(S)
  PROVE  Len(<<e>>) = 1 /\ Len(Append(q, e)) = Len(q) + 1 /\ Len(q) \in Nat
OBVIOUS

\* The steps that move no event.
LEMMA TallyQuietStep ==
  ASSUME IInv, Tally,
         \/ GetSession \/ OnUserMessage \/ AppendUserMessage \/ BeforeRun \/ AppendEarlyExit
         \/ NoticeAbort \/ SettleNode \/ CloseToolsets \/ AfterRun \/ Return \/ Throw
         \/ Resume \/ Stop \/ Abort \/ Park \/ UNCHANGED vars
  PROVE  Tally'
<1> USE DEF IInv, TypeOK, Stages, OneInHand, Tally, LeaveFrom, GoOn, Leave, Wake,
            logVars, bodyVars, queueVars
<1>1. CASE GetSession BY <1>1 DEF GetSession
<1>2. CASE OnUserMessage BY <1>2 DEF OnUserMessage
<1>3. CASE AppendUserMessage BY <1>3 DEF AppendUserMessage
<1>4. CASE BeforeRun BY <1>4 DEF BeforeRun
<1>5. CASE AppendEarlyExit BY <1>5 DEF AppendEarlyExit
<1>6. CASE NoticeAbort BY <1>6 DEF NoticeAbort
<1>7. CASE SettleNode BY <1>7 DEF SettleNode
<1>8. CASE CloseToolsets BY <1>8 DEF CloseToolsets
<1>9. CASE AfterRun BY <1>9 DEF AfterRun
<1>10. CASE Return BY <1>10 DEF Return, Moves
<1>11. CASE Throw BY <1>11 DEF Throw, Moves
<1>12. CASE Resume BY <1>12 DEF Resume
<1>13. CASE Stop BY <1>13 DEF Stop
<1>14. CASE Abort BY <1>14 DEF Abort
<1>15. CASE Park BY <1>15 DEF Park
<1>16. CASE UNCHANGED vars BY <1>16 DEF vars
<1> QED
  BY <1>1, <1>2, <1>3, <1>4, <1>5, <1>6, <1>7, <1>8, <1>9, <1>10, <1>11, <1>12,
     <1>13, <1>14, <1>15, <1>16

\* The steps that move one.
LEMMA TallyMovingStep ==
  ASSUME IInv, Tally,
         \/ TakeBuffered \/ Drain \/ OnEvent \/ Persist
         \/ \E partial, carries \in BOOLEAN : Say(partial, carries)
  PROVE  Tally'
<1> USE DEF IInv, TypeOK, Stages, OneInHand, Tally, LeaveFrom, Leave,
            logVars, bodyVars, queueVars
<1>1. CASE TakeBuffered
  <2>1. Len(Tail(queue)) = Len(queue) - 1 /\ Len(<<Head(queue)>>) = 1
    BY <1>1 DEF TakeBuffered
  <2> QED BY <1>1, <2>1 DEF TakeBuffered
<1>2. CASE Drain
  <2>1. NewEvent(FALSE, output) \in Event BY DEF NewEvent, Event
  <2>2. /\ Len(<<NewEvent(FALSE, output)>>) = 1
        /\ Len(Append(emitted, NewEvent(FALSE, output))) = Len(emitted) + 1
    BY <2>1, Lengths
  <2>3. /\ at = "drained" /\ outcome = "none" /\ body # "unstarted"
        /\ hand = << >> /\ queue = << >> /\ Len(seen) = Len(emitted)
    BY <1>2 DEF Drain
  <2>4. CASE failed BY <1>2, <2>3, <2>4 DEF Drain
  <2>5. CASE ~failed /\ ToAnnounce
    <3>1. /\ UNCHANGED <<outcome, seen, queue, body>> /\ at' = "event"
          /\ hand' = <<NewEvent(FALSE, output)>>
          /\ emitted' = Append(emitted, NewEvent(FALSE, output))
      BY <1>2, <2>5 DEF Drain
    <3>2. Len(seen') + Len(hand') + Len(queue') = Len(emitted')
      BY <2>2, <2>3, <3>1
    <3> QED BY <2>2, <2>3, <3>1, <3>2
  <2>6. CASE ~failed /\ ~ToAnnounce BY <1>2, <2>3, <2>6 DEF Drain
  <2> QED BY <2>4, <2>5, <2>6
<1>3. CASE OnEvent
  <2>1. \A t \in BOOLEAN : Len(<<[Head(hand) EXCEPT !.touched = t]>>) = 1
    OBVIOUS
  <2> QED BY <1>3, <2>1 DEF OnEvent
<1>4. CASE Persist
  <2>1. Len(seen \o hand) = Len(seen) + Len(hand) OBVIOUS
  <2> QED BY <1>4, <2>1 DEF Persist
<1>5. ASSUME NEW partial \in BOOLEAN, NEW carries \in BOOLEAN, Say(partial, carries)
      PROVE  Tally'
  <2> DEFINE e == NewEvent(partial, IF carries THEN Len(emitted) + 1 ELSE 0)
  <2>1. e \in Event BY DEF NewEvent, Event
  <2> HIDE DEF e
  <2>2. Push(e) /\ body = "running" BY <1>5 DEF Say, Moves, e
  <2>3. /\ Len(<<e>>) = 1 /\ Len(Append(emitted, e)) = Len(emitted) + 1
        /\ Len(Append(queue, e)) = Len(queue) + 1
    BY <2>1, Lengths
  <2>4. UNCHANGED <<outcome, seen, body>> BY <1>5 DEF Say
  <2>5. outcome = "none" => ~closed BY <2>2
  <2>6. CASE at = "parked" /\ ~closed
    <3>1. hand = << >> /\ queue = << >> /\ outcome = "none" BY <2>6
    <3>2. hand' = <<e>> /\ at' = "event" /\ queue' = queue /\ emitted' = Append(emitted, e)
      BY <2>2, <2>6 DEF Push
    <3> QED BY <2>2, <2>3, <2>4, <3>1, <3>2
  <2>7. CASE at # "parked" \/ closed
    <3>1. /\ UNCHANGED <<hand, at>>
          /\ queue' = IF closed THEN queue ELSE Append(queue, e)
          /\ emitted' = IF closed THEN emitted ELSE Append(emitted, e)
      BY <2>2, <2>7 DEF Push
    <3>2. CASE closed BY <2>2, <2>4, <2>5, <3>1, <3>2
    <3>3. CASE ~closed
      <4>1. queue' = Append(queue, e) /\ emitted' = Append(emitted, e) BY <3>1, <3>3
      <4>2. outcome = "none" => Len(seen') + Len(hand') + Len(queue') = Len(emitted')
        <5>1. Len(queue') = Len(queue) + 1 /\ Len(emitted') = Len(emitted) + 1
          BY <2>3, <4>1
        <5>2. Len(seen') = Len(seen) /\ Len(hand') = Len(hand) BY <2>4, <3>1
        <5>3. outcome = "none" => Len(seen) + Len(hand) + Len(queue) = Len(emitted)
          BY <2>2
        <5>4. /\ Len(seen) \in Nat /\ Len(hand) \in Nat
              /\ Len(queue) \in Nat /\ Len(emitted) \in Nat
          OBVIOUS
        <5> HIDE DEF IInv, TypeOK, Stages, OneInHand, Tally
        <5> QED BY <5>1, <5>2, <5>3, <5>4
      <4>3. at \notin {"drained", "after"}
        BY <2>2
      <4> QED BY <2>2, <2>4, <3>1, <4>2, <4>3
    <3> QED BY <3>2, <3>3
  <2> QED BY <2>6, <2>7
<1> QED BY <1>1, <1>2, <1>3, <1>4, <1>5

LEMMA TallyHolds == Spec => []Tally
<1>1. Init => Tally BY DEF Init, Tally
<1>2. IInv /\ Tally /\ [Next]_vars => Tally'
  BY TallyQuietStep, TallyMovingStep DEF Next, Runner, Root, Caller, Ended
<1> QED BY <1>1, <1>2, Invariant, PTL DEF Spec

\* A run never looks finished when its root failed, and the failure reaches
\* the consumer after every event the root had emitted.
THEOREM FailureComesLast == Spec => []FailureIsSeenLast
<1>1. IInv /\ Tally => FailureIsSeenLast
  BY DEF IInv, Stages, Tally, FailureIsSeenLast
<1> QED BY <1>1, Invariant, TallyHolds, PTL

---------------------------------------------------------------------------
(* The consumer gets the outputs in the order they were emitted            *)

\* What the plugins leave alone of an event.
Look(e) == <<e.id, e.partial, e.val>>
Face(s, i) == Look(s[i])

\* Seen, in hand and in the queue: the outputs are those emitted, in order.
Aligned ==
  /\ \A i \in 1..Len(seen) : Face(seen, i) = Face(emitted, i)
  /\ hand # << >> => Face(hand, 1) = Face(emitted, Len(seen) + 1)
  /\ \A i \in 1..Len(queue) : Face(queue, i) = Face(emitted, Len(seen) + Len(hand) + i)

InOrder ==
  /\ outcome = "none" /\ body # "unstarted" => Aligned
  /\ at = "after" /\ body = "returned" /\ output # 0 => AlreadyLast
  /\ outcome = "done" /\ body = "returned" /\ output # 0 =>
       /\ AlreadyLast
       /\ Len(seen) = Len(emitted)
       /\ \A i \in 1..Len(seen) : Face(seen, i) = Face(emitted, i)

\* The steps that move no event leave every output where it was.
LEMMA OrderQuietStep ==
  ASSUME IInv, Tally, InOrder,
         \/ GetSession \/ OnUserMessage \/ AppendUserMessage \/ BeforeRun \/ AppendEarlyExit
         \/ NoticeAbort \/ SettleNode \/ CloseToolsets \/ AfterRun \/ Return \/ Throw
         \/ Resume \/ Stop \/ Abort \/ Park \/ UNCHANGED vars
  PROVE  InOrder'
<1>1. CASE BeforeRun \/ AppendEarlyExit
  <2> USE DEF IInv, TypeOK, Stages, OneInHand, Tally, LeaveFrom, GoOn, Leave, logVars,
              bodyVars, queueVars
  <2>1. at \in {"before", "exit"} /\ body = "unstarted" /\ outcome = "none"
    BY <1>1 DEF BeforeRun, AppendEarlyExit
  <2>2. at' # "after" /\ outcome' # "done"
    BY <1>1, <2>1 DEF BeforeRun, AppendEarlyExit
  <2>3. CASE body' = "unstarted" BY <2>2, <2>3 DEF InOrder
  <2>4. CASE body' # "unstarted"
    <3>1. UNCHANGED <<seen, hand, queue, emitted>>
      BY <1>1, <2>1, <2>4 DEF BeforeRun, AppendEarlyExit
    <3>2. seen = << >> /\ hand = << >> /\ queue = << >> BY <2>1
    <3>3. seen' = << >> /\ hand' = << >> /\ queue' = << >> BY <3>1, <3>2
    <3>4. Aligned' BY <3>3 DEF Aligned
    <3> QED BY <2>2, <3>4 DEF InOrder
  <2> QED BY <2>3, <2>4
<1>2. ASSUME ~(BeforeRun \/ AppendEarlyExit)
      PROVE  UNCHANGED <<seen, hand, queue, emitted>>
  BY <1>2 DEF GetSession, OnUserMessage, AppendUserMessage, NoticeAbort, SettleNode,
     CloseToolsets, AfterRun, Return, Throw, Resume, Stop, Abort, Park, LeaveFrom, GoOn,
     Leave, vars, logVars, bodyVars, queueVars
<1>3. CASE ~(BeforeRun \/ AppendEarlyExit)
  <2>1. UNCHANGED <<seen, hand, queue, emitted>> BY <1>2, <1>3
  <2>2. Aligned => Aligned' BY <2>1 DEF Aligned, Face
  <2>3. /\ outcome' = "none" /\ body' # "unstarted" => outcome = "none" /\ body # "unstarted"
        /\ at' = "after" => UNCHANGED <<at, body, output>>
        /\ outcome' = "done" /\ body' = "returned" =>
             /\ UNCHANGED <<body, output>>
             /\ outcome = "done" \/ (at = "after" /\ outcome = "none")
    BY <1>3 DEF IInv, TypeOK, Stages, GetSession, OnUserMessage, AppendUserMessage,
       NoticeAbort, SettleNode, CloseToolsets, AfterRun, Return, Throw, Resume, Stop,
       Abort, Park, LeaveFrom, GoOn, Leave, Moves, Wake, vars, logVars, bodyVars, queueVars
  <2>4. output' = output => (AlreadyLast => AlreadyLast') BY <2>1 DEF AlreadyLast
  <2>5. at = "after" /\ outcome = "none" => hand = << >> /\ queue = << >> /\ Len(seen) = Len(emitted)
    BY DEF IInv, TypeOK, Stages, OneInHand, Tally
  <2>6. at = "after" => body # "unstarted" BY DEF IInv, Stages
  <2> QED BY <2>1, <2>2, <2>3, <2>4, <2>5, <2>6 DEF InOrder, Aligned, Face
<1> QED BY <1>1, <1>3

\* A longer stream keeps the outputs it had.
LEMMA AppendKeeps ==
  ASSUME NEW q \in Seq(Event), NEW e \in Event
  PROVE  /\ Len(Append(q, e)) = Len(q) + 1
         /\ \A i \in 1..Len(q) : Face(Append(q, e), i) = Face(q, i)
         /\ Face(Append(q, e), Len(q) + 1) = Look(e)
  BY DEF Face

LEMMA JoinKeeps ==
  ASSUME NEW q \in Seq(Event), NEW h \in Seq(Event), Len(h) = 1
  PROVE  /\ Len(q \o h) = Len(q) + 1
         /\ \A i \in 1..Len(q) : Face(q \o h, i) = Face(q, i)
         /\ Face(q \o h, Len(q) + 1) = Face(h, 1)
<1> DEFINE c == q \o h
<1>1. /\ Len(c) = Len(q) + Len(h)
      /\ \A i \in 1..Len(q) + Len(h) : c[i] = IF i <= Len(q) THEN q[i] ELSE h[i - Len(q)]
  BY ConcatProperties, Zenon
<1>2. Len(q) \in Nat OBVIOUS
<1> HIDE DEF c
<1>3. \A i \in 1..Len(q) : c[i] = q[i] BY <1>1, <1>2
<1>4. c[Len(q) + 1] = h[1]
  <2>1. c[Len(q) + 1] = h[Len(q) + 1 - Len(q)] BY <1>1, <1>2
  <2>2. Len(q) + 1 - Len(q) = 1 BY <1>2
  <2> QED BY <2>1, <2>2
<1>5. Len(c) = Len(q) + 1 BY <1>1
<1> QED BY <1>3, <1>4, <1>5, Zenon DEF Face, c

\* The steps that move one event.
LEMMA OrderMovingStep ==
  ASSUME IInv, Tally, InOrder,
         \/ TakeBuffered \/ Drain \/ OnEvent \/ Persist
         \/ \E partial, carries \in BOOLEAN : Say(partial, carries)
  PROVE  InOrder'
<1>0. /\ seen \in Seq(Event) /\ hand \in Seq(Event)
      /\ queue \in Seq(Event) /\ emitted \in Seq(Event)
  BY DEF IInv, TypeOK
<1>1. CASE TakeBuffered
  <2>1. /\ at = "pull" /\ queue # << >> /\ hand' = <<Head(queue)>> /\ queue' = Tail(queue)
        /\ at' = "event" /\ UNCHANGED <<outcome, seen, emitted, body>>
    BY <1>1 DEF TakeBuffered, logVars, bodyVars
  <2>2. outcome = "none" /\ body # "unstarted" /\ hand = << >>
    BY <2>1 DEF IInv, Stages, OneInHand
  <2>3. Aligned BY <2>2 DEF InOrder
  <2>4. Face(hand', 1) = Face(queue, 1) /\ Len(hand') = 1 BY <1>0, <2>1 DEF Face
  <2>5. /\ Len(queue) \in Nat /\ Len(queue) >= 1 /\ Len(queue') = Len(queue) - 1
        /\ \A i \in 1..Len(queue') : Face(queue', i) = Face(queue, i + 1)
    BY <1>0, <2>1 DEF Face
  <2>6. \A i \in 1..Len(queue) : Face(queue, i) = Face(emitted, Len(seen) + i)
    BY <1>0, <2>2, <2>3 DEF Aligned
  <2>7. Face(hand', 1) = Face(emitted, Len(seen) + 1) BY <2>4, <2>5, <2>6
  <2>8. ASSUME NEW i \in 1..Len(queue')
        PROVE  Face(queue', i) = Face(emitted, Len(seen) + 1 + i)
    <3>1. i \in Nat /\ i + 1 \in 1..Len(queue) /\ Len(seen) \in Nat BY <1>0, <2>5
    <3>2. Face(queue', i) = Face(queue, i + 1) BY <2>5
    <3>3. Face(queue, i + 1) = Face(emitted, Len(seen) + (i + 1)) BY <2>6, <3>1
    <3>4. Len(seen) + (i + 1) = Len(seen) + 1 + i BY <3>1
    <3> QED BY <3>2, <3>3, <3>4
  <2>9. Aligned' BY <2>1, <2>3, <2>4, <2>7, <2>8 DEF Aligned
  <2> QED BY <2>1, <2>2, <2>9 DEF InOrder
<1>2. CASE Drain
  <2>1. /\ at = "drained" /\ UNCHANGED <<seen, queue, output>>
    BY <1>2 DEF Drain, logVars
  <2>2. /\ outcome = "none" /\ body # "unstarted" /\ hand = << >> /\ queue = << >>
        /\ Len(seen) = Len(emitted)
    BY <2>1, <1>0 DEF IInv, Stages, OneInHand, Tally
  <2>3. Aligned BY <2>2 DEF InOrder
  <2>4. CASE failed
    <3>1. outcome' = "bodyError" /\ at' \in {"closing", "settling"}
      BY <1>2, <2>4 DEF Drain, Leave
    <3> QED BY <3>1 DEF InOrder
  <2>5. CASE ~failed /\ ToAnnounce
    <3> DEFINE e == NewEvent(FALSE, output)
    <3>1. e \in Event BY DEF IInv, TypeOK, NewEvent, Event
    <3>2. /\ UNCHANGED <<outcome, body>> /\ at' = "event"
          /\ hand' = <<e>> /\ emitted' = Append(emitted, e)
      BY <1>2, <2>5 DEF Drain
    <3> HIDE DEF e
    <3>3. /\ \A i \in 1..Len(emitted) : Face(emitted', i) = Face(emitted, i)
          /\ Face(emitted', Len(emitted) + 1) = Look(e)
      BY <1>0, <3>1, <3>2, AppendKeeps
    <3>4. Face(hand', 1) = Look(e) BY <3>2 DEF Face
    <3>5. 1..Len(queue') = {} BY <2>1, <2>2
    <3>6. Aligned' BY <2>1, <2>2, <2>3, <3>3, <3>4, <3>5 DEF Aligned
    <3> QED BY <2>2, <3>2, <3>6 DEF InOrder
  <2>6. CASE ~failed /\ ~ToAnnounce
    <3>1. at' = "after" /\ UNCHANGED <<outcome, body, hand, emitted>>
      BY <1>2, <2>6 DEF Drain
    <3>2. body' = "returned" /\ output' # 0 => AlreadyLast'
      BY <2>1, <2>6, <3>1 DEF ToAnnounce, AlreadyLast
    <3>3. Aligned' BY <2>1, <2>3, <3>1 DEF Aligned, Face
    <3> QED BY <2>2, <3>1, <3>2, <3>3 DEF InOrder
  <2> QED BY <2>4, <2>5, <2>6
<1>3. CASE OnEvent
  <2>1. at = "event" /\ UNCHANGED <<seen, queue, emitted>>
    BY <1>3 DEF OnEvent, LeaveFrom, logVars, bodyVars, queueVars
  <2>2. outcome = "none" /\ body # "unstarted" /\ hand # << >>
    BY <2>1 DEF IInv, Stages, OneInHand
  <2>3. Aligned BY <2>2 DEF InOrder
  <2>4. CASE outcome' = "none"
    <3>1. PICK touched \in BOOLEAN :
            /\ hand' = <<[Head(hand) EXCEPT !.touched = touched]>>
            /\ at' = "persist"
      BY <1>3, <2>4 DEF OnEvent, LeaveFrom, Leave
    <3>2. Head(hand) \in Event /\ Len(hand) = 1
      BY <1>0, <2>1, <2>2 DEF Tally
    <3>3. Look([Head(hand) EXCEPT !.touched = touched]) = Look(Head(hand))
      BY <3>2 DEF Event, Look
    <3> DEFINE h == [Head(hand) EXCEPT !.touched = touched]
    <3>6. hand' = <<h>> /\ Look(h) = Face(hand, 1) BY <1>0, <2>2, <3>1, <3>3 DEF Face
    <3> HIDE DEF h
    <3>4. Face(hand', 1) = Face(hand, 1) /\ Len(hand') = 1 /\ hand' # << >>
      BY <3>6 DEF Face
    <3>5. Aligned' BY <2>1, <2>2, <2>3, <3>2, <3>4 DEF Aligned, Face
    <3> QED BY <2>4, <3>1, <3>5 DEF InOrder
  <2>5. CASE outcome' # "none"
    <3>1. outcome' = "error" /\ at' \in {"closing", "settling"}
      BY <1>3, <2>2, <2>5 DEF OnEvent, LeaveFrom, Leave
    <3> QED BY <3>1 DEF InOrder
  <2> QED BY <2>4, <2>5
<1>4. CASE Persist
  <2>1. at = "persist" BY <1>4 DEF Persist, LeaveFrom
  <2>2. outcome = "none" /\ body # "unstarted" /\ hand # << >> /\ Len(hand) = 1
    BY <2>1 DEF IInv, Stages, OneInHand, Tally
  <2>3. Aligned BY <2>2 DEF InOrder
  <2>4. CASE outcome' = "none"
    <3>1. /\ UNCHANGED <<queue, emitted>>
          /\ at' = "held" /\ seen' = seen \o hand /\ hand' = << >>
      BY <1>4, <2>4 DEF Persist, LeaveFrom, Leave
    <3>2. /\ Len(seen') = Len(seen) + 1 /\ Len(hand') = 0
          /\ \A i \in 1..Len(seen) : Face(seen', i) = Face(seen, i)
          /\ Face(seen', Len(seen) + 1) = Face(hand, 1)
      BY <1>0, <2>2, <3>1, JoinKeeps
    <3>3. ASSUME NEW i \in 1..Len(seen') PROVE Face(seen', i) = Face(emitted, i)
      <4>1. i \in 1..Len(seen) \/ i = Len(seen) + 1 BY <1>0, <3>2
      <4> QED BY <2>2, <2>3, <3>2, <4>1 DEF Aligned
    <3>4. ASSUME NEW i \in 1..Len(queue')
          PROVE  Face(queue', i) = Face(emitted, Len(seen') + Len(hand') + i)
      <4>1. Len(seen') + Len(hand') + i = Len(seen) + Len(hand) + i
        BY <1>0, <2>2, <3>1, <3>2
      <4> QED BY <2>3, <3>1, <4>1 DEF Aligned, Face
    <3>5. Aligned' BY <3>1, <3>3, <3>4 DEF Aligned, Face
    <3> QED BY <2>4, <3>1, <3>5 DEF InOrder
  <2>5. CASE outcome' # "none"
    <3>1. outcome' \in {"error", "aborted"} /\ at' \in {"closing", "settling"}
      BY <1>4, <2>2, <2>5 DEF Persist, LeaveFrom, Leave
    <3> QED BY <3>1 DEF InOrder
  <2> QED BY <2>4, <2>5
<1>5. ASSUME NEW partial \in BOOLEAN, NEW carries \in BOOLEAN, Say(partial, carries)
      PROVE  InOrder'
  <2> DEFINE e == NewEvent(partial, IF carries THEN Len(emitted) + 1 ELSE 0)
  <2>1. e \in Event BY <1>0 DEF NewEvent, Event
  <2> HIDE DEF e
  <2>2. Push(e) /\ body = "running" /\ UNCHANGED <<outcome, seen, body, output>>
    BY <1>5 DEF Say, Moves, logVars, e
  <2>3. /\ Len(emitted) \in Nat /\ Len(seen) \in Nat
        /\ Len(hand) \in Nat /\ Len(queue) \in Nat
    BY <1>0
  <2>4. at' \in {at, "event"} /\ at # "after"
    BY <2>2 DEF Push, IInv, Stages
  <2>5. CASE outcome # "none" BY <2>2, <2>4, <2>5 DEF InOrder
  <2>6. CASE outcome = "none"
    <3>1. Aligned /\ ~closed /\ Len(seen) + Len(hand) + Len(queue) = Len(emitted)
      BY <2>2, <2>6 DEF InOrder, IInv, Stages, Tally
    <3>2. /\ \A i \in 1..Len(emitted) : Face(Append(emitted, e), i) = Face(emitted, i)
          /\ Face(Append(emitted, e), Len(emitted) + 1) = Look(e)
      BY <1>0, <2>1, AppendKeeps
    <3>3. emitted' = Append(emitted, e) BY <2>2, <3>1 DEF Push
    <3>4. \A i \in 1..Len(seen) : Face(seen', i) = Face(emitted', i)
      BY <2>2, <2>3, <3>1, <3>2, <3>3 DEF Aligned
    <3>5. CASE at = "parked"
      <4>1. hand = << >> /\ queue = << >> /\ hand' = <<e>> /\ queue' = << >>
        BY <2>2, <3>1, <3>5 DEF IInv, TypeOK, Stages, OneInHand, Push
      <4>2. Len(seen') = Len(emitted) BY <2>2, <2>3, <3>1, <4>1
      <4>3. Face(hand', 1) = Look(e) BY <4>1 DEF Face
      <4>4. 1..Len(queue') = {} BY <4>1
      <4> QED BY <2>2, <2>4, <2>6, <3>2, <3>3, <3>4, <4>2, <4>3, <4>4 DEF InOrder, Aligned
    <3>6. CASE at # "parked"
      <4>1. hand' = hand /\ queue' = Append(queue, e)
        BY <2>2, <3>1, <3>6 DEF Push
      <4>2. hand # << >> => Face(hand', 1) = Face(emitted', Len(seen') + 1)
        <5>1. hand # << >> => Len(hand) >= 1 BY <1>0
        <5>2. hand # << >> => Len(seen) + 1 \in 1..Len(emitted) BY <2>3, <3>1, <5>1
        <5> QED BY <2>2, <3>1, <3>2, <3>3, <4>1, <5>2 DEF Aligned, Face
      <4>3. ASSUME NEW i \in 1..Len(queue')
            PROVE  Face(queue', i) = Face(emitted', Len(seen') + Len(hand') + i)
        <5>1. Len(queue') = Len(queue) + 1 BY <1>0, <2>1, <4>1, AppendKeeps
        <5>2. Len(seen') = Len(seen) /\ Len(hand') = Len(hand) BY <2>2, <4>1
        <5>3. CASE i \in 1..Len(queue)
          <6>1. Face(queue', i) = Face(queue, i) BY <1>0, <2>1, <4>1, <5>3, AppendKeeps
          <6>2. Len(seen) + Len(hand) + i \in 1..Len(emitted) BY <2>3, <3>1, <5>3
          <6> QED BY <3>1, <3>2, <3>3, <5>2, <5>3, <6>1, <6>2 DEF Aligned
        <5>4. CASE i = Len(queue) + 1
          <6>1. Face(queue', i) = Look(e) BY <1>0, <2>1, <4>1, <5>4, AppendKeeps
          <6>2. Len(seen') + Len(hand') + i = Len(emitted) + 1
            BY <2>3, <3>1, <5>2, <5>4
          <6> QED BY <3>2, <3>3, <6>1, <6>2
        <5> QED BY <2>3, <5>1, <5>3, <5>4
      <4>4. Aligned' BY <2>2, <3>4, <4>1, <4>2, <4>3 DEF Aligned
      <4> QED BY <2>2, <2>4, <2>6, <4>4 DEF InOrder
    <3> QED BY <3>5, <3>6
  <2> QED BY <2>5, <2>6
<1> QED BY <1>1, <1>2, <1>3, <1>4, <1>5

LEMMA OrderHolds == Spec => []InOrder
<1>1. Init => InOrder BY DEF Init, InOrder
<1>2. IInv /\ Tally /\ InOrder /\ [Next]_vars => InOrder'
  BY OrderQuietStep, OrderMovingStep DEF Next, Runner, Root, Caller, Ended
<1> QED BY <1>1, <1>2, Invariant, TallyHolds, PTL DEF Spec

\* Whoever takes the last output of a finished stream has the root's output.
THEOREM LastOutputIsRight == Spec => []LastOutputIsTheResult
<1>1. ASSUME IInv, InOrder PROVE LastOutputIsTheResult
  <2>1. SUFFICES ASSUME outcome = "done", body = "returned", output # 0
                 PROVE  \E i \in DOMAIN seen :
                          /\ seen[i].val = output
                          /\ \A j \in DOMAIN seen : j > i => seen[j].val = 0
    BY DEF LastOutputIsTheResult
  <2>2. /\ AlreadyLast /\ Len(seen) = Len(emitted)
        /\ \A i \in 1..Len(seen) : seen[i].val = emitted[i].val
    <3>1. \A i \in 1..Len(seen) : Look(seen[i]) = Look(emitted[i])
      BY <1>1, <2>1 DEF InOrder, Face
    <3> QED BY <1>1, <2>1, <3>1 DEF InOrder, Look
  <2>3. DOMAIN seen = 1..Len(seen) /\ DOMAIN emitted = 1..Len(emitted)
    BY <1>1 DEF IInv, TypeOK
  <2> QED BY <2>2, <2>3 DEF AlreadyLast
<1> QED BY <1>1, Invariant, OrderHolds, PTL

---------------------------------------------------------------------------
(* The consumer is never ahead of the session, nor the session of the root *)

Before == at \in {"lookup", "greet", "store", "before", "exit"}

\* Nothing of the invocation is stored before the user's message.
Greeting ==
  /\ outcome = "none" /\ at \notin {"lookup", "greet", "store"} => greeted
  /\ stored # << >> => greeted

\* An event is numbered by its place in the stream.
Numbered == \A i \in 1..Len(emitted) : emitted[i].id = i

\* Without a root there is at most the answer a plugin gave in its place.
NoRoot ==
  /\ Before => stored = << >>
  /\ body = "unstarted" => /\ stored \in {<< >>, <<EarlyExit>>}
                           /\ seen \in {<< >>, stored}

\* What was seen is what the stream begins with, in the plugins' form.
SeenFirst ==
  body # "unstarted" =>
    /\ Len(seen) <= Len(emitted)
    /\ \A i \in 1..Len(seen) : Face(seen, i) = Face(emitted, i)

\* A stored event was seen, or is the one in hand when the run was aborted.
StoredEvent(k) ==
  LET n == stored[k].id
  IN  /\ n \in 1..Len(emitted) /\ ~emitted[n].partial
      /\ n <= Len(seen) + 1
      /\ outcome = "none" => n <= Len(seen)
      /\ n <= Len(seen) => stored[k] = seen[n]
InStore ==
  body # "unstarted" =>
    /\ \A i, j \in 1..Len(stored) : i < j => stored[i].id < stored[j].id
    /\ \A k \in 1..Len(stored) : StoredEvent(k)
    /\ \A i \in 1..Len(seen) :
         ~seen[i].partial => \E k \in 1..Len(stored) : stored[k] = seen[i]

Kept == Greeting /\ Numbered /\ NoRoot /\ SeenFirst /\ InStore

\* The steps after which the same events are seen and stored.
LEMMA KeptQuietStep ==
  ASSUME IInv, Tally, Kept,
         \/ GetSession \/ OnUserMessage \/ AppendUserMessage \/ BeforeRun
         \/ NoticeAbort \/ SettleNode \/ CloseToolsets \/ AfterRun \/ Return \/ Throw
         \/ Resume \/ Stop \/ Abort \/ Park \/ TakeBuffered \/ OnEvent \/ UNCHANGED vars
  PROVE  Kept'
<1>1. UNCHANGED <<seen, stored, emitted>>
  BY DEF GetSession, OnUserMessage, AppendUserMessage, BeforeRun, NoticeAbort, SettleNode,
     CloseToolsets, AfterRun, Return, Throw, Resume, Stop, Abort, Park, TakeBuffered,
     OnEvent, LeaveFrom, GoOn, Leave, vars, logVars, bodyVars, queueVars
<1>2. /\ outcome' = "none" => outcome = "none"
      /\ greeted => greeted'
      /\ Before' => Before
      /\ body = "unstarted" /\ body' # "unstarted" => at = "before"
      /\ body' = "unstarted" => body = "unstarted"
      /\ outcome' = "none" /\ at' \notin {"lookup", "greet", "store"} =>
           at \notin {"lookup", "greet", "store"} \/ greeted'
  BY DEF GetSession, OnUserMessage, AppendUserMessage, BeforeRun, NoticeAbort, SettleNode,
     CloseToolsets, AfterRun, Return, Throw, Resume, Stop, Abort, Park, TakeBuffered,
     OnEvent, LeaveFrom, GoOn, Leave, vars, logVars, bodyVars, queueVars, Before, Moves,
     Wake, IInv, TypeOK, Stages
<1>3. Greeting' /\ Numbered' BY <1>1, <1>2 DEF Kept, Greeting, Numbered
<1>4. NoRoot' BY <1>1, <1>2 DEF Kept, NoRoot, EarlyExit
<1>5. at = "before" => seen = << >> /\ stored = << >> /\ emitted = << >>
  BY DEF Kept, NoRoot, Before, Tally, IInv, Stages
<1>6. SeenFirst' BY <1>1, <1>2, <1>5 DEF Kept, SeenFirst, Face
<1>7. InStore'
  <2>1. CASE body = "unstarted" BY <1>1, <1>2, <1>5, <2>1 DEF InStore
  <2>2. CASE body # "unstarted"
    <3>1. ASSUME NEW k \in 1..Len(stored), StoredEvent(k) PROVE StoredEvent(k)'
      BY <1>1, <1>2, <3>1 DEF StoredEvent
    <3> QED BY <1>1, <2>2, <3>1 DEF Kept, InStore
  <2> QED BY <2>1, <2>2
<1> QED BY <1>3, <1>4, <1>6, <1>7 DEF Kept

\* The plugin's answer is stored, then given to the consumer.
LEMMA KeptEarlyExit ==
  ASSUME IInv, Tally, Kept, AppendEarlyExit
  PROVE  Kept'
<1>1. at = "exit" /\ body = "unstarted" /\ outcome = "none" /\ stored = << >> /\ seen = << >>
      /\ emitted = << >>
  BY DEF AppendEarlyExit, LeaveFrom, IInv, Stages, Tally, Kept, NoRoot, Before
<1>2. /\ stored' \in {<< >>, <<EarlyExit>>} /\ seen' \in {<< >>, stored'}
      /\ UNCHANGED <<emitted, greeted>> /\ ~Before'
  BY <1>1 DEF AppendEarlyExit, LeaveFrom, Leave, Before, logVars
<1>3. body' = "unstarted"
  BY <1>1 DEF AppendEarlyExit, LeaveFrom, Leave
<1>4. greeted BY <1>1 DEF Kept, Greeting
<1> QED BY <1>1, <1>2, <1>3, <1>4 DEF Kept, Greeting, Numbered, NoRoot, SeenFirst, InStore

\* A new event of the stream leaves the others where they were.
LEMMA KeptNewEvent ==
  ASSUME IInv, Tally, Kept, body # "unstarted", UNCHANGED <<seen, stored, greeted, body>>,
         NEW partial \in BOOLEAN, NEW val \in Nat,
         emitted' \in {emitted, Append(emitted, NewEvent(partial, val))},
         outcome' = "none" => outcome = "none" /\ at \notin {"lookup", "greet", "store"},
         ~Before'
  PROVE  Kept'
<1> DEFINE e == NewEvent(partial, val)
<1>0. emitted \in Seq(Event) BY DEF IInv, TypeOK
<1>1. e \in Event /\ e.id = Len(emitted) + 1 BY <1>0 DEF NewEvent, Event
<1> HIDE DEF e
<1>2. emitted' \in {emitted, Append(emitted, e)} BY DEF e
<1>3. /\ Len(emitted') \in {Len(emitted), Len(emitted) + 1} /\ Len(emitted) \in Nat
      /\ \A i \in 1..Len(emitted) : emitted'[i] = emitted[i]
      /\ Len(emitted') = Len(emitted) + 1 => emitted'[Len(emitted) + 1].id = Len(emitted) + 1
  BY <1>0, <1>1, <1>2
<1>4. Greeting' BY DEF Kept, Greeting
<1>5. Numbered'
  <2>1. ASSUME NEW i \in 1..Len(emitted') PROVE emitted'[i].id = i
    <3>1. i \in 1..Len(emitted) \/ (i = Len(emitted) + 1 /\ Len(emitted') = Len(emitted) + 1)
      BY <1>3
    <3> QED BY <1>3, <3>1 DEF Kept, Numbered
  <2> QED BY <2>1 DEF Numbered
<1>6. NoRoot' BY DEF Kept, NoRoot
<1>7. Len(seen) \in Nat BY DEF IInv, TypeOK
<1>8. SeenFirst'
  <2>1. Len(seen') <= Len(emitted') BY <1>3, <1>7 DEF Kept, SeenFirst
  <2>2. ASSUME NEW i \in 1..Len(seen) PROVE Face(seen, i)' = Face(emitted, i)'
    <3>1. i \in 1..Len(emitted) BY <1>3, <1>7 DEF Kept, SeenFirst
    <3> QED BY <1>3, <3>1 DEF Kept, SeenFirst, Face
  <2> QED BY <2>1, <2>2 DEF SeenFirst
<1>9. InStore'
  <2>1. ASSUME NEW k \in 1..Len(stored) PROVE StoredEvent(k)'
    <3> DEFINE n == stored[k].id
    <3>1. StoredEvent(k) BY DEF Kept, InStore
    <3>2. n \in 1..Len(emitted) /\ emitted'[n] = emitted[n] BY <1>3, <3>1 DEF StoredEvent
    <3> QED BY <1>3, <3>1, <3>2 DEF StoredEvent
  <2> QED BY <2>1 DEF Kept, InStore
<1> QED BY <1>4, <1>5, <1>6, <1>8, <1>9 DEF Kept

LEMMA KeptStreamStep ==
  ASSUME IInv, Tally, Kept, Drain \/ \E partial, carries \in BOOLEAN : Say(partial, carries)
  PROVE  Kept'
<1>1. CASE Drain
  <2>1. at = "drained" /\ body # "unstarted" BY <1>1 DEF Drain, IInv, Stages
  <2>2. /\ UNCHANGED <<seen, stored, greeted, body>>
        /\ emitted' \in {emitted, Append(emitted, NewEvent(FALSE, output))}
        /\ outcome' = "none" => outcome = "none"
        /\ ~Before'
    BY <1>1, <2>1 DEF Drain, Leave, logVars, Before, IInv, Stages
  <2>3. output \in Nat BY DEF IInv, TypeOK
  <2> QED BY <2>1, <2>2, <2>3, KeptNewEvent
<1>2. ASSUME NEW partial \in BOOLEAN, NEW carries \in BOOLEAN, Say(partial, carries)
      PROVE  Kept'
  <2> DEFINE val == IF carries THEN Len(emitted) + 1 ELSE 0
  <2>0. val \in Nat BY DEF IInv, TypeOK
  <2>1. body = "running" /\ at \notin {"lookup", "greet", "store", "before", "exit"}
    BY <1>2 DEF Say, Moves, IInv, Stages
  <2>2. /\ UNCHANGED <<seen, stored, greeted, body, outcome>>
        /\ emitted' \in {emitted, Append(emitted, NewEvent(partial, val))}
        /\ ~Before'
    BY <1>2, <2>1 DEF Say, Push, logVars, Before
  <2> HIDE DEF val
  <2> QED BY <2>0, <2>1, <2>2, KeptNewEvent
<1> QED BY <1>1, <1>2

\* The event in hand is stored unless it is partial, then given to the consumer.
LEMMA KeptPersist ==
  ASSUME IInv, Tally, InOrder, Kept, Persist
  PROVE  Kept'
<1>0. /\ seen \in Seq(Event) /\ stored \in Seq(Event) /\ hand \in Seq(Event)
      /\ emitted \in Seq(Event)
  BY DEF IInv, TypeOK
<1>1. /\ at = "persist" /\ outcome = "none" /\ body # "unstarted" /\ Len(hand) = 1
      /\ greeted /\ Aligned /\ hand # << >>
  BY DEF Persist, LeaveFrom, IInv, Stages, OneInHand, Tally, Kept, Greeting, InOrder
<1> DEFINE h == hand[1]
<1>2. h \in Event /\ hand = <<h>> /\ h = Head(hand) BY <1>0, <1>1
<1>3. Len(seen) \in Nat /\ Len(stored) \in Nat /\ Len(emitted) \in Nat BY <1>0
<1>4. Len(seen) + 1 \in 1..Len(emitted)
  <2>1. Len(queue) \in Nat BY DEF IInv, TypeOK
  <2>2. Len(seen) + 1 + Len(queue) = Len(emitted) BY <1>1 DEF Tally
  <2> QED BY <1>3, <2>1, <2>2
<1>5. Look(h) = Look(emitted[Len(seen) + 1]) BY <1>1 DEF Aligned, Face
<1>6. h.id = Len(seen) + 1 /\ h.partial = emitted[Len(seen) + 1].partial
  BY <1>4, <1>5 DEF Look, Kept, Numbered
<1>7. UNCHANGED <<greeted, emitted>> /\ ~Before'
  BY <1>1 DEF Persist, LeaveFrom, Leave, Before, logVars
<1>8. Greeting' /\ Numbered' BY <1>1, <1>7 DEF Greeting, Kept, Numbered
<1>9. body' # "unstarted" BY <1>1 DEF Persist, LeaveFrom, Leave
<1>10. NoRoot' BY <1>7, <1>9 DEF NoRoot
<1> HIDE DEF h
\* The session after the step, and the consumer's events.
<1>11. \/ /\ UNCHANGED <<seen, stored>> /\ outcome' # "none"
       \/ /\ stored' = IF h.partial THEN stored ELSE stored \o hand
          /\ \/ seen' = seen /\ outcome' # "none"
             \/ seen' = seen \o hand /\ outcome' = "none"
  BY <1>1, <1>2 DEF Persist, LeaveFrom, Leave, logVars
<1>12. /\ Len(seen \o hand) = Len(seen) + 1
       /\ \A i \in 1..Len(seen) : (seen \o hand)[i] = seen[i]
       /\ (seen \o hand)[Len(seen) + 1] = h
  BY <1>0, <1>2, <1>3
<1>13. /\ Len(stored \o hand) = Len(stored) + 1
       /\ \A i \in 1..Len(stored) : (stored \o hand)[i] = stored[i]
       /\ (stored \o hand)[Len(stored) + 1] = h
  BY <1>0, <1>2, <1>3
<1>14. CASE UNCHANGED <<seen, stored>>
  <2>1. outcome' # "none" \/ outcome' = outcome BY <1>1
  <2>2. SeenFirst' BY <1>1, <1>7, <1>14 DEF Kept, SeenFirst, Face
  <2>3. \A k \in 1..Len(stored) : StoredEvent(k) => StoredEvent(k)'
    BY <1>7, <1>14, <2>1 DEF StoredEvent
  <2>4. InStore' BY <1>1, <1>14, <2>3 DEF Kept, InStore
  <2> QED BY <1>8, <1>10, <2>2, <2>4 DEF Kept
<1>15. CASE /\ \/ h.partial /\ stored' = stored
               \/ ~h.partial /\ stored' = stored \o hand
            /\ \/ seen' = seen /\ outcome' # "none"
               \/ seen' = seen \o hand
  <2>1. /\ Len(seen') \in {Len(seen), Len(seen) + 1}
        /\ outcome' = "none" => Len(seen') = Len(seen) + 1
        /\ Len(seen') = Len(seen) + 1 => seen'[Len(seen) + 1] = h
        /\ \A i \in 1..Len(seen) : seen'[i] = seen[i]
    BY <1>3, <1>12, <1>15
  <2>2. /\ Len(stored') \in {Len(stored), Len(stored) + 1}
        /\ Len(stored') = Len(stored) + 1 => stored'[Len(stored) + 1] = h /\ ~h.partial
        /\ ~h.partial => Len(stored') = Len(stored) + 1
        /\ \A k \in 1..Len(stored) : stored'[k] = stored[k]
    BY <1>3, <1>13, <1>15
  <2>3. SeenFirst'
    <3>1. Len(seen') <= Len(emitted) BY <1>3, <1>4, <2>1
    <3>2. ASSUME NEW i \in 1..Len(seen') PROVE Face(seen, i)' = Face(emitted, i)
      <4>1. CASE i \in 1..Len(seen) BY <1>1, <2>1, <4>1 DEF Kept, SeenFirst, Face
      <4>2. CASE i = Len(seen) + 1 /\ Len(seen') = Len(seen) + 1
        BY <1>5, <2>1, <4>2 DEF Face
      <4> QED BY <1>3, <2>1, <4>1, <4>2
    <3> QED BY <1>7, <3>1, <3>2 DEF SeenFirst, Face
  <2>4. ASSUME NEW k \in 1..Len(stored)
        PROVE  StoredEvent(k)' /\ stored[k].id \in 1..Len(seen) /\ stored[k].id = stored'[k].id
    <3> DEFINE n == stored[k].id
    <3>1. /\ n \in 1..Len(emitted) /\ ~emitted[n].partial
          /\ n <= Len(seen) /\ stored[k] = seen[n]
      BY <1>1 DEF Kept, InStore, StoredEvent
    <3>2. n \in 1..Len(seen) BY <1>3, <3>1
    <3>3. stored'[k] = stored[k] /\ seen'[n] = seen[n] BY <2>1, <2>2, <3>2
    <3>4. n <= Len(seen') + 1 /\ n <= Len(seen') BY <1>3, <2>1, <3>2
    <3> QED BY <1>7, <3>1, <3>2, <3>3, <3>4 DEF StoredEvent
  <2>5. ASSUME NEW k, k = Len(stored) + 1, Len(stored') = Len(stored) + 1
        PROVE  StoredEvent(k)'
    <3>1. stored'[k] = h /\ ~h.partial BY <2>2, <2>5
    <3>2. Len(seen) + 1 <= Len(seen') + 1 BY <1>3, <2>1
    <3>3. /\ outcome' = "none" => Len(seen) + 1 <= Len(seen')
          /\ Len(seen) + 1 <= Len(seen') => seen'[Len(seen) + 1] = h
      BY <1>3, <2>1
    <3>4. ~emitted'[Len(seen) + 1].partial /\ Len(seen) + 1 \in 1..Len(emitted')
      BY <1>4, <1>6, <1>7, <3>1
    <3> QED BY <1>6, <3>1, <3>2, <3>3, <3>4 DEF StoredEvent
  <2>6. ASSUME NEW k \in 1..Len(stored')
        PROVE  k \in 1..Len(stored) \/ (k = Len(stored) + 1 /\ Len(stored') = Len(stored) + 1)
    BY <1>3, <2>2
  <2>7. \A k \in 1..Len(stored') : StoredEvent(k)' 
    <3> SUFFICES ASSUME NEW k \in 1..Len(stored') PROVE StoredEvent(k)'
      OBVIOUS
    <3>1. CASE k \in 1..Len(stored) BY <2>4, <3>1
    <3>2. CASE k = Len(stored) + 1 /\ Len(stored') = Len(stored) + 1
      BY <2>5, <3>2
    <3> QED BY <2>6, <3>1, <3>2
  <2>8. ASSUME NEW i \in 1..Len(stored'), NEW j \in 1..Len(stored'), i < j
        PROVE  stored'[i].id < stored'[j].id
    <3>1. i \in 1..Len(stored) BY <1>3, <2>2, <2>8
    <3>2. CASE j \in 1..Len(stored)
      <4>1. stored[i].id < stored[j].id BY <1>1, <2>8, <3>1, <3>2 DEF Kept, InStore
      <4> QED BY <2>4, <3>1, <3>2, <4>1
    <3>3. CASE j = Len(stored) + 1 /\ Len(stored') = Len(stored) + 1
      <4>1. stored'[j].id = Len(seen) + 1 BY <1>6, <2>2, <3>3
      <4>2. stored'[i].id \in 1..Len(seen) BY <2>4, <3>1
      <4> QED BY <1>3, <4>1, <4>2
    <3> QED BY <2>6, <3>2, <3>3
  <2>9. ASSUME NEW i \in 1..Len(seen'), ~seen'[i].partial
        PROVE  \E k \in 1..Len(stored') : stored'[k] = seen'[i]
    <3>1. CASE i \in 1..Len(seen)
      <4>1. seen'[i] = seen[i] BY <2>1, <3>1
      <4>2. PICK k \in 1..Len(stored) : stored[k] = seen[i]
        BY <1>1, <2>9, <3>1, <4>1 DEF Kept, InStore
      <4>3. k \in 1..Len(stored') /\ stored'[k] = stored[k] BY <1>3, <2>2
      <4> QED BY <4>1, <4>2, <4>3
    <3>2. CASE i = Len(seen) + 1 /\ Len(seen') = Len(seen) + 1
      <4>1. seen'[i] = h BY <2>1, <3>2
      <4>2. Len(stored) + 1 \in 1..Len(stored') /\ stored'[Len(stored) + 1] = h
        BY <1>3, <2>2, <2>9, <4>1
      <4> QED BY <4>1, <4>2
    <3> QED BY <1>3, <2>1, <3>1, <3>2
  <2>10. InStore' BY <2>7, <2>8, <2>9 DEF InStore
  <2> QED BY <1>8, <1>10, <2>3, <2>10 DEF Kept
<1> QED BY <1>11, <1>14, <1>15

LEMMA KeptHolds == Spec => []Kept
<1>1. ASSUME Init PROVE Kept
  <2>1. 1..Len(emitted) = {} BY <1>1 DEF Init
  <2> QED BY <1>1, <2>1 DEF Init, Kept, Greeting, Numbered, NoRoot, SeenFirst, InStore
<1>2. IInv /\ Tally /\ InOrder /\ Kept /\ [Next]_vars => Kept'
  BY KeptQuietStep, KeptEarlyExit, KeptStreamStep, KeptPersist
     DEF Next, Runner, Root, Caller, Ended
<1> QED BY <1>1, <1>2, Invariant, TallyHolds, OrderHolds, PTL DEF Spec

\* The consumer is never ahead of the session, nor the session of the root:
\* what was seen was stored before, after the user's message, in the order the
\* root emitted it and without a gap.
THEOREM StoreIsAhead == Spec => []SeenIsStoredIsEmitted
<1>1. ASSUME IInv, Tally, Kept PROVE SeenIsStoredIsEmitted
  <2>1. /\ seen \in Seq(Event) /\ stored \in Seq(Event) /\ emitted \in Seq(Event)
        /\ DOMAIN seen = 1..Len(seen) /\ DOMAIN stored = 1..Len(stored)
        /\ DOMAIN emitted = 1..Len(emitted)
        /\ Len(seen) \in Nat /\ Len(stored) \in Nat /\ Len(emitted) \in Nat
    BY <1>1 DEF IInv, TypeOK
  <2>2. CASE body = "unstarted"
    <3>1. stored \in {<< >>, <<EarlyExit>>} /\ seen \in {<< >>, stored}
      BY <1>1, <2>2 DEF Kept, NoRoot
    <3>2. Rising(seen) /\ Rising(stored) BY <3>1 DEF Rising
    <3>3. StoredIsEmitted BY <3>1 DEF StoredIsEmitted, EarlyExit
    <3>4. SeenIsStored BY <3>1 DEF SeenIsStored, Range
    <3> QED BY <1>1, <3>2, <3>3, <3>4 DEF SeenIsStoredIsEmitted, Kept, Greeting
  <2>3. CASE body # "unstarted"
    <3>1. \A i \in 1..Len(seen) : /\ i \in 1..Len(emitted) /\ seen[i].id = i
                                  /\ seen[i].partial = emitted[i].partial
      <4>1. ASSUME NEW i \in 1..Len(seen)
            PROVE  i \in 1..Len(emitted) /\ Look(seen[i]) = Look(emitted[i])
        BY <1>1, <2>1, <2>3 DEF Kept, SeenFirst, Face
      <4> QED BY <1>1, <4>1 DEF Look, Kept, Numbered
    <3>2. Rising(seen) BY <2>1, <3>1 DEF Rising
    <3>3. Rising(stored) BY <1>1, <2>1, <2>3 DEF Rising, Kept, InStore
    <3>4. \A k \in 1..Len(stored) : StoredEvent(k) BY <1>1, <2>3 DEF Kept, InStore
    <3>5. ASSUME NEW i \in 1..Len(seen), ~seen[i].partial
          PROVE  \E k \in 1..Len(stored) : stored[k] = seen[i]
      BY <1>1, <2>3, <3>5 DEF Kept, InStore
    <3>6. SeenIsStored
      <4>1. ASSUME NEW i \in 1..Len(seen), NEW k \in 1..Len(stored), stored[k].id < seen[i].id
            PROVE  stored[k] \in Range(seen)
        <5>1. stored[k].id \in 1..Len(seen) BY <2>1, <3>1, <3>4, <4>1 DEF StoredEvent
        <5>2. stored[k] = seen[stored[k].id] BY <3>4, <5>1 DEF StoredEvent
        <5> QED BY <2>1, <5>1, <5>2 DEF Range
      <4>2. ASSUME NEW i \in 1..Len(seen), ~seen[i].partial
            PROVE  seen[i] \in Range(stored)
        BY <2>1, <3>5, <4>2 DEF Range
      <4> QED BY <2>1, <4>1, <4>2 DEF SeenIsStored
    <3>7. StoredIsEmitted
      <4>1. ASSUME NEW k \in 1..Len(stored), NEW m \in 1..(stored[k].id - 1),
                   ~emitted[m].partial
            PROVE  \E l \in 1..Len(stored) : stored[l].id = m
        <5>1. m \in 1..Len(seen) BY <2>1, <3>4 DEF StoredEvent
        <5>2. PICK l \in 1..Len(stored) : stored[l] = seen[m] BY <3>1, <3>5, <4>1, <5>1
        <5> QED BY <3>1, <5>1, <5>2
      <4>2. \A k \in 1..Len(stored) : stored[k].id \in 1..Len(emitted)
                                       /\ ~emitted[stored[k].id].partial
        BY <3>4 DEF StoredEvent
      <4> QED BY <2>1, <4>1, <4>2 DEF StoredIsEmitted
    <3> QED BY <1>1, <3>2, <3>3, <3>6, <3>7 DEF SeenIsStoredIsEmitted, Kept, Greeting
  <2> QED BY <2>2, <2>3
<1> QED BY <1>1, Invariant, TallyHolds, KeptHolds, PTL
=============================================================================
