------------------------------ MODULE LiveFlow ------------------------------
(***************************************************************************)
(* The bidirectional flow of an LlmAgent: the queue the caller feeds       *)
(* (LiveRequestQueue), the send loop and the receive loop that share one   *)
(* connection, reconnecting with a resumption handle, and the transfer     *)
(* that runs another agent's flow inside the receive loop.                 *)
(*                                                                         *)
(* A step runs from one await to the next.  Flows are nested: flow d + 1   *)
(* is the one flow d transferred to, and only the innermost one moves.  A  *)
(* connection keeps what happened to it after it is gone; a handle is      *)
(* named by the connection that issued it.  The messages of a connection   *)
(* are chosen when they are received, so they may outlive its end, as the  *)
(* messages buffered in an AsyncQueue do.  Content that neither calls a    *)
(* tool nor carries a handle passes through without changing this state.   *)
(***************************************************************************)
EXTENDS Naturals, SequencesExt

CONSTANTS
  MaxRequests,     \* bound: requests the caller sends
  MaxMessages,     \* bound: messages the servers send
  MaxConnections,  \* bound: connections that are opened
  MaxDepth,        \* bound: nested flows
  MaxAttempts      \* MAX_LIVE_RECONNECT_ATTEMPTS

ASSUME LiveAssumption ==
  /\ MaxRequests \in Nat /\ MaxMessages \in Nat /\ MaxConnections \in Nat
  /\ MaxDepth \in Nat /\ MaxAttempts \in Nat

VARIABLES
  next,     \* the request the caller sends next
  queue,    \* LiveRequestQueue.queue
  taken,    \* the requests given to a send loop, in order
  shut,     \* LiveRequestQueue.isClosed
  waiters,  \* resolveFnFifoQueue: the connections whose send loop is parked
  conns,    \* every connection opened so far
  flows,    \* the flow of the runner's agent and those nested in it
  budget,   \* messages the servers may still send
  aborted,  \* the caller's abort signal
  gone      \* the consumer stopped pulling and closed the generators

queueVars == <<next, queue, taken, shut, waiters>>
vars == <<queueVars, conns, flows, budget, aborted, gone>>

Kinds == {"recoverable", "fatal"}   \* of errors: isRecoverableLiveError
Nobody == 0                         \* a send loop holds no request
Close == MaxRequests + 1            \* the request {close: true}

\* A connection is opened by a flow and resumes a handle or is sent the history;
\* then it gets its own send loop and abort controller (`cut').
NewConnection(flow, resume, loop) ==
  [flow |-> flow, resume |-> resume, issued |-> FALSE, open |-> TRUE, ended |-> "no",
   cut |-> FALSE, loop |-> loop, hand |-> Nobody, failed |-> "no"]

\* The local variables of runLiveFlow; a nested flow is named by the connection
\* that transferred to it.
NewFlow(id, handle) ==
  [id |-> id, at |-> "connect", conn |-> 0, handle |-> handle, tries |-> 0, why |-> "return"]

Depth == Len(flows)
Top == flows[Depth]
Current == Top.conn
Live(c) == conns[c].open /\ conns[c].ended = "no"
Over == Depth = 1 /\ Top.at \in {"done", "failed"}

Conn ==
  [flow : Nat, resume : Nat, issued : BOOLEAN, open : BOOLEAN,
   ended : {"no", "closed"} \union Kinds, cut : BOOLEAN,
   loop : {"off", "top", "parked", "got", "done"}, hand : Nat, failed : {"no"} \union Kinds]
FlowState ==
  [id : Nat, at : {"connect", "history", "receive", "tool", "leaving", "nested",
                   "teardown", "settling", "done", "failed"},
   conn : Nat, handle : Nat, tries : Nat, why : {"return", "reconnect"} \union Kinds]

TypeOK ==
  /\ next \in Nat /\ queue \in Seq(Nat) /\ taken \in Seq(Nat) /\ shut \in BOOLEAN
  /\ waiters \in Seq(Nat) /\ budget \in Nat /\ aborted \in BOOLEAN /\ gone \in BOOLEAN
  /\ conns \in Seq(Conn) /\ flows \in Seq(FlowState) /\ flows # << >>

Init ==
  /\ next = 1 /\ queue = << >> /\ taken = << >> /\ shut = FALSE /\ waiters = << >>
  /\ conns = << >> /\ flows = <<NewFlow(0, 0)>>
  /\ budget = MaxMessages /\ aborted = FALSE /\ gone = FALSE

---------------------------------------------------------------------------
(* The caller and the queue                                                *)

Given(cs, c, r) == [cs EXCEPT ![c].loop = "got", ![c].hand = r]

\* LiveRequestQueue.send: to the first parked read, else into the buffer.
SendRequest ==
  /\ ~shut /\ next <= MaxRequests
  /\ next' = next + 1
  /\ IF waiters # << >>
     THEN /\ conns' = Given(conns, Head(waiters), next)
          /\ waiters' = Tail(waiters)
          /\ taken' = Append(taken, next) /\ UNCHANGED queue
     ELSE queue' = Append(queue, next) /\ UNCHANGED <<conns, waiters, taken>>
  /\ UNCHANGED <<shut, flows, budget, aborted, gone>>

\* LiveRequestQueue.close: a read is parked on an empty buffer only, so the
\* parked reads all get the close request.
CloseQueue ==
  /\ ~shut
  /\ shut' = TRUE
  /\ conns' = [c \in DOMAIN conns |->
       IF Contains(waiters, c)
       THEN [conns[c] EXCEPT !.loop = "got", !.hand = Close] ELSE conns[c]]
  /\ waiters' = << >>
  /\ UNCHANGED <<next, queue, taken, flows, budget, aborted, gone>>

\* Mutant of Withdrawn: the abort leaves the parked read in the queue.
StillParked(c) == waiters

\* The abort listener of a parked read takes it out of the queue ...
Withdrawn(c) ==
  IF \E i \in DOMAIN waiters : waiters[i] = c
  THEN RemoveAt(waiters, CHOOSE i \in DOMAIN waiters : waiters[i] = c)
  ELSE waiters

\* ... and its send loop, rejected, returns.
Cut(c) ==
  [conns EXCEPT ![c].cut = TRUE, ![c].open = FALSE,
                ![c].loop = IF @ = "parked" THEN "done" ELSE @]

\* The caller's signal is one of each send loop's two: all parked reads end.
\* The connections stay open.
Abort ==
  /\ ~aborted /\ ~gone
  /\ aborted' = TRUE /\ waiters' = << >>
  /\ conns' = [c \in DOMAIN conns |->
       IF conns[c].loop = "parked" THEN [conns[c] EXCEPT !.loop = "done"] ELSE conns[c]]
  /\ UNCHANGED <<next, queue, taken, shut, flows, budget, gone>>

---------------------------------------------------------------------------
(* The send loop of connection c                                           *)

Stopped(c) == conns[c].cut \/ aborted

StopSending(c) ==
  /\ conns[c].loop = "top" /\ Stopped(c)
  /\ conns' = [conns EXCEPT ![c].loop = "done"]
  /\ UNCHANGED <<queueVars, flows, budget, aborted, gone>>

\* LiveRequestQueue.get of a buffered request.
TakeRequest(c) ==
  /\ conns[c].loop = "top" /\ ~Stopped(c) /\ queue # << >>
  /\ conns' = Given(conns, c, Head(queue))
  /\ queue' = Tail(queue) /\ taken' = Append(taken, Head(queue))
  /\ UNCHANGED <<next, shut, waiters, flows, budget, aborted, gone>>

\* Mutant of NothingLeft: a closed queue answers with the close request at once.
ClosedQueueIsEmpty == queue = << >> \/ shut

\* The buffer is looked at before isClosed.
NothingLeft == queue = << >>

\* Mutant of TakeClose: a read of a closed and empty queue waits.
TakeCloseNever(c) == FALSE /\ UNCHANGED vars

TakeClose(c) ==
  /\ conns[c].loop = "top" /\ ~Stopped(c) /\ NothingLeft /\ shut
  /\ conns' = Given(conns, c, Close)
  /\ UNCHANGED <<queueVars, flows, budget, aborted, gone>>

Park(c) ==
  /\ conns[c].loop = "top" /\ ~Stopped(c) /\ queue = << >> /\ ~shut
  /\ conns' = [conns EXCEPT ![c].loop = "parked"]
  /\ waiters' = Append(waiters, c)
  /\ UNCHANGED <<next, queue, taken, shut, flows, budget, aborted, gone>>

\* dispatchLiveRequest: a request goes out, or into a socket that is closed.
Dispatch(c) ==
  /\ conns[c].loop = "got" /\ conns[c].hand # Close
  /\ conns' = [conns EXCEPT ![c].loop = "top", ![c].hand = Nobody]
  /\ UNCHANGED <<queueVars, flows, budget, aborted, gone>>

DispatchClose(c) ==
  /\ conns[c].loop = "got" /\ conns[c].hand = Close
  /\ conns' = [conns EXCEPT ![c].loop = "done", ![c].hand = Nobody, ![c].open = FALSE]
  /\ UNCHANGED <<queueVars, flows, budget, aborted, gone>>

\* Sending may also throw, on a connection that is gone or for what is sent:
\* quietly after a teardown, else the failure cuts the connection and is kept
\* for runLiveFlow.
DispatchFails(c) ==
  /\ conns[c].loop = "got" /\ conns[c].hand # Close
  /\ \/ /\ Stopped(c)
        /\ conns' = [conns EXCEPT ![c].loop = "done", ![c].hand = Nobody]
     \/ /\ ~Stopped(c)
        /\ \E kind \in Kinds :
             conns' = [conns EXCEPT ![c].loop = "done", ![c].hand = Nobody,
                                    ![c].failed = kind, ![c].cut = TRUE, ![c].open = FALSE]
  /\ UNCHANGED <<queueVars, flows, budget, aborted, gone>>

\* The server's side of a connection ends, by itself or because this side closed;
\* once the flow is done with a connection nobody notices its end.
ServerEnds(c) ==
  /\ conns[c].ended = "no" /\ c = Current /\ Top.at \in {"history", "receive", "tool"}
  /\ \E how \in IF conns[c].open THEN {"closed"} \union Kinds ELSE {"closed"} :
       conns' = [conns EXCEPT ![c].ended = how]
  /\ UNCHANGED <<queueVars, flows, budget, aborted, gone>>

---------------------------------------------------------------------------
(* runLiveFlow and runReceiveLoop of the innermost flow                    *)

At(place) == ~gone /\ Top.at = place
SetTop(f) == flows' = [flows EXCEPT ![Depth] = f]
Go(place, why) == SetTop([Top EXCEPT !.at = place, !.why = why])

\* What the flow does with an error of its receive loop.
CanReconnect(f, kind) == f.handle # 0 /\ kind = "recoverable"

\* Mutant of Thrown: an error that is not recovered is rethrown without teardown.
ThrownAtOnce(f, kind) ==
  IF CanReconnect(f, kind) THEN [f EXCEPT !.at = "teardown", !.why = "reconnect"]
  ELSE [f EXCEPT !.at = "failed", !.why = kind]

Thrown(f, kind) ==
  [f EXCEPT !.at = "teardown", !.why = IF CanReconnect(f, kind) THEN "reconnect" ELSE kind]

NotConnected ==
  /\ At("connect") /\ aborted
  /\ Go("done", "return")
  /\ UNCHANGED <<queueVars, conns, budget, aborted, gone>>

\* A session that is not resumed is sent the history, if there is any.
Connect ==
  /\ At("connect") /\ ~aborted /\ Len(conns) < MaxConnections
  /\ \E hasContents \in BOOLEAN :
       LET replays == hasContents /\ Top.handle = 0
       IN /\ conns' = Append(conns, NewConnection(Top.id, Top.handle,
                                                 IF replays THEN "off" ELSE "top"))
          /\ SetTop([Top EXCEPT !.at = IF replays THEN "history" ELSE "receive",
                                !.conn = Len(conns) + 1])
  /\ UNCHANGED <<queueVars, budget, aborted, gone>>

\* The send loop starts once the history is sent.
SendHistory ==
  /\ At("history")
  /\ conns' = [conns EXCEPT ![Current].loop = "top"]
  /\ Go("receive", "return")
  /\ UNCHANGED <<queueVars, budget, aborted, gone>>

\* sendHistory is awaited outside every try: its error leaves runLiveFlow at
\* once, and nothing closes the connection.
HistoryFails ==
  /\ At("history")
  /\ \E kind \in Kinds : Go("failed", kind)
  /\ UNCHANGED <<queueVars, conns, budget, aborted, gone>>

ConnectFails ==
  /\ At("connect") /\ ~aborted
  /\ \E kind \in Kinds :
       IF CanReconnect(Top, kind) /\ Top.tries < MaxAttempts
       THEN SetTop([Top EXCEPT !.tries = @ + 1])
       ELSE Go("failed", kind)
  /\ UNCHANGED <<queueVars, conns, budget, aborted, gone>>

\* A message that arrives after an abort ends the receive loop unread.
ReceiveTooLate ==
  /\ At("receive") /\ budget > 0 /\ Stopped(Current)
  /\ Go("teardown", "return") /\ budget' = budget - 1
  /\ UNCHANGED <<queueVars, conns, aborted, gone>>

Receives == At("receive") /\ budget > 0 /\ ~Stopped(Current) /\ budget' = budget - 1

ReceiveHandle ==
  /\ Receives
  /\ SetTop([Top EXCEPT !.handle = Current])
  /\ conns' = [conns EXCEPT ![Current].issued = TRUE]
  /\ UNCHANGED <<queueVars, aborted, gone>>

\* goAway throws LiveReconnectSignal, which counts as recoverable.
ReceiveGoAway ==
  /\ Receives
  /\ SetTop(Thrown(Top, "recoverable"))
  /\ UNCHANGED <<queueVars, conns, aborted, gone>>

ReceiveCall ==
  /\ Receives
  /\ Go("tool", "return")
  /\ UNCHANGED <<queueVars, conns, aborted, gone>>

ReceiveEnd ==
  /\ At("receive") /\ conns[Current].ended # "no"
  /\ IF conns[Current].ended = "closed" THEN Go("teardown", "return")
     ELSE SetTop(Thrown(Top, conns[Current].ended))
  /\ UNCHANGED <<queueVars, conns, budget, aborted, gone>>

\* The tool has run and its response is sent on the connection: the model goes
\* on, the task was completed, or another agent takes over.
ToolAnswered ==
  /\ At("tool")
  /\ \/ Go("receive", "return")
     \/ Go("teardown", "return")
     \/ Depth < MaxDepth /\ Go("leaving", "return")
  /\ UNCHANGED <<queueVars, conns, budget, aborted, gone>>

ToolAnswerFails ==
  /\ At("tool") /\ ~Live(Current)
  /\ \E kind \in Kinds : SetTop(Thrown(Top, kind))
  /\ UNCHANGED <<queueVars, conns, budget, aborted, gone>>

\* Mutant of NestedHandle: the other agent resumes this agent's session.
InheritedHandle == Top.handle

\* The handle is cleared for the other agent and restored after it.
NestedHandle == 0

\* The other agent's flow starts once this connection is cut and closed; the
\* send loop, if it holds a request, is not waited for.
Transfer ==
  /\ At("leaving")
  /\ waiters' = Withdrawn(Current)
  /\ conns' = Cut(Current)
  /\ flows' = Append([flows EXCEPT ![Depth].at = "nested"], NewFlow(Current, NestedHandle))
  /\ UNCHANGED <<next, queue, taken, shut, budget, aborted, gone>>

\* An error of the other agent is one of this agent's receive loop.
NestedEnds ==
  /\ ~gone /\ Depth > 1 /\ Top.at \in {"done", "failed"}
  /\ LET outer == flows[Depth - 1]
         after == IF Top.at = "done" THEN [outer EXCEPT !.at = "teardown", !.why = "return"]
                  ELSE Thrown(outer, Top.why)
     IN flows' = Append(SubSeq(flows, 1, Depth - 2), after)
  /\ UNCHANGED <<queueVars, conns, budget, aborted, gone>>

\* teardownLiveConnection, up to the await of the send task ...
Teardown ==
  /\ At("teardown")
  /\ waiters' = Withdrawn(Current)
  /\ conns' = Cut(Current)
  /\ SetTop([Top EXCEPT !.at = "settling"])
  /\ UNCHANGED <<next, queue, taken, shut, budget, aborted, gone>>

Settled == At("settling") /\ conns[Current].loop = "done"

\* ... and what runLiveFlow does next, in its order.
After(f, c) ==
  IF f.why \in Kinds THEN [f EXCEPT !.at = "failed"]
  ELSE IF aborted THEN [f EXCEPT !.at = "done"]
  ELSE IF c.failed # "no" THEN [f EXCEPT !.at = "failed", !.why = c.failed]
  ELSE IF f.why = "return" THEN [f EXCEPT !.at = "done"]
  ELSE IF f.tries < MaxAttempts THEN [f EXCEPT !.at = "connect", !.tries = @ + 1]
  ELSE [f EXCEPT !.at = "failed", !.why = "fatal"]

Settle ==
  /\ Settled
  /\ SetTop(After(Top, conns[Current]))
  /\ UNCHANGED <<queueVars, conns, budget, aborted, gone>>

\* The consumer closes the generators at a yield: nothing tears down.
ConsumerStops ==
  /\ At("receive")
  /\ gone' = TRUE
  /\ UNCHANGED <<queueVars, conns, flows, budget, aborted>>

Rest == (Over \/ gone) /\ UNCHANGED vars

---------------------------------------------------------------------------

SendLoop(c) ==
  \/ StopSending(c) \/ TakeRequest(c) \/ TakeClose(c) \/ Park(c)
  \/ Dispatch(c) \/ DispatchClose(c) \/ DispatchFails(c)

Flow ==
  \/ NotConnected \/ Connect \/ ConnectFails \/ SendHistory \/ HistoryFails
  \/ ToolAnswered \/ ToolAnswerFails \/ Transfer \/ NestedEnds \/ Teardown \/ Settle

Server ==
  ReceiveTooLate \/ ReceiveHandle \/ ReceiveGoAway \/ ReceiveCall

Next ==
  \/ SendRequest \/ CloseQueue \/ Abort \/ ConsumerStops
  \/ \E c \in DOMAIN conns : SendLoop(c) \/ ServerEnds(c)
  \/ Server \/ ReceiveEnd \/ Flow \/ Rest

\* Callbacks and awaited promises run; a socket closed on this side ends; an end
\* is received.  Nothing says that a server ever sends, or ends by itself.
Fairness ==
  /\ WF_vars(Flow) /\ WF_vars(ReceiveEnd)
  /\ \A c \in 1..MaxConnections :
       /\ WF_vars(c \in DOMAIN conns /\ SendLoop(c))
       /\ WF_vars(c \in DOMAIN conns /\ ~conns[c].open /\ ServerEnds(c))

Spec == Init /\ [][Next]_vars
FairSpec == Spec /\ Fairness

---------------------------------------------------------------------------

\* The queue hands every request to one send loop, in order, over reconnects
\* and transfers alike, and none is left when a loop is told to close.
HandedOverInOrder ==
  /\ taken \o queue = [i \in 1..(next - 1) |-> i]
  /\ \A c \in DOMAIN conns : conns[c].hand = Close => shut /\ queue = << >>

\* A connection that was cut (reconnect, transfer, failure) takes no further
\* request: it would steal it from the connection that follows.
CutConnectionTakesNothing ==
  [][\A c \in DOMAIN conns : conns[c].cut => conns'[c].hand \in {conns[c].hand, Nobody}]_vars

\* A connection resumes the latest handle issued to its own flow, and only the
\* first connection of a flow does without: history is never replayed on top of
\* a resumed session, and no agent resumes another agent's session.
ResumesItsOwnSession ==
  \A c \in DOMAIN conns :
    LET earlier == {b \in 1..(c - 1) : conns[b].flow = conns[c].flow}
    IN IF conns[c].resume = 0 THEN earlier = {}
       ELSE /\ conns[c].resume \in earlier /\ conns[conns[c].resume].issued
            /\ \A b \in earlier : conns[b].issued => b <= conns[c].resume

\* Its history could not be sent, so it never got a send loop.
Abandoned(c) == conns[c].loop = "off"

\* When the flow has returned or thrown to a consumer that is still there, no
\* send loop is left reading the caller's queue, and every connection is closed
\* except those whose history could not be sent: runLiveFlow throws that error
\* without a teardown, and leaves them open.
NothingOutlivesTheFlow ==
  Over /\ ~gone =>
    /\ waiters = << >>
    /\ \A c \in DOMAIN conns :
         \/ ~conns[c].open /\ (conns[c].loop = "done" \/ conns[c].cut)
         \/ Abandoned(c)

\* Once the caller closed the queue, the flow ends, through whatever reconnects
\* and transfers are under way.
CloseEndsTheFlow == shut ~> (Over \/ gone \/ aborted)

\* Once the caller aborts, the flow ends: not so in this code, where nothing
\* wakes a receive loop whose server is silent.  No run checks it.
AbortEndsTheFlow == aborted ~> (Over \/ gone)
=============================================================================
