----------------------------- MODULE Invocation -----------------------------
(***************************************************************************)
(* One Runner.runAsync call: the generator the consumer pulls, the plugins *)
(* and the session store it awaits between two events, and the root that   *)
(* produces the events.  A root agent is a generator and moves only while  *)
(* the runner waits for it (`direct').  A root node runs on its own: it    *)
(* pushes its events into the AsyncQueue of runNodeAsInvocation, which the *)
(* runner drains.                                                          *)
(*                                                                         *)
(* Every action but the consumer's and the root's is one `await' of the    *)
(* runner: what it awaited has happened, the abort signal is looked at,    *)
(* and the next await begins.  An event is named by its position in the    *)
(* stream; an output is named by the event that first carried it.          *)
(***************************************************************************)
EXTENDS Naturals, SequencesExt

CONSTANT MaxEvents   \* bound: events the root emits

ASSUME InvocationAssumption == MaxEvents \in Nat

VARIABLES
  direct,   \* the root is an agent (fixed for the invocation)
  at,       \* what the runner awaits
  outcome,  \* why it returned or threw
  greeted,  \* the user's message is in the session
  stored,   \* this invocation's other events in the session
  seen,     \* events the consumer was given
  hand,     \* the event between the root and the consumer, if any
  body,     \* the root
  output,   \* root.output (0: undefined)
  emitted,  \* events the root emitted into an open stream
  queue,    \* the AsyncQueue: buffer, closed, failure
  closed,
  failed,
  aborted   \* the caller's abort signal

bodyVars  == <<body, output, emitted>>
queueVars == <<queue, closed, failed>>
logVars   == <<greeted, stored, seen>>
vars == <<direct, at, outcome, logVars, hand, bodyVars, queueVars, aborted>>

Event == [id : Nat, partial : BOOLEAN, val : Nat, touched : BOOLEAN]
NewEvent(partial, val) ==
  [id |-> Len(emitted) + 1, partial |-> partial, val |-> val, touched |-> FALSE]
EarlyExit == [id |-> 0, partial |-> FALSE, val |-> 0, touched |-> FALSE]

\* A reader is parked on an open and empty queue only.
TypeOK ==
  /\ direct \in BOOLEAN /\ greeted \in BOOLEAN /\ aborted \in BOOLEAN
  /\ at \in {"lookup", "greet", "store", "before", "exit", "pull", "parked", "drained",
             "event", "persist", "held", "after", "settling", "closing", "ended"}
  /\ outcome \in {"none", "done", "aborted", "stopped", "bodyError", "error"}
  /\ stored \in Seq(Event) /\ seen \in Seq(Event) /\ hand \in Seq(Event)
  /\ body \in {"unstarted", "running", "returned", "asked", "threw", "closed"}
  /\ output \in Nat /\ emitted \in Seq(Event)
  /\ queue \in Seq(Event) /\ closed \in BOOLEAN /\ failed \in BOOLEAN
  /\ at = "parked" => queue = << >> /\ ~closed

---------------------------------------------------------------------------
(* The root and its queue                                                  *)

\* An agent is suspended at its last yield until the runner asks for more.
Moves == body = "running" /\ (direct => at = "parked")

\* AsyncQueue.push: dropped once closed, else given to the waiting reader.
Push(e) ==
  /\ emitted' = IF closed THEN emitted ELSE Append(emitted, e)
  /\ IF at = "parked" /\ ~closed
     THEN hand' = <<e>> /\ at' = "event" /\ UNCHANGED queue
     ELSE /\ queue' = IF closed THEN queue ELSE Append(queue, e)
          /\ UNCHANGED <<hand, at>>

Say(partial, carries) ==
  /\ Moves /\ Len(emitted) < MaxEvents
  /\ carries => ~partial
  /\ Push(NewEvent(partial, IF carries THEN Len(emitted) + 1 ELSE 0))
  /\ UNCHANGED <<direct, outcome, logVars, body, output, closed, failed, aborted>>

\* Mutant of Wake: only a push wakes the reader.
WakeNobody == UNCHANGED at
Wake == at' = IF at = "parked" THEN "drained" ELSE at

\* The root node settles: close, or fail with its error.  Its output is the
\* one of an event it emitted, or a value no event carried.
Outputs == {0, Len(emitted) + 1} \cup {emitted[i].val : i \in DOMAIN emitted}
Return ==
  /\ Moves
  /\ body' \in {"returned", "asked"}
  /\ IF direct THEN output' = 0 ELSE output' \in Outputs
  /\ closed' = TRUE /\ Wake
  /\ UNCHANGED <<direct, outcome, logVars, hand, emitted, queue, failed, aborted>>
\* Mutant of Throw: the buffered events are thrown away.
ThrowAtOnce ==
  /\ Moves
  /\ body' = "threw"
  /\ closed' = TRUE /\ failed' = TRUE /\ queue' = << >> /\ Wake
  /\ UNCHANGED <<direct, outcome, logVars, hand, output, emitted, aborted>>
Throw ==
  /\ Moves
  /\ body' = "threw"
  /\ closed' = TRUE /\ failed' = TRUE /\ Wake
  /\ UNCHANGED <<direct, outcome, logVars, hand, output, emitted, queue, aborted>>

---------------------------------------------------------------------------
(* How the runner leaves                                                   *)

\* Mutant of Leave: the running node is not waited for.
LeaveAtOnce(why) ==
  /\ outcome' = why
  /\ at' = "closing"
  /\ closed' = (closed \/ (~direct /\ body # "unstarted"))
  /\ body' = IF direct /\ body = "running" THEN "closed" ELSE body

\* return or throw: a suspended agent is closed at its yield; of a node the
\* channel is closed and the node is waited for.
Leave(why) ==
  /\ outcome' = why
  /\ at' = IF direct \/ body = "unstarted" THEN "closing" ELSE "settling"
  /\ closed' = (closed \/ (~direct /\ body # "unstarted"))
  /\ body' = IF direct /\ body = "running" THEN "closed" ELSE body

\* An await of the runner is over: leave, or go on.
LeaveFrom(point, why) ==
  /\ at = point
  /\ Leave(why)
  /\ UNCHANGED <<direct, logVars, hand, output, emitted, queue, failed, aborted>>
GoOn(point, next) ==
  /\ at = point /\ ~aborted
  /\ at' = next
  /\ UNCHANGED <<direct, outcome, logVars, hand, bodyVars, queueVars, aborted>>

\* settle: the node has ended, whatever it threw is caught in settle.
SettleNode ==
  /\ at = "settling" /\ body # "running"
  /\ at' = "closing"
  /\ UNCHANGED <<direct, outcome, logVars, hand, bodyVars, queueVars, aborted>>

CloseToolsets ==
  /\ at = "closing"
  /\ at' = "ended"
  /\ UNCHANGED <<direct, outcome, logVars, hand, bodyVars, queueVars, aborted>>

---------------------------------------------------------------------------
(* Before the root runs                                                    *)

GetSession == GoOn("lookup", "greet") \/ LeaveFrom("lookup", "error")
OnUserMessage == GoOn("greet", "store") \/ LeaveFrom("greet", "error")

\* The append may fail; it may also be done when the abort is noticed.
AppendUserMessage ==
  \/ LeaveFrom("store", "error")
  \/ /\ at = "store"
     /\ greeted' = TRUE
     /\ IF aborted THEN Leave("aborted")
                   ELSE at' = "before" /\ UNCHANGED <<outcome, closed, body>>
     /\ UNCHANGED <<direct, stored, seen, hand, output, emitted, queue, failed, aborted>>

\* A plugin may answer in place of the root.
BeforeRun ==
  \/ GoOn("before", "exit")
  \/ /\ at = "before" /\ ~aborted
     /\ at' = "pull" /\ body' = "running"
     /\ UNCHANGED <<direct, outcome, logVars, hand, output, emitted, queueVars, aborted>>
  \/ LeaveFrom("before", "error")
AppendEarlyExit ==
  \/ LeaveFrom("exit", "error")
  \/ /\ at = "exit"
     /\ stored' = Append(stored, EarlyExit)
     /\ IF aborted THEN Leave("aborted") /\ UNCHANGED seen
        ELSE at' = "held" /\ seen' = Append(seen, EarlyExit)
             /\ UNCHANGED <<outcome, closed, body>>
     /\ UNCHANGED <<direct, greeted, hand, output, emitted, queue, failed, aborted>>

---------------------------------------------------------------------------
(* The event loop                                                          *)

\* channel.next(), or the agent's next().
TakeBuffered ==
  /\ at = "pull" /\ queue # << >>
  /\ hand' = <<Head(queue)>> /\ queue' = Tail(queue)
  /\ at' = "event"
  /\ UNCHANGED <<direct, outcome, logVars, bodyVars, closed, failed, aborted>>
Park ==
  /\ at = "pull" /\ queue = << >>
  /\ at' = IF closed THEN "drained" ELSE "parked"
  /\ UNCHANGED <<direct, outcome, logVars, hand, bodyVars, queueVars, aborted>>

\* Mutant of AlreadyLast: any output on the stream will do.
AnyOutput == \E i \in DOMAIN emitted : emitted[i].val # 0
\* The node's output was the last output on the stream.
AlreadyLast ==
  \E i \in DOMAIN emitted :
    /\ emitted[i].val = output
    /\ \A j \in DOMAIN emitted : j > i => emitted[j].val = 0

\* The output is announced unless the node asked or it is there already.
ToAnnounce == body # "asked" /\ output # 0 /\ ~AlreadyLast

\* The stream is over: rethrow, or announce the output, or finish.
Drain ==
  /\ at = "drained"
  /\ \/ /\ failed
        /\ Leave("bodyError")
        /\ UNCHANGED <<hand, emitted>>
     \/ /\ ~failed /\ ToAnnounce
        /\ hand' = <<NewEvent(FALSE, output)>>
        /\ emitted' = Append(emitted, NewEvent(FALSE, output))
        /\ at' = "event"
        /\ UNCHANGED <<outcome, closed, body>>
     \/ /\ ~failed /\ ~ToAnnounce
        /\ at' = "after"
        /\ UNCHANGED <<outcome, closed, body, hand, emitted>>
  /\ UNCHANGED <<direct, logVars, output, queue, failed, aborted>>

\* The abort check in the loop and the on_event plugins, which may replace
\* the event or throw; a replacement keeps the event's output and partial flag.
OnEvent ==
  \/ /\ at = "event" /\ ~aborted
     /\ at' = "persist"
     /\ \E touched \in BOOLEAN : hand' = <<[Head(hand) EXCEPT !.touched = touched]>>
     /\ UNCHANGED <<direct, outcome, logVars, bodyVars, queueVars, aborted>>
  \/ LeaveFrom("event", "error")

\* Mutant of Persist: the event is stored as it was before the plugins.
PersistRaw ==
  \/ LeaveFrom("persist", "error")
  \/ /\ at = "persist"
     /\ stored' = IF Head(hand).partial THEN stored
                  ELSE Append(stored, [Head(hand) EXCEPT !.touched = FALSE])
     /\ IF aborted THEN Leave("aborted") /\ UNCHANGED <<seen, hand>>
        ELSE /\ at' = "held" /\ seen' = seen \o hand /\ hand' = << >>
             /\ UNCHANGED <<outcome, closed, body>>
     /\ UNCHANGED <<direct, greeted, output, emitted, queue, failed, aborted>>

\* appendEvent unless the event is partial, the last abort check, the yield.
Persist ==
  \/ LeaveFrom("persist", "error")
  \/ /\ at = "persist"
     /\ stored' = IF Head(hand).partial THEN stored ELSE stored \o hand
     /\ IF aborted THEN Leave("aborted") /\ UNCHANGED <<seen, hand>>
        ELSE /\ at' = "held" /\ seen' = seen \o hand /\ hand' = << >>
             /\ UNCHANGED <<outcome, closed, body>>
     /\ UNCHANGED <<direct, greeted, output, emitted, queue, failed, aborted>>

\* The after_run plugins.
AfterRun ==
  \/ /\ at = "after"
     /\ Leave(IF aborted THEN "aborted" ELSE "done")
     /\ UNCHANGED <<direct, logVars, hand, output, emitted, queue, failed, aborted>>
  \/ LeaveFrom("after", "error")

---------------------------------------------------------------------------
(* The caller                                                              *)

\* The next() that resumes the generator at its yield.
Resume ==
  /\ at = "held"
  /\ IF body = "unstarted" THEN Leave("done")
                           ELSE at' = "pull" /\ UNCHANGED <<outcome, closed, body>>
  /\ UNCHANGED <<direct, logVars, hand, output, emitted, queue, failed, aborted>>

\* The consumer breaks out of its loop: return() at the yield.
Stop == LeaveFrom("held", "stopped")

Abort ==
  /\ ~aborted /\ at # "ended"
  /\ aborted' = TRUE
  /\ UNCHANGED <<direct, at, outcome, logVars, hand, bodyVars, queueVars>>

\* The checks after each await, in the loop and before it.
NoticeAbort ==
  /\ aborted
  /\ \E point \in {"lookup", "greet", "before", "event"} : LeaveFrom(point, "aborted")

---------------------------------------------------------------------------
Init ==
  /\ direct \in BOOLEAN
  /\ at = "lookup" /\ outcome = "none"
  /\ greeted = FALSE /\ stored = << >> /\ seen = << >> /\ hand = << >>
  /\ body = "unstarted" /\ output = 0 /\ emitted = << >>
  /\ queue = << >> /\ closed = FALSE /\ failed = FALSE /\ aborted = FALSE

Runner ==
  \/ GetSession \/ OnUserMessage \/ AppendUserMessage \/ BeforeRun \/ AppendEarlyExit
  \/ TakeBuffered \/ Park \/ Drain \/ OnEvent \/ Persist \/ AfterRun
  \/ NoticeAbort \/ SettleNode \/ CloseToolsets
Root == (\E partial, carries \in BOOLEAN : Say(partial, carries)) \/ Return \/ Throw
Caller == Resume \/ Stop

Ended == at = "ended" /\ UNCHANGED vars
Next == Runner \/ Root \/ Caller \/ Abort \/ Ended

\* What the runner awaits arrives, a root that moves goes on to its end, and
\* the consumer asks for the next event or stops.
Spec == Init /\ [][Next]_vars /\ WF_vars(Runner) /\ WF_vars(Root) /\ WF_vars(Caller)

---------------------------------------------------------------------------
(* Properties                                                              *)

\* Events come in the order of their ids.
Rising(log) == \A i, j \in DOMAIN log : i < j => log[i].id < log[j].id

\* A whole event that was seen is stored as it was seen, and so is every
\* stored event before it.
SeenIsStored ==
  \A i \in DOMAIN seen :
    /\ ~seen[i].partial => seen[i] \in Range(stored)
    /\ \A k \in DOMAIN stored : stored[k].id < seen[i].id => stored[k] \in Range(seen)

\* A stored event is a whole event of the root, and the whole events before it
\* are stored too.
StoredIsEmitted ==
  \A k \in DOMAIN stored :
    LET n == stored[k].id
    IN  n # 0 => /\ n \in DOMAIN emitted /\ ~emitted[n].partial
                 /\ \A m \in 1..(n - 1) : \/ emitted[m].partial
                                          \/ \E l \in DOMAIN stored : stored[l].id = m

\* The consumer is never ahead of the session, and neither is ahead of the
\* root, out of its order or with a gap: what was seen was stored first, in the
\* form the plugins gave it, and after the user's message (runAsync, AsyncQueue).
SeenIsStoredIsEmitted ==
  /\ stored # << >> => greeted
  /\ Rising(seen) /\ SeenIsStored
  /\ Rising(stored) /\ StoredIsEmitted

\* Whoever takes the last output of a stream that ended normally has the
\* output of the root node (the contract stated in runNodeAsInvocation).
LastOutputIsTheResult ==
  at = "ended" /\ outcome = "done" /\ body = "returned" /\ output # 0 =>
    \E i \in DOMAIN seen : /\ seen[i].val = output
                           /\ \A j \in DOMAIN seen : j > i => seen[j].val = 0

\* However the consumer, the signal, a plugin or the store ends the run, it
\* does not end before the root has stopped (runNodeAsInvocation's finally).
NoBodyOutlivesTheRun == at = "ended" => body # "running"

\* A root that failed never looks like one that finished, and its error
\* comes after everything it emitted (AsyncQueue.fail).
FailureIsSeenLast ==
  /\ outcome = "done" => body # "threw"
  /\ outcome = "bodyError" => Len(seen) = Len(emitted)

\* Once the caller aborted it is given nothing more (runAsync).
NothingSeenAfterAbort == [][aborted => seen' = seen]_vars

\* The generator ends: no reader is left parked on a queue whose writer is
\* gone, and no early stop waits for ever (AsyncQueue.close, settle).
Ends == <>(at = "ended")
=============================================================================
