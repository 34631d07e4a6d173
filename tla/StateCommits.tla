---------------------------- MODULE StateCommits ----------------------------
(***************************************************************************)
(* Session state during a run of a workflow on the in-memory session       *)
(* service.  A node writes through ctx.state: the write lands in           *)
(* session.state at once and, for the record, in the node's stateDelta.    *)
(* The delta travels on the node's next event through the event channel,   *)
(* and the runner commits the events in stream order, to the live session  *)
(* and to the stored one, after the nodes have moved on.  Stamps from one  *)
(* clock keep a late commit from rolling a key back.                       *)
(*                                                                         *)
(* Every write writes a value of its own, the tick of the clock it took;   *)
(* 0 is the value and the stamp of a key that has none.                    *)
(***************************************************************************)
EXTENDS Naturals, Sequences

CONSTANTS
  StateWriter, \* node contexts that write with ctx.state.set
  EventWriter, \* node contexts that yield events carrying a stateDelta
  StateKey,    \* keys written with ctx.state.set
  EventKey,    \* keys written by such events
  AppKey,      \* those of the keys that have the app: or user: prefix
  MaxWrites,   \* bound: writes
  MaxTurns     \* bound: invocations

Key == StateKey \cup EventKey
Writer == StateWriter \cup EventWriter

ASSUME StateCommitsAssumption ==
  /\ AppKey \subseteq Key
  /\ MaxWrites \in Nat /\ MaxTurns \in Nat \ {0}

VARIABLES
  clock,      \* writeClock
  writes,     \* writes so far
  live,       \* session.state of the invocation's session object
  liveStamp,  \* stateStamps of it
  pending,    \* each context's stateDelta: value and stamp of every key
  shadow,     \* FunctionNode's attachedStateByCtx
  stream,     \* events pushed and not yet committed
  stored,     \* state of the session object the service keeps
  storedStamp,
  app,        \* appState and userState of the service
  discarded,  \* writes a retry took out of the delta
  turn

writeVars  == <<pending, shadow, discarded>>
storeVars  == <<stored, storedStamp, app>>
vars == <<clock, writes, live, liveStamp, writeVars, stream, storeVars, turn>>

Entry == [val : Nat, stamp : Nat]
None  == [val |-> 0, stamp |-> 0]
Blank(v) == [k \in Key |-> v]

TypeOK ==
  /\ clock \in Nat /\ writes \in 0..MaxWrites /\ turn \in 1..MaxTurns
  /\ live \in [Key -> Nat] /\ liveStamp \in [Key -> Nat]
  /\ pending \in [Writer -> [Key -> Entry]]
  /\ shadow \in [Writer -> [Key -> Nat]]
  /\ stream \in Seq([Key -> Entry])
  /\ stored \in [Key -> Nat] /\ storedStamp \in [Key -> Nat]
  /\ app \in [AppKey -> Nat]
  /\ discarded \subseteq Nat

---------------------------------------------------------------------------
(* Writing                                                                 *)

\* recordStateWrite, for the keys ks of one call of State.set or update.
Write(w, ks) ==
  /\ writes < MaxWrites
  /\ writes' = writes + 1
  /\ clock' = clock + 1
  /\ live' = [k \in Key |-> IF k \in ks THEN clock + 1 ELSE live[k]]
  /\ liveStamp' = [k \in Key |-> IF k \in ks THEN clock + 1 ELSE liveStamp[k]]
  /\ pending' = [pending EXCEPT ![w] =
       [k \in Key |-> IF k \in ks THEN [val |-> clock + 1, stamp |-> clock + 1]
                                  ELSE @[k]]]

SetState(w, k) ==
  /\ w \in StateWriter /\ k \in StateKey
  /\ Write(w, {k})
  /\ UNCHANGED <<shadow, discarded, stream, storeVars, turn>>

\* Mutant of NotAttached: attached keys are remembered without their values.
NeverAttached(w, k) == shadow[w][k] = 0 /\ pending[w][k].val # 0
\* pendingStateDelta: the entries not attached to an event yet.
NotAttached(w, k) == shadow[w][k] # pending[w][k].val
PendingStateDelta(w) ==
  [k \in Key |-> IF NotAttached(w, k) THEN pending[w][k] ELSE None]

\* toEvent for a plain value, or for the final `yield undefined'.
EmitValue(w) ==
  /\ PendingStateDelta(w) # Blank(None)
  /\ stream' = Append(stream, PendingStateDelta(w))
  /\ shadow' = [shadow EXCEPT ![w] = [k \in Key |-> pending[w][k].val]]
  /\ UNCHANGED <<clock, writes, live, liveStamp, pending, discarded, storeVars, turn>>

\* toEvent for an event the body built with its own stateDelta: the pending
\* entries are spread into a new map, which carries no stamps, and
\* applyEmittedState writes the result through to the session.
Unstamped(d) == [k \in Key |-> [d[k] EXCEPT !.stamp = 0]]
EmitEvent(w, k) ==
  /\ w \in EventWriter /\ k \in EventKey
  /\ LET carried == [Unstamped(PendingStateDelta(w)) EXCEPT
                       ![k] = [val |-> clock + 1, stamp |-> 0]]
         ks == {x \in Key : carried[x].val # 0}
     IN  /\ stream' = Append(stream, carried)
         /\ writes < MaxWrites
         /\ writes' = writes + 1
         /\ clock' = clock + 1
         /\ live' = [x \in Key |-> IF x \in ks THEN carried[x].val ELSE live[x]]
         /\ liveStamp' = [x \in Key |-> IF x \in ks THEN clock + 1 ELSE liveStamp[x]]
         /\ pending' = [pending EXCEPT ![w] =
              [x \in Key |-> IF x \in ks THEN [val |-> carried[x].val, stamp |-> clock + 1]
                                         ELSE @[x]]]
         /\ shadow' = [shadow EXCEPT ![w] =
              [x \in Key |-> IF x \in ks THEN carried[x].val ELSE @[x]]]
  /\ UNCHANGED <<discarded, storeVars, turn>>

\* resetState: an attempt failed, and the retry clears the node's delta.
ResetState(w) ==
  /\ pending[w] # Blank(None)
  /\ pending' = [pending EXCEPT ![w] = Blank(None)]
  /\ discarded' = discarded \cup
       {pending[w][k].val : k \in {x \in Key : NotAttached(w, x)}}
  /\ UNCHANGED <<clock, writes, live, liveStamp, shadow, stream, storeVars, turn>>

---------------------------------------------------------------------------
(* Committing                                                              *)

\* Mutant of ShouldApply: deltas are applied in stream order.
ShouldApplyAlways(e, current) == e.val # 0
\* shouldApplyDeltaWrite.
ShouldApply(e, current) == e.val # 0 /\ ~(e.stamp # 0 /\ current > e.stamp)
NewStamp(e, fresh) == IF e.stamp # 0 THEN e.stamp ELSE fresh
Applied(state, stamps, d) ==
  [k \in Key |-> IF ShouldApply(d[k], stamps[k]) THEN d[k].val ELSE state[k]]
AppliedStamps(stamps, d, fresh) ==
  [k \in Key |-> IF ShouldApply(d[k], stamps[k]) THEN NewStamp(d[k], fresh) ELSE stamps[k]]

\* Prefixed keys are written in stream order, whatever their stamps.
AppApplied(d) == [k \in AppKey |-> IF d[k].val # 0 THEN d[k].val ELSE app[k]]

\* InMemorySessionService.appendEvent: the base class applies the delta to
\* the invocation's session, prefixed keys go to the app and user state, and
\* the base class applies the delta to the stored session.
Commit ==
  /\ stream # << >>
  /\ LET d == Head(stream)
     IN  /\ live' = Applied(live, liveStamp, d)
         /\ liveStamp' = AppliedStamps(liveStamp, d, clock + 1)
         /\ app' = AppApplied(d)
         /\ stored' = Applied(stored, storedStamp, d)
         /\ storedStamp' = AppliedStamps(storedStamp, d, clock + 2)
  /\ clock' = clock + 2
  /\ stream' = Tail(stream)
  /\ UNCHANGED <<writes, writeVars, turn>>

\* The run is over and the next invocation gets a copy of the stored session,
\* app and user state merged in (getSession, mergeStates).
Drained ==
  /\ stream = << >>
  /\ \A w \in Writer, k \in Key : NotAttached(w, k) => pending[w][k] = None
NextTurn ==
  /\ Drained /\ turn < MaxTurns
  /\ turn' = turn + 1
  /\ live' = [k \in Key |-> IF k \in AppKey THEN app[k] ELSE stored[k]]
  /\ liveStamp' = Blank(0)
  /\ pending' = [w \in Writer |-> Blank(None)]
  /\ shadow' = [w \in Writer |-> Blank(0)]
  /\ UNCHANGED <<clock, writes, discarded, stream, storeVars>>

---------------------------------------------------------------------------
Init ==
  /\ clock = 0 /\ writes = 0 /\ turn = 1
  /\ live = Blank(0) /\ liveStamp = Blank(0)
  /\ pending = [w \in Writer |-> Blank(None)]
  /\ shadow = [w \in Writer |-> Blank(0)]
  /\ stream = << >>
  /\ stored = Blank(0) /\ storedStamp = Blank(0)
  /\ app = [k \in AppKey |-> 0]
  /\ discarded = {}

Over == Drained /\ turn = MaxTurns /\ UNCHANGED vars

Next ==
  \/ \E w \in Writer : \/ \E k \in Key : SetState(w, k) \/ EmitEvent(w, k)
                       \/ EmitValue(w)
                       \/ ResetState(w)
  \/ Commit
  \/ NextTurn
  \/ Over

Spec == Init /\ [][Next]_vars

---------------------------------------------------------------------------
(* Properties                                                              *)

\* A commit never rolls a key back: what a node wrote with ctx.state stays
\* readable until somebody writes the key again, however late the events of
\* older writes are committed (shouldApplyDeltaWrite).
CommitsNeverRollBack ==
  [][Len(stream') < Len(stream) => \A k \in StateKey : live'[k] = live[k]]_vars

\* Once every event is committed the stored session agrees with the live one,
\* but for writes a retry discarded: the next turn sees the last write, not
\* the last event (appendEvent, getSession).  So does the state shared beyond
\* the session (app: and user: keys), for keys that only travel on events and
\* are committed in the order of their writes.
StoredCatchesUp ==
  Drained => /\ \A k \in Key \ AppKey : stored[k] = live[k] \/ live[k] \in discarded
             /\ \A k \in AppKey : app[k] = live[k] \/ live[k] \in discarded
=============================================================================
