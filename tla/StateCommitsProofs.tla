------------------------- MODULE StateCommitsProofs -------------------------
(***************************************************************************)
(* Why a late commit cannot roll a key back: every entry of a key written  *)
(* with ctx.state that is still on its way carries the stamp of its own    *)
(* write, and that stamp is at most the stamp of the live value.  The      *)
(* proof needs the two ways of writing state kept apart (Separated).       *)
(*                                                                         *)
(* Why the stored session catches up all the same: the last write of a key *)
(* is stored, discarded, or still on its way (NoWriteIsLost), and its      *)
(* commit finds nothing newer in the store (StoredIsStamped); keys that    *)
(* travel on events settle in the order of the stream (EventsSettle).      *)
(***************************************************************************)
EXTENDS StateCommits, TLAPS

\* Nodes that yield events with a stateDelta write neither the keys nor from
\* the contexts that ctx.state.set is used with.
Separated == StateWriter \cap EventWriter = {} /\ StateKey \cap EventKey = {}

\* An entry on its way: nothing, or a value stamped by its own write, no newer
\* than the live value.
Faithful(e, k) == e.val # 0 => e.stamp = e.val /\ e.val <= liveStamp[k]

EntriesFaithful ==
  /\ \A w \in Writer, k \in StateKey : Faithful(pending[w][k], k)
  /\ \A i \in DOMAIN stream, k \in StateKey : Faithful(stream[i][k], k)

\* A stamped live value is its own stamp, and stamps come from the clock.
LiveIsStamped ==
  \A k \in StateKey : /\ liveStamp[k] <= clock
                      /\ liveStamp[k] # 0 => live[k] = liveStamp[k]

\* Contexts that yield such events have nothing to say about the other keys.
EventWritersAreQuiet ==
  \A w \in EventWriter, k \in StateKey : pending[w][k] = None

IInv ==
  /\ TypeOK
  /\ EntriesFaithful
  /\ LiveIsStamped
  /\ EventWritersAreQuiet

---------------------------------------------------------------------------
(* Type correctness                                                        *)

\* What recordStateWrite does keeps the written variables in their types.
LEMMA WriteTyped ==
  ASSUME TypeOK, NEW w \in Writer, NEW ks, Write(w, ks)
  PROVE  /\ clock' \in Nat /\ writes' \in 0..MaxWrites
         /\ live' \in [Key -> Nat] /\ liveStamp' \in [Key -> Nat]
         /\ pending' \in [Writer -> [Key -> Entry]]
BY StateCommitsAssumption DEF TypeOK, Write, Entry

\* The last event of a longer stream is the new one, the others stay.
LEMMA Appended ==
  ASSUME NEW S, NEW t \in Seq(S), NEW x \in S
  PROVE  /\ DOMAIN Append(t, x) = DOMAIN t \cup {Len(t) + 1}
         /\ Append(t, x)[Len(t) + 1] = x
         /\ \A i \in DOMAIN t : Append(t, x)[i] = t[i]
<1>1. DOMAIN t = 1..Len(t) /\ DOMAIN Append(t, x) = 1..(Len(t) + 1)
  OBVIOUS
<1>2. Append(t, x)[Len(t) + 1] = x
  OBVIOUS
<1>3. \A i \in 1..Len(t) : Append(t, x)[i] = t[i]
  OBVIOUS
<1> QED BY <1>1, <1>2, <1>3

\* The pending entries of a context are entries.
LEMMA PendingTyped ==
  ASSUME TypeOK, NEW w \in Writer
  PROVE  /\ PendingStateDelta(w) \in [Key -> Entry]
         /\ Unstamped(PendingStateDelta(w)) \in [Key -> Entry]
<1>1. PendingStateDelta(w) \in [Key -> Entry]
  BY DEF TypeOK, PendingStateDelta, NotAttached, None, Entry
<1>2. Unstamped(PendingStateDelta(w)) \in [Key -> Entry]
  BY <1>1 DEF Unstamped, Entry
<1> QED BY <1>1, <1>2

\* Every step keeps the variables in their types.
LEMMA TypeStep == TypeOK /\ [Next]_vars => TypeOK'
<1> SUFFICES ASSUME TypeOK, [Next]_vars PROVE TypeOK'
  OBVIOUS
<1> USE StateCommitsAssumption
<1>1. ASSUME NEW w \in Writer, NEW k \in Key, SetState(w, k) PROVE TypeOK'
  <2>1. Write(w, {k})
    BY <1>1 DEF SetState
  <2> QED BY <1>1, <2>1, WriteTyped DEF SetState, TypeOK, storeVars
<1>2. ASSUME NEW w \in Writer, NEW k \in Key, EmitEvent(w, k) PROVE TypeOK'
  <2> DEFINE carried == [Unstamped(PendingStateDelta(w)) EXCEPT
                           ![k] = [val |-> clock + 1, stamp |-> 0]]
             ks == {x \in Key : carried[x].val # 0}
  <2>1. carried \in [Key -> Entry]
    BY PendingTyped DEF TypeOK, Entry
  <2>2. stream' = Append(stream, carried) /\ stream \in Seq([Key -> Entry])
    BY <1>2 DEF EmitEvent, TypeOK
  <2>3. stream' \in Seq([Key -> Entry])
    BY <2>1, <2>2
  <2>4. /\ writes < MaxWrites
        /\ writes' = writes + 1
        /\ clock' = clock + 1
        /\ live' = [x \in Key |-> IF x \in ks THEN carried[x].val ELSE live[x]]
        /\ liveStamp' = [x \in Key |-> IF x \in ks THEN clock + 1 ELSE liveStamp[x]]
        /\ pending' = [pending EXCEPT ![w] =
             [x \in Key |-> IF x \in ks THEN [val |-> carried[x].val, stamp |-> clock + 1]
                                        ELSE @[x]]]
        /\ shadow' = [shadow EXCEPT ![w] =
             [x \in Key |-> IF x \in ks THEN carried[x].val ELSE @[x]]]
        /\ UNCHANGED <<discarded, storeVars, turn>>
    BY <1>2 DEF EmitEvent
  <2> HIDE DEF carried, ks
  <2>5. live' \in [Key -> Nat] /\ liveStamp' \in [Key -> Nat]
    <3>1. \A x \in Key : carried[x].val \in Nat
      BY <2>1 DEF Entry
    <3> QED BY <2>4, <3>1 DEF TypeOK
  <2>6. pending' \in [Writer -> [Key -> Entry]]
    BY <2>1, <2>4 DEF TypeOK, Entry
  <2>7. shadow' \in [Writer -> [Key -> Nat]]
    BY <2>1, <2>4 DEF TypeOK, Entry
  <2> QED BY <2>3, <2>4, <2>5, <2>6, <2>7 DEF TypeOK, storeVars
<1>3. ASSUME NEW w \in Writer, EmitValue(w) PROVE TypeOK'
  <2>1. stream' \in Seq([Key -> Entry])
    BY <1>3, PendingTyped DEF EmitValue, TypeOK
  <2>2. shadow' \in [Writer -> [Key -> Nat]]
    BY <1>3 DEF EmitValue, TypeOK, Entry
  <2> QED BY <1>3, <2>1, <2>2 DEF EmitValue, TypeOK, storeVars
<1>4. ASSUME NEW w \in Writer, ResetState(w) PROVE TypeOK'
  <2>1. pending' \in [Writer -> [Key -> Entry]]
    BY <1>4 DEF ResetState, TypeOK, Blank, None, Entry
  <2>2. discarded' \subseteq Nat
    <3>1. \A k \in Key : pending[w][k].val \in Nat
      BY DEF TypeOK, Entry
    <3> QED BY <1>4, <3>1 DEF ResetState, TypeOK
  <2> QED BY <1>4, <2>1, <2>2 DEF ResetState, TypeOK, storeVars
<1>5. CASE Commit
  <2>1. stream # << >> /\ stream \in Seq([Key -> Entry])
    BY <1>5 DEF Commit, TypeOK
  <2>2. Head(stream) \in [Key -> Entry] /\ Tail(stream) \in Seq([Key -> Entry])
    BY <2>1
  <2>3. /\ live' \in [Key -> Nat] /\ liveStamp' \in [Key -> Nat]
        /\ stored' \in [Key -> Nat] /\ storedStamp' \in [Key -> Nat]
    <3>1. \A k \in Key : Head(stream)[k].val \in Nat /\ Head(stream)[k].stamp \in Nat
      BY <2>2 DEF Entry
    <3>2. clock + 1 \in Nat /\ clock + 2 \in Nat
      BY DEF TypeOK
    <3> QED BY <1>5, <3>1, <3>2 DEF Commit, TypeOK, Applied, AppliedStamps, NewStamp
  <2>4. app' \in [AppKey -> Nat]
    BY <1>5, <2>2 DEF Commit, TypeOK, AppApplied, Entry
  <2> QED BY <1>5, <2>2, <2>3, <2>4 DEF Commit, TypeOK, writeVars
<1>6. CASE NextTurn
  <2>1. pending' \in [Writer -> [Key -> Entry]]
    BY <1>6 DEF NextTurn, Blank, None, Entry
  <2> QED BY <1>6, <2>1 DEF NextTurn, TypeOK, storeVars, Blank
<1>7. CASE UNCHANGED vars
  BY <1>7 DEF vars, writeVars, storeVars, TypeOK
<1> QED
  BY <1>1, <1>2, <1>3, <1>4, <1>5, <1>6, <1>7 DEF Next, Over

\* The initial state is well typed.
LEMMA TypeInit == Init => TypeOK
BY StateCommitsAssumption DEF Init, TypeOK, Blank, None, Entry

\* The variables keep their types.
THEOREM TypeCorrect == Spec => []TypeOK
BY TypeInit, TypeStep, PTL DEF Spec
---------------------------------------------------------------------------
(* The invariant                                                           *)

\* Values, stamps and the clock are numbers.
LEMMA Numbers ==
  ASSUME TypeOK
  PROVE  /\ clock \in Nat /\ Key = StateKey \cup EventKey
         /\ \A k \in Key : live[k] \in Nat /\ liveStamp[k] \in Nat
         /\ \A w \in Writer, k \in Key :
              pending[w][k].val \in Nat /\ pending[w][k].stamp \in Nat
         /\ \A i \in DOMAIN stream, k \in Key :
              stream[i][k].val \in Nat /\ stream[i][k].stamp \in Nat
BY DEF TypeOK, Entry, Key

\* ctx.state.set stamps the entry and the live value alike.
LEMMA SetStateStep ==
  ASSUME IInv, Separated, NEW w \in Writer, NEW k \in Key, SetState(w, k)
  PROVE  EntriesFaithful' /\ LiveIsStamped' /\ EventWritersAreQuiet'
<1> USE Numbers DEF IInv
<1>1. /\ w \in StateWriter /\ k \in StateKey
      /\ clock' = clock + 1 /\ UNCHANGED stream
      /\ \A x \in Key : /\ live'[x] = IF x = k THEN clock + 1 ELSE live[x]
                        /\ liveStamp'[x] = IF x = k THEN clock + 1 ELSE liveStamp[x]
  BY DEF SetState, Write
<1>2. \A v \in Writer, x \in Key :
        pending'[v][x] = IF v = w /\ x = k THEN [val |-> clock + 1, stamp |-> clock + 1]
                                           ELSE pending[v][x]
  BY DEF SetState, Write, TypeOK
<1>3. \A x \in StateKey : liveStamp'[x] >= liveStamp[x]
  BY <1>1 DEF LiveIsStamped
<1>4. EntriesFaithful'
  <2>1. \A v \in Writer, x \in StateKey : Faithful(pending[v][x], x)'
    BY <1>1, <1>2, <1>3 DEF EntriesFaithful, Faithful
  <2>2. \A i \in DOMAIN stream, x \in StateKey : Faithful(stream[i][x], x)'
    BY <1>1, <1>3 DEF EntriesFaithful, Faithful
  <2> QED BY <1>1, <2>1, <2>2 DEF EntriesFaithful
<1>5. LiveIsStamped'
  BY <1>1 DEF LiveIsStamped
<1>6. EventWritersAreQuiet'
  BY <1>1, <1>2 DEF EventWritersAreQuiet, Separated, Writer
<1> QED BY <1>4, <1>5, <1>6

\* Entries move from the context to the stream unchanged.
LEMMA EmitValueStep ==
  ASSUME IInv, NEW w \in Writer, EmitValue(w)
  PROVE  EntriesFaithful' /\ LiveIsStamped' /\ EventWritersAreQuiet'
<1> USE Numbers DEF IInv
<1>1. /\ stream' = Append(stream, PendingStateDelta(w))
      /\ UNCHANGED <<clock, live, liveStamp, pending>>
  BY DEF EmitValue
<1>2. \A k \in StateKey : Faithful(PendingStateDelta(w)[k], k)
  BY DEF EntriesFaithful, Faithful, PendingStateDelta, None
<1>3. \A i \in DOMAIN stream' :
        (i \in DOMAIN stream /\ stream'[i] = stream[i]) \/ stream'[i] = PendingStateDelta(w)
  BY <1>1, PendingTyped DEF TypeOK
<1>4. \A i \in DOMAIN stream', k \in StateKey : Faithful(stream'[i][k], k)
  BY <1>2, <1>3 DEF EntriesFaithful
<1>5. EntriesFaithful'
  BY <1>1, <1>4 DEF EntriesFaithful, Faithful
<1> QED BY <1>1, <1>5 DEF LiveIsStamped, EventWritersAreQuiet

\* An event built by a body carries none of the keys set with ctx.state.
LEMMA EmitEventStep ==
  ASSUME IInv, Separated, NEW w \in Writer, NEW k \in Key, EmitEvent(w, k)
  PROVE  EntriesFaithful' /\ LiveIsStamped' /\ EventWritersAreQuiet'
<1> USE Numbers DEF IInv
<1> DEFINE carried == [Unstamped(PendingStateDelta(w)) EXCEPT
                         ![k] = [val |-> clock + 1, stamp |-> 0]]
           ks == {x \in Key : carried[x].val # 0}
<1>1. w \in EventWriter /\ k \in EventKey /\ k \notin StateKey
  BY DEF EmitEvent, Separated
<1>2. \A x \in StateKey : carried[x].val = 0 /\ x \notin ks
  BY <1>1 DEF EventWritersAreQuiet, PendingStateDelta, Unstamped, NotAttached, None
<1>3. /\ stream' = Append(stream, carried)
      /\ clock' = clock + 1
      /\ live' = [x \in Key |-> IF x \in ks THEN carried[x].val ELSE live[x]]
      /\ liveStamp' = [x \in Key |-> IF x \in ks THEN clock + 1 ELSE liveStamp[x]]
      /\ pending' = [pending EXCEPT ![w] =
           [x \in Key |-> IF x \in ks THEN [val |-> carried[x].val, stamp |-> clock + 1]
                                      ELSE @[x]]]
  BY DEF EmitEvent
<1> HIDE DEF carried, ks
<1>4. \A x \in StateKey : live'[x] = live[x] /\ liveStamp'[x] = liveStamp[x]
  BY <1>2, <1>3
<1>5. \A v \in Writer, x \in StateKey : pending'[v][x] = pending[v][x]
  BY <1>2, <1>3 DEF TypeOK
<1>6. \A i \in DOMAIN stream' :
        (i \in DOMAIN stream /\ stream'[i] = stream[i]) \/ stream'[i] = carried
  BY <1>3 DEF TypeOK
<1>7. EntriesFaithful'
  <2>1. \A v \in Writer, x \in StateKey : Faithful(pending[v][x], x)'
    BY <1>4, <1>5 DEF EntriesFaithful, Faithful
  <2>2. \A i \in DOMAIN stream', x \in StateKey : Faithful(stream[i][x], x)'
    BY <1>2, <1>4, <1>6 DEF EntriesFaithful, Faithful
  <2> QED BY <2>1, <2>2 DEF EntriesFaithful
<1>8. LiveIsStamped'
  <2>1. \A x \in StateKey : liveStamp[x] \in Nat
    OBVIOUS
  <2>2. clock \in Nat /\ clock' = clock + 1
    BY <1>3
  <2>3. \A x \in StateKey : liveStamp[x] <= clock
    BY DEF LiveIsStamped
  <2>4. \A x \in StateKey : liveStamp[x] <= clock'
    BY <2>1, <2>2, <2>3
  <2> QED BY <1>4, <2>4 DEF LiveIsStamped
<1>9. EventWritersAreQuiet'
  BY <1>5 DEF EventWritersAreQuiet, Writer
<1> QED BY <1>7, <1>8, <1>9

\* Committing a faithful entry finds the live value already there.
LEMMA CommitIsSilent ==
  ASSUME IInv, Commit, NEW k \in StateKey
  PROVE  live'[k] = live[k] /\ liveStamp'[k] = liveStamp[k]
<1> USE Numbers DEF IInv
<1>1. stream # << >> /\ Head(stream) = stream[1] /\ 1 \in DOMAIN stream
  BY DEF Commit, TypeOK
<1>2. Faithful(Head(stream)[k], k)
  BY <1>1 DEF EntriesFaithful
<1>3. /\ Head(stream)[k].val \in Nat /\ Head(stream)[k].stamp \in Nat
      /\ live[k] \in Nat /\ liveStamp[k] \in Nat
  BY <1>1
<1>4. /\ live'[k] = IF ShouldApply(Head(stream)[k], liveStamp[k])
                    THEN Head(stream)[k].val ELSE live[k]
      /\ liveStamp'[k] = IF ShouldApply(Head(stream)[k], liveStamp[k])
                         THEN NewStamp(Head(stream)[k], clock + 1) ELSE liveStamp[k]
  BY DEF Commit, Applied, AppliedStamps
<1>5. CASE ShouldApply(Head(stream)[k], liveStamp[k])
  <2>1. /\ Head(stream)[k].val # 0
        /\ Head(stream)[k].stamp = Head(stream)[k].val
        /\ Head(stream)[k].val = liveStamp[k]
    BY <1>2, <1>3, <1>5 DEF ShouldApply, Faithful
  <2>2. live[k] = liveStamp[k]
    BY <2>1 DEF LiveIsStamped
  <2> QED BY <1>4, <1>5, <2>1, <2>2 DEF NewStamp
<1> QED BY <1>4, <1>5

\* A commit leaves the entries behind it faithful.
LEMMA CommitStep ==
  ASSUME IInv, Commit
  PROVE  EntriesFaithful' /\ LiveIsStamped' /\ EventWritersAreQuiet'
<1> USE Numbers DEF IInv
<1>1. \A k \in StateKey : live'[k] = live[k] /\ liveStamp'[k] = liveStamp[k]
  BY CommitIsSilent
<1>2. clock' = clock + 2 /\ UNCHANGED pending /\ stream # << >> /\ stream' = Tail(stream)
  BY DEF Commit, writeVars
<1>3. \A i \in DOMAIN stream' : i + 1 \in DOMAIN stream /\ stream'[i] = stream[i + 1]
  BY <1>2 DEF TypeOK
<1>4. EntriesFaithful'
  BY <1>1, <1>2, <1>3 DEF EntriesFaithful, Faithful
<1>5. LiveIsStamped'
  BY <1>1, <1>2 DEF LiveIsStamped
<1> QED BY <1>2, <1>4, <1>5 DEF EventWritersAreQuiet

\* The invariant is preserved.
LEMMA IInvStep == Separated /\ IInv /\ [Next]_vars => IInv'
<1> SUFFICES ASSUME Separated, IInv, [Next]_vars
             PROVE  EntriesFaithful' /\ LiveIsStamped' /\ EventWritersAreQuiet'
  BY TypeStep DEF IInv
<1>1. ASSUME NEW w \in Writer, NEW k \in Key, SetState(w, k) \/ EmitEvent(w, k)
      PROVE  EntriesFaithful' /\ LiveIsStamped' /\ EventWritersAreQuiet'
  BY <1>1, SetStateStep, EmitEventStep
<1>2. ASSUME NEW w \in Writer, EmitValue(w)
      PROVE  EntriesFaithful' /\ LiveIsStamped' /\ EventWritersAreQuiet'
  BY <1>2, EmitValueStep
<1>3. ASSUME NEW w \in Writer, ResetState(w)
      PROVE  EntriesFaithful' /\ LiveIsStamped' /\ EventWritersAreQuiet'
  <2>1. UNCHANGED <<clock, live, liveStamp, stream>>
    BY <1>3 DEF ResetState
  <2>2. \A v \in Writer, k \in Key :
          pending'[v][k] = IF v = w THEN None ELSE pending[v][k]
    BY <1>3 DEF ResetState, Blank, IInv, TypeOK
  <2>3. \A v \in Writer, k \in StateKey : k \in Key
    BY DEF Key
  <2> QED BY <2>1, <2>2, <2>3
          DEF IInv, EntriesFaithful, Faithful, LiveIsStamped, EventWritersAreQuiet,
              None, Writer
<1>4. CASE Commit
  BY <1>4, CommitStep
<1>5. CASE NextTurn
  <2>1. stream = << >> /\ UNCHANGED <<stream, clock>>
    BY <1>5 DEF NextTurn, Drained
  <2>2. \A v \in Writer, k \in Key : pending'[v][k] = None
    BY <1>5 DEF NextTurn, Blank
  <2>3. \A k \in Key : liveStamp'[k] = 0
    BY <1>5 DEF NextTurn, Blank
  <2>4. \A v \in Writer, k \in StateKey : k \in Key
    BY DEF Key
  <2> QED BY <2>1, <2>2, <2>3, <2>4, Numbers
          DEF IInv, EntriesFaithful, Faithful, LiveIsStamped, EventWritersAreQuiet,
              None, Writer, Key
<1>6. CASE UNCHANGED vars
  BY <1>6 DEF vars, writeVars, IInv, EntriesFaithful, Faithful, LiveIsStamped,
              EventWritersAreQuiet
<1> QED BY <1>1, <1>2, <1>3, <1>4, <1>5, <1>6 DEF Next, Over

\* The invariant holds of the empty session.
LEMMA IInvInit == Init => IInv
BY TypeInit DEF Init, IInv, EntriesFaithful, Faithful, LiveIsStamped,
                EventWritersAreQuiet, Blank, None, Key, Writer

\* A late commit never rolls back a key written with ctx.state, whatever the
\* nodes, the interleaving and the retries, as long as no event carries a
\* delta of such a key or of such a node (shouldApplyDeltaWrite).
THEOREM LateCommitsAreHarmless ==
  ASSUME Separated PROVE Spec => CommitsNeverRollBack
<1> DEFINE A == Len(stream') < Len(stream) => \A k \in StateKey : live'[k] = live[k]
<1>1. IInv /\ [Next]_vars => [A]_vars
  <2> SUFFICES ASSUME IInv, Next, Len(stream') < Len(stream), NEW k \in StateKey
               PROVE  live'[k] = live[k]
    OBVIOUS
  <2>1. CASE Commit
    BY <2>1, CommitIsSilent
  <2>2. CASE ~Commit
    <3>1. stream \in Seq([Key -> Entry])
      BY DEF IInv, TypeOK
    <3>2. UNCHANGED stream \/ \E d : stream' = Append(stream, d)
      BY <2>2 DEF Next, SetState, EmitEvent, EmitValue, ResetState, NextTurn, Over, vars
    <3> QED BY <3>1, <3>2
  <2> QED BY <2>1, <2>2
<1> QED BY <1>1, IInvInit, IInvStep, PTL DEF Spec, CommitsNeverRollBack

---------------------------------------------------------------------------
(* The stored session catches up                                           *)

\* What a node attached to an event was written before.
ShadowsArePast == \A w \in Writer, k \in StateKey : shadow[w][k] <= clock

\* The stored value of a key set with ctx.state is its stamp, from the clock,
\* and no newer than what this turn wrote.
StoredIsStamped ==
  \A k \in StateKey : /\ storedStamp[k] = stored[k] /\ stored[k] <= clock
                      /\ liveStamp[k] # 0 => stored[k] <= liveStamp[k]

\* The last write of such a key is stored, or discarded, or a node has still
\* to attach it to an event, or its event is still to be committed.
OnItsWay(k) ==
  \/ live[k] \in discarded
  \/ \E w \in Writer : pending[w][k].val = live[k] /\ NotAttached(w, k)
  \/ \E i \in DOMAIN stream : stream[i][k].val = live[k]
NoWriteIsLost ==
  \A k \in StateKey : stored[k] = live[k] \/ (liveStamp[k] # 0 /\ OnItsWay(k))

\* A key that travels on events is attached at once, without a stamp.
EventsAreAttached ==
  /\ \A w \in Writer, k \in EventKey : NotAttached(w, k) => pending[w][k] = None
  /\ \A i \in DOMAIN stream, k \in EventKey : stream[i][k].val # 0 => stream[i][k].stamp = 0

\* With no event of such a key under way, every copy has the live value.
EventsSettle ==
  \A k \in EventKey :
    (\A i \in DOMAIN stream : stream[i][k].val = 0) =>
      live[k] = IF k \in AppKey THEN app[k] ELSE stored[k]

CatchUp == ShadowsArePast /\ StoredIsStamped /\ NoWriteIsLost /\ EventsAreAttached /\ EventsSettle

\* Shared keys travel on events only: their commits follow the stream's order.
AppKeysOnEvents == AppKey \subseteq EventKey

LEMMA MoreNumbers ==
  ASSUME TypeOK
  PROVE  /\ clock \in Nat /\ StateKey \subseteq Key /\ EventKey \subseteq Key
         /\ StateWriter \subseteq Writer /\ EventWriter \subseteq Writer
         /\ \A k \in Key : /\ stored[k] \in Nat /\ storedStamp[k] \in Nat
                           /\ live[k] \in Nat /\ liveStamp[k] \in Nat
         /\ \A w \in Writer, k \in Key : shadow[w][k] \in Nat
BY DEF TypeOK, Key, Writer

\* A new write is pending, and newer than all there was.
LEMMA CatchSetState ==
  ASSUME IInv, CatchUp, Separated, NEW w \in Writer, NEW k \in Key, SetState(w, k)
  PROVE  CatchUp'
<1> USE MoreNumbers DEF IInv
<1>1. /\ w \in StateWriter /\ k \in StateKey /\ k \notin EventKey
      /\ clock' = clock + 1
      /\ UNCHANGED <<stream, shadow, discarded, stored, storedStamp, app>>
      /\ \A x \in Key : /\ live'[x] = IF x = k THEN clock + 1 ELSE live[x]
                        /\ liveStamp'[x] = IF x = k THEN clock + 1 ELSE liveStamp[x]
  BY DEF SetState, Write, storeVars, Separated
<1>2. \A v \in Writer, x \in Key :
        pending'[v][x] = IF v = w /\ x = k THEN [val |-> clock + 1, stamp |-> clock + 1]
                                           ELSE pending[v][x]
  BY DEF SetState, Write, TypeOK
<1>3. ShadowsArePast'
  <2>1. \A v \in Writer, x \in StateKey : shadow[v][x] <= clock + 1
    BY DEF CatchUp, ShadowsArePast
  <2> QED BY <1>1, <2>1 DEF ShadowsArePast
<1>4. \A x \in StateKey : stored[x] <= clock BY DEF CatchUp, StoredIsStamped
<1>5. StoredIsStamped'
  BY <1>1, <1>4 DEF CatchUp, StoredIsStamped
<1>6. NoWriteIsLost'
  <2>1. ASSUME NEW x \in StateKey
        PROVE  stored'[x] = live'[x] \/ (liveStamp'[x] # 0 /\ OnItsWay(x)')
    <3>1. CASE x = k
      <4>1. pending'[w][k].val = clock + 1 /\ live'[k] = clock + 1 /\ liveStamp'[k] # 0
        BY <1>1, <1>2
      <4>2. shadow[w][k] <= clock BY <1>1 DEF CatchUp, ShadowsArePast
      <4>3. NotAttached(w, k)' BY <1>1, <4>1, <4>2 DEF NotAttached
      <4> QED BY <3>1, <4>1, <4>3 DEF OnItsWay
    <3>2. CASE x # k
      <4>1. live'[x] = live[x] /\ liveStamp'[x] = liveStamp[x] BY <1>1, <3>2
      <4>2. \A v \in Writer : pending'[v][x] = pending[v][x] BY <1>2, <3>2
      <4>3. OnItsWay(x) => OnItsWay(x)' BY <1>1, <4>1, <4>2 DEF OnItsWay, NotAttached
      <4> QED BY <1>1, <4>1, <4>3 DEF CatchUp, NoWriteIsLost
    <3> QED BY <3>1, <3>2
  <2> QED BY <2>1 DEF NoWriteIsLost
<1>7. EventsAreAttached' /\ EventsSettle'
  <2>1. \A x \in EventKey : x # k /\ live'[x] = live[x] BY <1>1
  <2>2. \A v \in Writer, x \in EventKey : pending'[v][x] = pending[v][x] BY <1>2, <2>1
  <2> QED BY <1>1, <2>1, <2>2 DEF CatchUp, EventsAreAttached, EventsSettle, NotAttached
<1> QED BY <1>3, <1>5, <1>6, <1>7 DEF CatchUp

\* Entries move from the context to the stream; none of them is a shared one.
LEMMA CatchEmitValue ==
  ASSUME IInv, CatchUp, NEW w \in Writer, EmitValue(w)
  PROVE  CatchUp'
<1> USE MoreNumbers DEF IInv
<1> DEFINE d == PendingStateDelta(w)
<1>1. /\ stream' = Append(stream, d)
      /\ shadow' = [shadow EXCEPT ![w] = [k \in Key |-> pending[w][k].val]]
      /\ UNCHANGED <<clock, live, liveStamp, pending, discarded, stored, storedStamp, app>>
  BY DEF EmitValue, storeVars
<1>2. /\ DOMAIN stream' = DOMAIN stream \cup {Len(stream) + 1}
      /\ stream'[Len(stream) + 1] = d
      /\ \A i \in DOMAIN stream : stream'[i] = stream[i]
  <2>1. stream \in Seq([Key -> Entry]) BY DEF TypeOK
  <2>2. d \in [Key -> Entry] BY PendingTyped
  <2> HIDE DEF d
  <2> QED BY <1>1, <2>1, <2>2, Appended
<1>3. \A v \in Writer, k \in Key :
        shadow'[v][k] = IF v = w THEN pending[w][k].val ELSE shadow[v][k]
  BY <1>1 DEF TypeOK
<1>4. \A k \in Key : d[k] = IF NotAttached(w, k) THEN pending[w][k] ELSE None
  BY DEF PendingStateDelta
<1> HIDE DEF d
<1>5. ShadowsArePast'
  <2>1. ASSUME NEW k \in StateKey PROVE pending[w][k].val <= clock
    <3>1. pending[w][k].val \in Nat /\ liveStamp[k] \in Nat BY Numbers
    <3>2. pending[w][k].val # 0 => pending[w][k].val <= liveStamp[k]
      BY DEF EntriesFaithful, Faithful
    <3>3. liveStamp[k] <= clock BY DEF LiveIsStamped
    <3> QED BY <3>1, <3>2, <3>3
  <2> QED BY <1>1, <1>3, <2>1 DEF CatchUp, ShadowsArePast
<1>6. NoWriteIsLost'
  <2>1. ASSUME NEW k \in StateKey, OnItsWay(k) PROVE OnItsWay(k)'
    <3>1. CASE live[k] \in discarded BY <1>1, <3>1 DEF OnItsWay
    <3>2. ASSUME NEW v \in Writer, pending[v][k].val = live[k], NotAttached(v, k)
          PROVE  OnItsWay(k)'
      <4>1. CASE v = w BY <1>1, <1>2, <1>4, <3>2, <4>1 DEF OnItsWay
      <4>2. CASE v # w
        <5>1. NotAttached(v, k)' BY <1>1, <1>3, <3>2, <4>2 DEF NotAttached
        <5> QED BY <1>1, <3>2, <5>1 DEF OnItsWay
      <4> QED BY <4>1, <4>2
    <3>3. ASSUME NEW i \in DOMAIN stream, stream[i][k].val = live[k] PROVE OnItsWay(k)'
      BY <1>1, <1>2, <3>3 DEF OnItsWay
    <3> QED BY <2>1, <3>1, <3>2, <3>3 DEF OnItsWay
  <2> QED BY <1>1, <2>1 DEF CatchUp, NoWriteIsLost
<1>7. \A k \in EventKey : d[k] = None BY <1>4 DEF CatchUp, EventsAreAttached
<1>8. EventsAreAttached'
  <2>1. \A v \in Writer, k \in EventKey : NotAttached(v, k)' => pending'[v][k] = None
    BY <1>1, <1>3 DEF CatchUp, EventsAreAttached, NotAttached
  <2> QED BY <1>2, <1>7, <2>1 DEF CatchUp, EventsAreAttached, None
<1>9. EventsSettle'
  BY <1>1, <1>2, <1>7 DEF CatchUp, EventsSettle
<1> QED BY <1>1, <1>5, <1>6, <1>8, <1>9 DEF CatchUp, StoredIsStamped

\* The event carries the one key it writes, attached at once and unstamped.
LEMMA CatchEmitEvent ==
  ASSUME IInv, CatchUp, Separated, NEW w \in Writer, NEW k \in Key, EmitEvent(w, k)
  PROVE  CatchUp'
<1> USE MoreNumbers DEF IInv
<1> DEFINE carried == [Unstamped(PendingStateDelta(w)) EXCEPT
                         ![k] = [val |-> clock + 1, stamp |-> 0]]
           ks == {x \in Key : carried[x].val # 0}
<1>1. w \in EventWriter /\ k \in EventKey /\ k \notin StateKey
  BY DEF EmitEvent, Separated
<1>2. /\ stream' = Append(stream, carried)
      /\ clock' = clock + 1
      /\ live' = [x \in Key |-> IF x \in ks THEN carried[x].val ELSE live[x]]
      /\ liveStamp' = [x \in Key |-> IF x \in ks THEN clock + 1 ELSE liveStamp[x]]
      /\ pending' = [pending EXCEPT ![w] =
           [x \in Key |-> IF x \in ks THEN [val |-> carried[x].val, stamp |-> clock + 1]
                                      ELSE @[x]]]
      /\ shadow' = [shadow EXCEPT ![w] =
           [x \in Key |-> IF x \in ks THEN carried[x].val ELSE @[x]]]
      /\ UNCHANGED <<discarded, stored, storedStamp, app>>
  BY DEF EmitEvent, storeVars
<1>3. \A x \in Key : PendingStateDelta(w)[x] = None
  <2>1. \A x \in StateKey : pending[w][x] = None BY <1>1 DEF EventWritersAreQuiet
  <2>2. \A x \in EventKey : NotAttached(w, x) => pending[w][x] = None
    BY DEF CatchUp, EventsAreAttached
  <2> QED BY <2>1, <2>2 DEF PendingStateDelta, Key
<1>4. /\ carried[k] = [val |-> clock + 1, stamp |-> 0]
      /\ \A x \in Key : x # k => carried[x].val = 0
      /\ carried \in [Key -> Entry]
  <2> DEFINE u == Unstamped(PendingStateDelta(w))
  <2>1. u \in [Key -> Entry] BY PendingTyped
  <2>2. \A x \in Key : u[x].val = 0 BY <1>3 DEF Unstamped, None
  <2>3. [val |-> clock + 1, stamp |-> 0] \in Entry BY DEF Entry
  <2>4. carried = [u EXCEPT ![k] = [val |-> clock + 1, stamp |-> 0]] OBVIOUS
  <2> HIDE DEF u, carried
  <2> QED BY <2>1, <2>2, <2>3, <2>4
<1>5. ks = {k} BY <1>4
<1> HIDE DEF carried, ks
<1>6. \A x \in Key : x # k => live'[x] = live[x] /\ liveStamp'[x] = liveStamp[x]
  BY <1>2, <1>5
<1>7. \A v \in Writer, x \in Key :
        IF v = w /\ x = k
        THEN pending'[v][x].val = clock + 1 /\ shadow'[v][x] = clock + 1
        ELSE pending'[v][x] = pending[v][x] /\ shadow'[v][x] = shadow[v][x]
  <2>1. pending \in [Writer -> [Key -> Entry]] /\ shadow \in [Writer -> [Key -> Nat]]
    BY DEF TypeOK
  <2>2. \A v \in Writer : v # w => pending'[v] = pending[v] /\ shadow'[v] = shadow[v]
    BY <1>2, <2>1
  <2>3. \A x \in Key : x # k => pending'[w][x] = pending[w][x] /\ shadow'[w][x] = shadow[w][x]
    BY <1>2, <1>5, <2>1
  <2>4. pending'[w][k].val = clock + 1 /\ shadow'[w][k] = clock + 1
    BY <1>2, <1>4, <1>5, <2>1
  <2> QED BY <2>2, <2>3, <2>4
<1>8. /\ DOMAIN stream' = DOMAIN stream \cup {Len(stream) + 1}
      /\ stream'[Len(stream) + 1] = carried
      /\ \A i \in DOMAIN stream : stream'[i] = stream[i]
  <2>1. stream \in Seq([Key -> Entry]) BY DEF TypeOK
  <2> QED BY <1>2, <1>4, <2>1, Appended
<1>9. \A x \in StateKey : x \in Key /\ x # k BY <1>1
<1>10. ShadowsArePast'
  <2>1. \A v \in Writer, x \in StateKey : shadow'[v][x] = shadow[v][x] BY <1>7, <1>9
  <2>2. \A v \in Writer, x \in StateKey : shadow[v][x] <= clock + 1
    BY DEF CatchUp, ShadowsArePast
  <2> QED BY <1>2, <2>1, <2>2 DEF ShadowsArePast
<1>11. StoredIsStamped'
  <2>1. \A x \in StateKey : stored[x] <= clock + 1 BY DEF CatchUp, StoredIsStamped
  <2> QED BY <1>2, <1>6, <1>9, <2>1 DEF CatchUp, StoredIsStamped
<1>12. NoWriteIsLost'
  <2>1. ASSUME NEW x \in StateKey, OnItsWay(x) PROVE OnItsWay(x)'
    <3>1. \A v \in Writer : pending'[v][x] = pending[v][x] /\ shadow'[v][x] = shadow[v][x]
      BY <1>7, <1>9
    <3> QED BY <1>2, <1>6, <1>8, <1>9, <2>1, <3>1 DEF OnItsWay, NotAttached
  <2> QED BY <1>2, <1>6, <1>9, <2>1 DEF CatchUp, NoWriteIsLost
<1>13. EventsAreAttached'
  <2>1. \A v \in Writer, x \in EventKey : NotAttached(v, x)' => pending'[v][x] = None
    BY <1>7 DEF CatchUp, EventsAreAttached, NotAttached
  <2>2. \A x \in EventKey : carried[x].val # 0 => carried[x].stamp = 0 BY <1>4
  <2> QED BY <1>8, <2>1, <2>2 DEF CatchUp, EventsAreAttached
<1>14. EventsSettle'
  <2>1. ASSUME NEW x \in EventKey, \A i \in DOMAIN stream' : stream'[i][x].val = 0
        PROVE  x # k /\ \A i \in DOMAIN stream : stream[i][x].val = 0
    BY <1>4, <1>8, <2>1
  <2> QED BY <1>2, <1>6, <2>1 DEF CatchUp, EventsSettle
<1> QED BY <1>10, <1>11, <1>12, <1>13, <1>14 DEF CatchUp

\* What a retry takes out of the delta is discarded.
LEMMA CatchResetState ==
  ASSUME IInv, CatchUp, NEW w \in Writer, ResetState(w)
  PROVE  CatchUp'
<1> USE MoreNumbers DEF IInv
<1>1. /\ \A v \in Writer, k \in Key :
           pending'[v][k] = IF v = w THEN None ELSE pending[v][k]
      /\ discarded' = discarded \cup
           {pending[w][k].val : k \in {x \in Key : NotAttached(w, x)}}
      /\ UNCHANGED <<clock, live, liveStamp, shadow, stream, stored, storedStamp, app>>
  BY DEF ResetState, storeVars, Blank, TypeOK
<1>2. NoWriteIsLost'
  <2>1. ASSUME NEW k \in StateKey, OnItsWay(k) PROVE OnItsWay(k)'
    <3>1. ASSUME NEW v \in Writer, pending[v][k].val = live[k], NotAttached(v, k)
          PROVE  OnItsWay(k)'
      <4>1. CASE v = w
        <5>1. live[k] \in discarded' BY <1>1, <3>1, <4>1
        <5> QED BY <1>1, <5>1 DEF OnItsWay
      <4>2. CASE v # w BY <1>1, <3>1, <4>2 DEF OnItsWay, NotAttached
      <4> QED BY <4>1, <4>2
    <3>2. CASE live[k] \in discarded BY <1>1, <3>2 DEF OnItsWay
    <3>3. CASE \E i \in DOMAIN stream : stream[i][k].val = live[k]
      BY <1>1, <3>3 DEF OnItsWay
    <3> QED BY <2>1, <3>1, <3>2, <3>3 DEF OnItsWay
  <2> QED BY <1>1, <2>1 DEF CatchUp, NoWriteIsLost
<1>3. EventsAreAttached' BY <1>1 DEF CatchUp, EventsAreAttached, NotAttached
<1> QED BY <1>1, <1>2, <1>3 DEF CatchUp, ShadowsArePast, StoredIsStamped, EventsSettle

\* A commit brings the stored session closer to the live one.
LEMMA CatchCommit ==
  ASSUME IInv, CatchUp, Separated, AppKeysOnEvents, Commit
  PROVE  CatchUp'
<1> USE MoreNumbers DEF IInv
<1> DEFINE d == Head(stream)
<1>1. /\ d = stream[1] /\ 1 \in DOMAIN stream
      /\ stream' = Tail(stream) /\ clock' = clock + 2
      /\ UNCHANGED <<pending, shadow, discarded>>
  BY DEF Commit, writeVars, TypeOK
<1>2. /\ \A i \in DOMAIN stream' : i + 1 \in DOMAIN stream /\ stream'[i] = stream[i + 1]
      /\ \A i \in DOMAIN stream : i # 1 => i - 1 \in DOMAIN stream' /\ stream'[i - 1] = stream[i]
  BY <1>1 DEF TypeOK
<1>3. \A k \in Key :
        /\ stored'[k] = IF ShouldApply(d[k], storedStamp[k]) THEN d[k].val ELSE stored[k]
        /\ storedStamp'[k] = IF ShouldApply(d[k], storedStamp[k])
                             THEN NewStamp(d[k], clock + 2) ELSE storedStamp[k]
        /\ live'[k] = IF ShouldApply(d[k], liveStamp[k]) THEN d[k].val ELSE live[k]
        /\ k \in AppKey => app'[k] = IF d[k].val # 0 THEN d[k].val ELSE app[k]
  BY DEF Commit, Applied, AppliedStamps, AppApplied
<1>4. \A k \in Key : d[k].val \in Nat /\ d[k].stamp \in Nat
  BY <1>1, Numbers
<1> HIDE DEF d
<1>5. ASSUME NEW k \in StateKey
      PROVE  /\ live'[k] = live[k] /\ liveStamp'[k] = liveStamp[k]
             /\ Faithful(d[k], k)
  BY <1>1, CommitIsSilent DEF EntriesFaithful
\* Of a key set with ctx.state: either the entry is at least as new as what is
\* stored, and stored, or what is stored stays.
<1>6. ASSUME NEW k \in StateKey
      PROVE  IF d[k].val # 0 /\ stored[k] <= d[k].val
             THEN stored'[k] = d[k].val /\ storedStamp'[k] = d[k].val
             ELSE stored'[k] = stored[k] /\ storedStamp'[k] = storedStamp[k]
  <2>1. storedStamp[k] = stored[k] BY DEF CatchUp, StoredIsStamped
  <2>2. d[k].val # 0 => d[k].stamp = d[k].val BY <1>5 DEF Faithful
  <2> QED BY <1>3, <1>4, <2>1, <2>2 DEF ShouldApply, NewStamp
<1>7. ShadowsArePast'
  <2>1. \A v \in Writer, x \in StateKey : shadow[v][x] <= clock + 2
    BY DEF CatchUp, ShadowsArePast
  <2> QED BY <1>1, <2>1 DEF ShadowsArePast
<1>8. StoredIsStamped'
  <2>1. ASSUME NEW k \in StateKey
        PROVE  /\ storedStamp'[k] = stored'[k] /\ stored'[k] <= clock + 2
               /\ liveStamp'[k] # 0 => stored'[k] <= liveStamp'[k]
    <3>1. /\ storedStamp[k] = stored[k] /\ stored[k] <= clock
          /\ liveStamp[k] # 0 => stored[k] <= liveStamp[k]
          /\ liveStamp[k] <= clock
      BY DEF CatchUp, StoredIsStamped, LiveIsStamped
    <3>2. d[k].val # 0 => d[k].val <= liveStamp[k] BY <1>5 DEF Faithful
    <3> QED BY <1>4, <1>5, <1>6, <3>1, <3>2
  <2> QED BY <1>1, <2>1 DEF StoredIsStamped
<1>9. NoWriteIsLost'
  <2>1. ASSUME NEW k \in StateKey
        PROVE  stored'[k] = live'[k] \/ (liveStamp'[k] # 0 /\ OnItsWay(k)')
    <3>1. d[k].val # 0 => d[k].val <= liveStamp[k] BY <1>5 DEF Faithful
    <3>2. CASE liveStamp[k] = 0
      <4>1. d[k].val = 0 BY <1>4, <3>1, <3>2
      <4> QED BY <1>5, <1>6, <3>2, <4>1 DEF CatchUp, NoWriteIsLost
    <3>3. CASE liveStamp[k] # 0 /\ stored[k] = live[k]
      <4>1. live[k] = liveStamp[k] BY <3>3 DEF LiveIsStamped
      <4> QED BY <1>4, <1>5, <1>6, <3>1, <3>3, <4>1
    <3>4. CASE liveStamp[k] # 0 /\ d[k].val = live[k]
      <4>1. live[k] = liveStamp[k] /\ stored[k] <= liveStamp[k]
        BY <3>4 DEF LiveIsStamped, CatchUp, StoredIsStamped
      <4> QED BY <1>4, <1>5, <1>6, <3>4, <4>1
    <3>5. CASE liveStamp[k] # 0 /\ stored[k] # live[k] /\ d[k].val # live[k]
      <4>1. OnItsWay(k) BY <3>5 DEF CatchUp, NoWriteIsLost
      <4>2. ASSUME NEW i \in DOMAIN stream, stream[i][k].val = live[k]
            PROVE  \E j \in DOMAIN stream' : stream'[j][k].val = live[k]
        <5>1. i # 1 BY <1>1, <3>5, <4>2
        <5> QED BY <1>2, <4>2, <5>1
      <4>3. OnItsWay(k)'
        <5>1. CASE live[k] \in discarded BY <1>1, <1>5, <5>1 DEF OnItsWay
        <5>2. CASE \E w \in Writer : pending[w][k].val = live[k] /\ NotAttached(w, k)
          BY <1>1, <1>5, <5>2 DEF OnItsWay, NotAttached
        <5>3. CASE \E i \in DOMAIN stream : stream[i][k].val = live[k]
          BY <1>5, <4>2, <5>3 DEF OnItsWay
        <5> QED BY <4>1, <5>1, <5>2, <5>3 DEF OnItsWay
      <4> QED BY <1>5, <3>5, <4>3
    <3> QED BY <3>2, <3>3, <3>4, <3>5
  <2> QED BY <2>1 DEF NoWriteIsLost
<1>10. EventsAreAttached'
  BY <1>1, <1>2 DEF CatchUp, EventsAreAttached, NotAttached
<1>11. EventsSettle'
  <2>1. ASSUME NEW k \in EventKey, \A i \in DOMAIN stream' : stream'[i][k].val = 0
        PROVE  live'[k] = IF k \in AppKey THEN app'[k] ELSE stored'[k]
    <3>1. CASE d[k].val = 0
      <4>1. ASSUME NEW i \in DOMAIN stream PROVE stream[i][k].val = 0
        <5>1. CASE i = 1 BY <1>1, <3>1, <5>1
        <5>2. CASE i # 1 BY <1>2, <2>1, <5>2
        <5> QED BY <5>1, <5>2
      <4>2. live[k] = IF k \in AppKey THEN app[k] ELSE stored[k]
        BY <4>1 DEF CatchUp, EventsSettle
      <4> QED BY <1>3, <3>1, <4>2 DEF ShouldApply
    <3>2. CASE d[k].val # 0
      <4>1. d[k].stamp = 0 BY <1>1, <3>2 DEF CatchUp, EventsAreAttached
      <4> QED BY <1>3, <3>2, <4>1 DEF ShouldApply
    <3> QED BY <3>1, <3>2
  <2> QED BY <2>1 DEF EventsSettle
<1> QED BY <1>7, <1>8, <1>9, <1>10, <1>11 DEF CatchUp

\* A turn begins with what is stored, and nothing under way.
LEMMA CatchNextTurn ==
  ASSUME IInv, CatchUp, Separated, AppKeysOnEvents, NextTurn
  PROVE  CatchUp'
<1> USE MoreNumbers DEF IInv
<1>1. /\ stream = << >>
      /\ live' = [k \in Key |-> IF k \in AppKey THEN app[k] ELSE stored[k]]
      /\ \A k \in Key : liveStamp'[k] = 0
      /\ \A w \in Writer, k \in Key : pending'[w][k] = None /\ shadow'[w][k] = 0
      /\ UNCHANGED <<clock, discarded, stream, stored, storedStamp, app>>
  BY DEF NextTurn, Drained, Blank, storeVars
<1>2. \A k \in StateKey : k \notin AppKey BY DEF Separated, AppKeysOnEvents
<1>3. ShadowsArePast' BY <1>1 DEF ShadowsArePast
<1>4. NoWriteIsLost' BY <1>1, <1>2 DEF NoWriteIsLost
<1>5. EventsAreAttached' BY <1>1 DEF EventsAreAttached
<1> QED BY <1>1, <1>3, <1>4, <1>5 DEF CatchUp, StoredIsStamped, EventsSettle

LEMMA CatchUpHolds ==
  ASSUME Separated, AppKeysOnEvents PROVE Spec => [](IInv /\ CatchUp)
<1>1. Init => CatchUp
  <2> SUFFICES ASSUME Init PROVE CatchUp
    OBVIOUS
  <2>1. /\ AppKey \subseteq Key /\ StateKey \subseteq Key /\ EventKey \subseteq Key
        /\ StateWriter \subseteq Writer /\ EventWriter \subseteq Writer
    BY StateCommitsAssumption DEF Key, Writer
  <2> QED BY <2>1 DEF Init, CatchUp, ShadowsArePast, StoredIsStamped, NoWriteIsLost,
             EventsAreAttached, EventsSettle, Blank, None
<1>2. IInv /\ CatchUp /\ [Next]_vars => IInv' /\ CatchUp'
  <2> SUFFICES ASSUME IInv, CatchUp, [Next]_vars PROVE CatchUp'
    BY IInvStep
  <2>1. ASSUME UNCHANGED vars PROVE CatchUp'
    BY <2>1 DEF vars, writeVars, storeVars, CatchUp, ShadowsArePast, StoredIsStamped,
       NoWriteIsLost, OnItsWay, EventsAreAttached, EventsSettle, NotAttached
  <2> QED BY <2>1, CatchSetState, CatchEmitValue, CatchEmitEvent, CatchResetState,
             CatchCommit, CatchNextTurn DEF Next, Over
<1> QED BY <1>1, <1>2, IInvInit, PTL DEF Spec

\* Once every event is committed the stored session has the last write of
\* every key, unless a retry discarded it, and so has the state shared beyond
\* the session for keys that travel on events only.
THEOREM StoreCatchesUp ==
  ASSUME Separated, AppKeysOnEvents PROVE Spec => []StoredCatchesUp
<1>1. ASSUME IInv, CatchUp, Drained PROVE StoredCatchesUp
  <2>1. stream = << >> /\ DOMAIN stream = {} BY <1>1 DEF Drained
  <2>2. ASSUME NEW k \in EventKey
        PROVE  live[k] = IF k \in AppKey THEN app[k] ELSE stored[k]
    BY <1>1, <2>1 DEF CatchUp, EventsSettle
  <2>3. ASSUME NEW k \in StateKey
        PROVE  stored[k] = live[k] \/ live[k] \in discarded
    <3>1. CASE liveStamp[k] # 0 /\ OnItsWay(k)
      <4>0. k \in Key BY DEF Key
      <4>1. live[k] # 0 BY <1>1, <3>1 DEF IInv, LiveIsStamped
      <4>2. \A w \in Writer : NotAttached(w, k) => pending[w][k] = None
        BY <1>1, <4>0 DEF Drained
      <4>3. None.val = 0 BY DEF None
      <4> QED BY <2>1, <3>1, <4>1, <4>2, <4>3 DEF OnItsWay
    <3> QED BY <1>1, <3>1 DEF CatchUp, NoWriteIsLost
  <2> QED BY <2>2, <2>3 DEF StoredCatchesUp, Key, AppKeysOnEvents
<1>2. IInv /\ CatchUp => StoredCatchesUp BY <1>1 DEF StoredCatchesUp
<1>3. Spec => [](IInv /\ CatchUp) BY CatchUpHolds
<1> QED BY <1>2, <1>3, PTL
=============================================================================
