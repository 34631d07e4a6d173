------------------------ MODULE DatabaseSessionsProofs ------------------------
(***************************************************************************)
(* Why concurrent appends do not undo one another: the lock on the row     *)
(* makes the transaction that holds it the only one that can commit, and   *)
(* the copy it writes from holds the state of the row.                     *)
(*                                                                         *)
(* And why a copy has all the events while the clocks agree: the stamp of  *)
(* the row then says how many events there are (Rank), and a copy at rest  *)
(* with that stamp has as many (Chronicle).                                *)
(***************************************************************************)
EXTENDS DatabaseSessions, TLAPS, FiniteSetTheorems, SequenceTheorems

\* At most one transaction holds the row.
OneHolder ==
  \A c, d \in Copies : phase[c] = "appending" /\ phase[d] = "appending" => c = d

\* The one that does appends an event to a session that exists, from a copy
\* with the state of the row.
HolderIsCurrent ==
  \A c \in Copies :
    phase[c] = "appending" => /\ row.live /\ event[c] \in Event
                              /\ copy[c].state = row.state

\* A session that does not exist has no history.
NoRowNoHistory == ~row.live => commits = << >>

IInv ==
  /\ TypeOK /\ IsFiniteSet(events)
  /\ OneHolder
  /\ HolderIsCurrent
  /\ NoRowNoHistory
  /\ RowIsTheFold
  /\ DeletedSessionLeavesNothing

---------------------------------------------------------------------------
(* Type correctness                                                        *)

\* No copy is a copy.
LEMMA NoCopyTyped == NoCopy \in Copy
<1>1. << >> \in Seq(1..MaxEvents)
  BY EmptySeq
<1> QED BY <1>1, SessionsAssumption DEF NoCopy, Copy

\* An order of the stored events names each by its id.
LEMMA OrdersTyped ==
  ASSUME TypeOK, IsFiniteSet(events), NEW s \in Orders(events)
  PROVE  Ids(s) \in Seq(1..MaxEvents)
<1>1. Cardinality(events) \in Nat
  BY FS_CardinalityType
<1>2. /\ s \in [1..Cardinality(events) -> events]
      /\ \A e \in events : e.id \in 1..MaxEvents
  BY DEF Orders, TypeOK, Event
<1>3. Ids(s) \in [1..Cardinality(events) -> 1..MaxEvents]
  BY <1>2 DEF Ids
<1> DEFINE n == Cardinality(events)
<1>4. n \in Nat /\ Ids(s) \in [1..n -> 1..MaxEvents]
  BY <1>1, <1>3
<1> HIDE DEF n
<1> QED BY <1>4, SeqDef

\* Appending an event to a copy, committed or not, leaves a copy.
LEMMA UpdatedTyped ==
  ASSUME TypeOK, NEW c \in Copies, event[c] \in Event, NEW kept \in BOOLEAN
  PROVE  Updated(c, kept) \in Copy /\ Written(c) \in 0..MaxEvents
<1>1. copy[c] \in Copy /\ event[c].id \in 1..MaxEvents /\ event[c].time \in 0..MaxTime
  BY SessionsAssumption DEF TypeOK, Event
<1>2. Written(c) \in 0..MaxEvents
  BY <1>1, SessionsAssumption DEF Written, Copy
<1>3. Put(copy[c].events, event[c].id) \in Seq(1..MaxEvents)
  <2>1. copy[c].events \in Seq(1..MaxEvents)
    BY <1>1 DEF Copy
  <2>2. Append(copy[c].events, event[c].id) \in Seq(1..MaxEvents)
    BY <1>1, <2>1, AppendProperties
  <2> QED BY <2>1, <2>2 DEF Put
<1> QED BY <1>1, <1>2, <1>3 DEF Updated, Copy

\* An event a run may append is an event.
LEMMA CandidatesTyped ==
  ASSUME TypeOK, NEW c \in Copies
  PROVE  Candidates(c) \subseteq Event
<1>1. created \in 0..MaxEvents /\ event[c] \in Event \cup {NoEvent}
  BY DEF TypeOK
<1> QED BY <1>1, SessionsAssumption DEF Candidates, Event

\* Every step keeps the variables in their types.
LEMMA TypeStep ==
  TypeOK /\ IsFiniteSet(events) /\ HolderIsCurrent /\ [Next]_vars
    => TypeOK' /\ IsFiniteSet(events')
<1> SUFFICES ASSUME TypeOK, IsFiniteSet(events), HolderIsCurrent, [Next]_vars
             PROVE  TypeOK' /\ IsFiniteSet(events')
  OBVIOUS
<1> USE SessionsAssumption
<1> DEFINE Typed == TypeOK' /\ IsFiniteSet(events')
<1>1. ASSUME NEW c \in Copies, Create(c) PROVE Typed
  <2>1. [NoCopy EXCEPT !.has = TRUE, !.true = TRUE] \in Copy
    BY NoCopyTyped DEF Copy
  <2>2. copy' \in [Copies -> Copy]
    BY <1>1, <2>1 DEF Create, TypeOK
  <2> QED BY <1>1, <2>2 DEF Create, TypeOK
<1>2. ASSUME NEW c \in Copies, LoadRow(c) PROVE Typed
  <2>1. [NoCopy EXCEPT !.state = row.state, !.time = row.time] \in Copy
    BY NoCopyTyped DEF Copy, TypeOK
  <2>2. copy' \in [Copies -> Copy]
    BY <1>2, <2>1 DEF LoadRow, TypeOK
  <2> QED BY <1>2, <2>2 DEF LoadRow, TypeOK
<1>3. ASSUME NEW c \in Copies, LoadEvents(c) PROVE Typed
  <2>1. PICK s \in Orders(events) :
          copy' = [copy EXCEPT ![c].has = TRUE, ![c].true = TRUE, ![c].events = Ids(s)]
    BY <1>3 DEF LoadEvents
  <2>2. copy' \in [Copies -> Copy]
    <3>1. Ids(s) \in Seq(1..MaxEvents)
      BY OrdersTyped
    <3>2. [copy[c] EXCEPT !.has = TRUE, !.true = TRUE, !.events = Ids(s)] \in Copy
      <4>1. copy[c] \in Copy
        BY DEF TypeOK
      <4> QED BY <3>1, <4>1 DEF Copy
    <3>3. copy' = [copy EXCEPT ![c] = [copy[c] EXCEPT !.has = TRUE, !.true = TRUE, !.events = Ids(s)]]
      BY <2>1 DEF TypeOK, Copy
    <3> QED BY <3>2, <3>3 DEF TypeOK
  <2> QED BY <1>3, <2>2 DEF LoadEvents, TypeOK
<1>4. ASSUME NEW c \in Copies, Append1(c) PROVE Typed
  <2>1. PICK e \in Event :
          /\ event' = [event EXCEPT ![c] = e]
          /\ created' = IF e.id > created THEN e.id ELSE created
    BY <1>4, CandidatesTyped DEF Append1
  <2>2. created' \in 0..MaxEvents /\ event' \in [Copies -> Event \cup {NoEvent}]
    BY <2>1 DEF TypeOK, Event
  <2>3. row.state \in 0..MaxEvents /\ copy \in [Copies -> Copy]
    BY DEF TypeOK
  <2>4. copy' \in [Copies -> Copy]
    <3>1. CASE Stale(c)
      <4>1. PICK s \in Orders(events) :
              copy' = [copy EXCEPT ![c].true = TRUE, ![c].events = Ids(s), ![c].state = row.state]
        BY <1>4, <3>1 DEF Append1
      <4>2. Ids(s) \in Seq(1..MaxEvents)
        BY OrdersTyped
      <4>3. copy[c] \in Copy
        BY <2>3
      <4>4. [copy[c] EXCEPT !.true = TRUE, !.events = Ids(s), !.state = row.state] \in Copy
        BY <2>3, <4>2, <4>3 DEF Copy
      <4>5. copy' = [copy EXCEPT ![c] =
                       [copy[c] EXCEPT !.true = TRUE, !.events = Ids(s), !.state = row.state]]
        BY <2>3, <4>1, <4>3 DEF Copy
      <4> QED BY <2>3, <4>4, <4>5
    <3>2. CASE ~Stale(c)
      <4>1. copy' = [copy EXCEPT ![c].state = row.state]
        BY <1>4, <3>2 DEF Append1
      <4> QED BY <4>1, <2>3 DEF Copy
    <3> QED BY <3>1, <3>2
  <2> QED BY <1>4, <2>2, <2>4 DEF Append1, TypeOK
<1>5. ASSUME NEW c \in Copies, Commit(c) PROVE Typed
  <2>1. event[c] \in Event
    BY <1>5 DEF Commit, HolderIsCurrent
  <2>2. Updated(c, TRUE) \in Copy /\ Written(c) \in 0..MaxEvents
    BY <2>1, UpdatedTyped
  <2>3. row' \in [live : BOOLEAN, state : 0..MaxEvents, time : 0..MaxTime]
    <3>1. event[c].time \in 0..MaxTime
      BY <2>1 DEF Event
    <3> QED BY <1>5, <2>2, <3>1 DEF Commit, Touched, TypeOK
  <2>4. copy' \in [Copies -> Copy] /\ events' \subseteq Event
    BY <1>5, <2>1, <2>2 DEF Commit, TypeOK
  <2>6. commits' \in Seq(Event)
    BY <1>5, <2>1, AppendProperties DEF Commit, TypeOK
  <2>5. IsFiniteSet(events')
    <3>1. IsFiniteSet({e \in events : e.id # event[c].id})
      BY FS_Subset
    <3> QED BY <1>5, <3>1, FS_AddElement DEF Commit
  <2> QED BY <1>5, <2>3, <2>4, <2>5, <2>6 DEF Commit, TypeOK
<1>6. ASSUME NEW c \in Copies, CommitFails(c) PROVE Typed
  <2>1. event[c] \in Event
    BY <1>6 DEF CommitFails, HolderIsCurrent
  <2>2. Updated(c, FALSE) \in Copy
    BY <2>1, UpdatedTyped
  <2>3. copy' \in [Copies -> Copy]
    BY <1>6, <2>2 DEF CommitFails, TypeOK
  <2> QED BY <1>6, <2>3 DEF CommitFails, TypeOK
<1>7. ASSUME NEW c \in Copies, Delete(c) PROVE Typed
  <2>1. /\ row' = [row EXCEPT !.live = FALSE] /\ commits' = << >> /\ events' = events
        /\ phase' = [phase EXCEPT ![c] = "dropping"] /\ deletes' = deletes + 1
        /\ UNCHANGED <<copy, event, created, broken>>
    BY <1>7 DEF Delete, Drop
  <2>2. commits' \in Seq(Event)
    BY <2>1, EmptySeq
  <2>3. row' \in [live : BOOLEAN, state : 0..MaxEvents, time : 0..MaxTime]
    BY <2>1 DEF TypeOK
  <2>4. phase' \in [Copies -> {"none", "loading", "appending", "dropping"}] /\ deletes' \in Nat
    BY <2>1 DEF TypeOK
  <2>5. events' = events /\ UNCHANGED <<copy, event, created, broken>>
    BY <2>1
  <2> QED BY <2>2, <2>3, <2>4, <2>5 DEF TypeOK
<1>8. ASSUME NEW c \in Copies, DeleteEvents(c) PROVE Typed
  <2>1. IsFiniteSet({})
    BY FS_EmptySet
  <2>2. /\ events' = {} /\ phase' = [phase EXCEPT ![c] = "none"]
        /\ UNCHANGED <<row, commits, copy, event, created, deletes, broken>>
    BY <1>8 DEF DeleteEvents, Drop
  <2> QED BY <2>1, <2>2 DEF TypeOK
<1>9. ASSUME NEW c \in Copies, Crash(c) PROVE Typed
  <2> QED BY <1>9, NoCopyTyped DEF Crash, TypeOK
<1>10. CASE UNCHANGED vars
  BY <1>10 DEF vars, TypeOK
<1> QED BY <1>1, <1>2, <1>3, <1>4, <1>5, <1>6, <1>7, <1>8, <1>9, <1>10 DEF Next


---------------------------------------------------------------------------
(* The invariant                                                           *)

\* The history of a session that exists folds to the state of its row, one
\* committed event further each time.
LEMMA FoldStep ==
  ASSUME TypeOK, HolderIsCurrent, RowIsTheFold, NEW c \in Copies, Commit(c)
  PROVE  RowIsTheFold'
<1>1. /\ row.live /\ event[c] \in Event /\ copy[c].state = row.state
      /\ row' = [row EXCEPT !.state = Written(c), !.time = event[c].time]
      /\ commits' = Append(commits, event[c]) /\ commits \in Seq(Event)
  BY DEF Commit, Touched, HolderIsCurrent, TypeOK
<1> DEFINE n == Len(commits)
<1>2. /\ n \in Nat /\ DOMAIN commits = 1..n /\ DOMAIN commits' = 1..(n + 1)
      /\ commits'[n + 1] = event[c] /\ \A i \in 1..n : commits'[i] = commits[i]
  BY <1>1, LenProperties, AppendProperties
<1>3. row'.state = Written(c)
  BY <1>1 DEF TypeOK
<1> HIDE DEF n
<1>4. CASE event[c].writes
  <2>1. row'.state = commits'[n + 1].id /\ commits'[n + 1].writes
    BY <1>2, <1>3, <1>4 DEF Written
  <2>2. n + 1 \in DOMAIN commits' /\ \A j \in DOMAIN commits' : ~(j > n + 1)
    BY <1>2
  <2>3. \E i \in DOMAIN commits' : LastToWrite(i)' /\ row'.state = commits'[i].id
    BY <2>1, <2>2 DEF LastToWrite
  <2> QED BY <2>3 DEF RowIsTheFold
<1>5. CASE ~event[c].writes
  <2>1. row'.state = row.state
    BY <1>1, <1>3, <1>5 DEF Written
  <2>2. CASE \E i \in DOMAIN commits : LastToWrite(i) /\ row.state = commits[i].id
    <3>1. PICK i \in 1..n : LastToWrite(i) /\ row.state = commits[i].id
      BY <1>2, <2>2
    <3>2. LastToWrite(i)' /\ row'.state = commits'[i].id
      BY <1>2, <1>5, <2>1, <3>1 DEF LastToWrite
    <3> QED BY <1>2, <3>2 DEF RowIsTheFold
  <2>3. CASE (\A i \in DOMAIN commits : ~commits[i].writes) /\ row.state = 0
    <3>1. \A i \in DOMAIN commits' : ~commits'[i].writes
      BY <1>2, <1>5, <2>3
    <3> QED BY <2>1, <2>3, <3>1 DEF RowIsTheFold
  <2> QED BY <1>1, <2>2, <2>3 DEF RowIsTheFold
<1> QED BY <1>4, <1>5

\* The invariant holds at the start.
LEMMA InitInv == Init => IInv
<1> SUFFICES ASSUME Init PROVE IInv
  OBVIOUS
<1> USE SessionsAssumption
<1>1. TypeOK
  <2>1. commits \in Seq(Event)
    BY EmptySeq DEF Init
  <2>2. row \in [live : BOOLEAN, state : 0..MaxEvents, time : 0..MaxTime]
    BY DEF Init
  <2>3. copy \in [Copies -> Copy]
    BY NoCopyTyped DEF Init
  <2> QED BY <2>1, <2>2, <2>3 DEF Init, TypeOK
<1>2. IsFiniteSet(events)
  BY FS_EmptySet DEF Init
<1>3. OneHolder /\ HolderIsCurrent
  BY DEF Init, OneHolder, HolderIsCurrent
<1> QED
  BY <1>1, <1>2, <1>3
  DEF Init, IInv, NoRowNoHistory, RowIsTheFold, DeletedSessionLeavesNothing

\* Every step preserves the invariant.
LEMMA NextInv == IInv /\ [Next]_vars => IInv'
<1> SUFFICES ASSUME IInv, [Next]_vars PROVE IInv'
  OBVIOUS
<1> USE SessionsAssumption DEF IInv
<1>1. TypeOK' /\ IsFiniteSet(events')
  BY TypeStep
<1> DEFINE Rest == /\ OneHolder' /\ HolderIsCurrent' /\ NoRowNoHistory'
                   /\ RowIsTheFold' /\ DeletedSessionLeavesNothing'
<1>2. ASSUME NEW c \in Copies, Create(c) PROVE Rest
  <2>1. /\ ~row.live /\ commits = << >> /\ row'.live /\ row'.state = 0
        /\ phase' = phase /\ commits' = commits
    BY <1>2 DEF Create, NoRowNoHistory
  <2>2. \A d \in Copies : phase[d] # "appending"
    BY <2>1 DEF HolderIsCurrent
  <2>3. OneHolder' /\ HolderIsCurrent'
    BY <2>1, <2>2 DEF OneHolder, HolderIsCurrent
  <2> QED
    BY <2>1, <2>3 DEF NoRowNoHistory, RowIsTheFold, DeletedSessionLeavesNothing
<1>3. ASSUME NEW c \in Copies, LoadRow(c) PROVE Rest
  <2>1. /\ phase[c] = "none" /\ row.live /\ UNCHANGED <<row, events, commits, broken>>
        /\ phase' = [phase EXCEPT ![c] = "loading"]
        /\ \A d \in Copies \ {c} : copy'[d] = copy[d] /\ event'[d] = event[d]
    BY <1>3 DEF LoadRow, TypeOK
  <2>2. OneHolder' /\ HolderIsCurrent'
    BY <2>1 DEF OneHolder, HolderIsCurrent, TypeOK
  <2> QED
    BY <2>1, <2>2
    DEF NoRowNoHistory, RowIsTheFold, LastToWrite, DeletedSessionLeavesNothing
<1>4. ASSUME NEW c \in Copies, LoadEvents(c) PROVE Rest
  <2>1. /\ phase[c] = "loading" /\ UNCHANGED <<row, events, commits, broken, event>>
        /\ phase' = [phase EXCEPT ![c] = "none"]
        /\ \A d \in Copies \ {c} : copy'[d] = copy[d]
    BY <1>4 DEF LoadEvents, TypeOK
  <2>2. OneHolder' /\ HolderIsCurrent'
    BY <2>1 DEF OneHolder, HolderIsCurrent, TypeOK
  <2>3. DeletedSessionLeavesNothing'
    BY <2>1 DEF DeletedSessionLeavesNothing, TypeOK
  <2> QED BY <2>1, <2>2, <2>3 DEF NoRowNoHistory, RowIsTheFold, LastToWrite
<1>5. ASSUME NEW c \in Copies, Append1(c) PROVE Rest
  <2>1. /\ row.live /\ Unlocked /\ UNCHANGED <<row, events, commits, broken>>
        /\ phase' = [phase EXCEPT ![c] = "appending"]
        /\ \A d \in Copies \ {c} : copy'[d] = copy[d] /\ event'[d] = event[d]
    BY <1>5 DEF Append1, TypeOK
  <2>2. event'[c] \in Event
    BY <1>5, CandidatesTyped DEF Append1, TypeOK
  <2>3. copy'[c].state = row.state
    <3>1. copy[c] \in Copy /\ copy \in [Copies -> Copy]
      BY DEF TypeOK
    <3>2. CASE Stale(c)
      <4>1. PICK s \in Orders(events) :
              copy' = [copy EXCEPT ![c].true = TRUE, ![c].events = Ids(s), ![c].state = row.state]
        BY <1>5, <3>2 DEF Append1
      <4> QED BY <3>1, <4>1 DEF Copy
    <3>3. CASE ~Stale(c)
      BY <1>5, <3>1, <3>3 DEF Append1, Copy
    <3> QED BY <3>2, <3>3
  <2>4. OneHolder' /\ HolderIsCurrent'
    BY <2>1, <2>2, <2>3 DEF OneHolder, HolderIsCurrent, Unlocked, TypeOK
  <2> QED
    BY <2>1, <2>4
    DEF NoRowNoHistory, RowIsTheFold, LastToWrite, DeletedSessionLeavesNothing
<1>6. ASSUME NEW c \in Copies, Commit(c) PROVE Rest
  <2>1. /\ phase[c] = "appending" /\ row.live /\ row'.live
        /\ phase' = [phase EXCEPT ![c] = "none"]
    BY <1>6 DEF Commit, Touched, HolderIsCurrent, TypeOK
  <2>2. \A d \in Copies : phase'[d] # "appending"
    BY <2>1 DEF OneHolder, TypeOK
  <2>3. RowIsTheFold'
    BY <1>6, FoldStep
  <2> QED
    BY <2>1, <2>2, <2>3
    DEF OneHolder, HolderIsCurrent, NoRowNoHistory, DeletedSessionLeavesNothing
<1>7. ASSUME NEW c \in Copies, CommitFails(c) PROVE Rest
  <2>1. /\ phase[c] = "appending" /\ row.live
        /\ phase' = [phase EXCEPT ![c] = "none"]
        /\ UNCHANGED <<row, events, event, broken, commits>>
    BY <1>7 DEF CommitFails, HolderIsCurrent
  <2>2. \A d \in Copies : phase'[d] # "appending"
    BY <2>1 DEF OneHolder, TypeOK
  <2> QED
    BY <2>1, <2>2
    DEF OneHolder, HolderIsCurrent, NoRowNoHistory, RowIsTheFold, LastToWrite,
        DeletedSessionLeavesNothing
<1>8. ASSUME NEW c \in Copies, Delete(c) PROVE Rest
  <2>1. /\ Unlocked /\ ~row'.live /\ commits' = << >>
        /\ phase' = [phase EXCEPT ![c] = "dropping"]
    BY <1>8 DEF Delete, Drop, TypeOK
  <2>2. \A d \in Copies : phase'[d] # "appending"
    BY <2>1 DEF Unlocked, TypeOK
  <2>3. phase'[c] = "dropping"
    BY <2>1 DEF TypeOK
  <2> QED
    BY <2>1, <2>2, <2>3
    DEF OneHolder, HolderIsCurrent, NoRowNoHistory, RowIsTheFold,
        DeletedSessionLeavesNothing
<1>9. ASSUME NEW c \in Copies, DeleteEvents(c) PROVE Rest
  <2>1. /\ events' = {} /\ phase' = [phase EXCEPT ![c] = "none"]
        /\ UNCHANGED <<row, copy, event, commits>>
    BY <1>9 DEF DeleteEvents, Drop
  <2>2. OneHolder' /\ HolderIsCurrent'
    BY <2>1 DEF OneHolder, HolderIsCurrent, TypeOK
  <2> QED
    BY <2>1, <2>2
    DEF NoRowNoHistory, RowIsTheFold, LastToWrite, DeletedSessionLeavesNothing
<1>10. ASSUME NEW c \in Copies, Crash(c) PROVE Rest
  <2>1. /\ phase' = [phase EXCEPT ![c] = "none"] /\ UNCHANGED <<row, events, commits>>
        /\ broken' = (broken \/ phase[c] = "dropping")
        /\ \A d \in Copies \ {c} : copy'[d] = copy[d] /\ event'[d] = event[d]
    BY <1>10 DEF Crash, TypeOK
  <2>2. OneHolder' /\ HolderIsCurrent'
    BY <2>1 DEF OneHolder, HolderIsCurrent, TypeOK
  <2>3. DeletedSessionLeavesNothing'
    BY <2>1 DEF DeletedSessionLeavesNothing, TypeOK
  <2> QED BY <2>1, <2>2, <2>3 DEF NoRowNoHistory, RowIsTheFold, LastToWrite
<1>11. ASSUME UNCHANGED vars PROVE Rest
  BY <1>11
  DEF vars, OneHolder, HolderIsCurrent, NoRowNoHistory, RowIsTheFold, LastToWrite,
      DeletedSessionLeavesNothing
<1>12. Rest
  BY <1>2, <1>3, <1>4, <1>5, <1>6, <1>7, <1>8, <1>9, <1>10, <1>11 DEF Next
<1> QED BY <1>1, <1>12 DEF IInv

---------------------------------------------------------------------------
(* What follows                                                            *)

\* The invariant holds of every run.
LEMMA Invariance == Spec => []IInv
<1> QED BY InitInv, NextInv, PTL DEF Spec

\* For any number of processes, rows, copies and histories keep their types.
THEOREM TypeCorrect == Spec => []TypeOK
<1>1. IInv => TypeOK
  BY DEF IInv
<1> QED BY <1>1, Invariance, PTL

\* For any number of processes that append at once, fail, crash and delete, the
\* state of the row is that of the last committed event that wrote it.
THEOREM NoAppendIsUndone == Spec => []RowIsTheFold
<1>1. IInv => RowIsTheFold
  BY DEF IInv
<1> QED BY <1>1, Invariance, PTL

\* A deletion that ran to its end leaves no events to a session of its name,
\* whatever was appended meanwhile.
THEOREM DeletionIsComplete == Spec => []DeletedSessionLeavesNothing
<1>1. IInv => DeletedSessionLeavesNothing
  BY DEF IInv
<1> QED BY <1>1, Invariance, PTL

---------------------------------------------------------------------------
(* A copy that is not older than the row misses nothing                    *)

\* No event is appended twice: what a run appends, or keeps of an append that
\* failed, is not committed and is no other run's.
EachOnce ==
  /\ \A c \in Copies : event[c] # NoEvent =>
       /\ event[c].id <= created
       /\ \A i \in DOMAIN commits : commits[i].id # event[c].id
       /\ \A d \in Copies \ {c} : event[d].id # event[c].id
  /\ \A i \in DOMAIN commits : commits[i].id <= created
  /\ \A i, j \in DOMAIN commits : i # j => commits[i].id # commits[j].id

\* The row's timestamp when k events had been committed.
TimeAt(k) == IF k = 0 THEN 0 ELSE commits[k].time

\* As long as nothing was deleted, the rows of the events are the history, the
\* row bears the last timestamp, and nobody has a copy of a session that was
\* never created.
Undeleted ==
  deletes = 0 =>
    /\ events = {commits[i] : i \in DOMAIN commits}
    /\ row.time = TimeAt(Len(commits))
    /\ \A c \in Copies : phase[c] # "dropping"
    /\ ~row.live => \A c \in Copies : phase[c] = "none" /\ ~copy[c].has

\* The copy holds the first events of the history, those it was stamped with at
\* least; stamped with the last, it has the state of the row.
BehindAt(c, k) ==
  /\ copy[c].time = TimeAt(k)
  /\ k = Len(commits) => copy[c].state = row.state
  /\ phase[c] # "loading" =>
       /\ Len(copy[c].events) \in k..Len(commits)
       /\ \A i \in 1..Len(copy[c].events) : copy[c].events[i] = commits[i].id
Behind(c) == \E k \in 0..Len(commits) : BehindAt(c, k)

\* With clocks that agree, every copy is behind, and the one that is appended
\* to was brought up to date.
Near(c) ==
  /\ \/ phase[c] = "none" /\ copy[c].has /\ copy[c].true
     \/ phase[c] = "loading"
     => Behind(c)
  /\ phase[c] = "appending" /\ copy[c].true => copy[c].events = Ids(commits)
InStep == deletes = 0 /\ OrderedClocks => \A c \in Copies : Near(c)

Chronicle == EachOnce /\ Undeleted /\ InStep

\* The first n numbers are n.
LEMMA Interval == \A n \in Nat : IsFiniteSet(1..n) /\ Cardinality(1..n) = n
BY FS_Interval

\* In a list of all events in the order of their timestamps, the i-th is the
\* one with i events up to its time.
LEMMA Rank ==
  ASSUME NEW E \in SUBSET Event, NEW n \in Nat, NEW f \in [1..n -> E],
         \A e \in E : \E i \in 1..n : f[i] = e,
         \A i, j \in 1..n : i < j => f[i].time < f[j].time,
         NEW i \in 1..n
  PROVE  Cardinality({e \in E : e.time <= f[i].time}) = i
<1> DEFINE U == {e \in E : e.time <= f[i].time}
           g == [k \in 1..i |-> f[k]]
<1>1. \A k \in 1..n : f[k] \in E /\ f[k].time \in Nat BY DEF Event
<1>2. \A k, l \in 1..n : f[k].time <= f[l].time <=> k <= l BY <1>1
<1>3. g \in [1..i -> U] BY <1>1, <1>2
<1>4. \A k, l \in 1..i : g[k] = g[l] => k = l BY <1>1, <1>2
<1>5. \A e \in U : \E k \in 1..i : g[k] = e BY <1>1, <1>2
<1>6. g \in Bijection(1..i, U) BY <1>3, <1>4, <1>5 DEF Bijection, Injection, Surjection, IsInjective
<1>7. IsFiniteSet(1..i) /\ Cardinality(1..i) = i BY Interval
<1> HIDE DEF U, g
<1>8. ExistsBijection(1..i, U) BY <1>6 DEF ExistsBijection
<1>9. Cardinality(U) = i BY <1>7, <1>8, FS_Bijection
<1> QED BY <1>9 DEF U

\* With clocks that agree there is one order of the stored events: that of the
\* commits.
LEMMA OneOrder ==
  ASSUME TypeOK, IsFiniteSet(events), OrderedClocks,
         events = {commits[i] : i \in DOMAIN commits}, NEW s \in Orders(events)
  PROVE  Ids(s) = Ids(commits)
<1> DEFINE n == Len(commits)
<1>1. n \in Nat /\ commits \in [1..n -> events] /\ events \in SUBSET Event BY DEF TypeOK
<1>2. \A e \in events : e.time \in Nat BY <1>1 DEF Event
<1>3. \A i, j \in 1..n : i < j => commits[i].time < commits[j].time BY DEF OrderedClocks, TypeOK
<1>4. \A e \in events : \E i \in 1..n : commits[i] = e BY <1>1
<1>5. IsFiniteSet(1..n) /\ Cardinality(1..n) = n BY <1>1, Interval
<1>6. Cardinality(events) = n
  <2>1. \A i, j \in 1..n : commits[i] = commits[j] => i = j
    <3> SUFFICES ASSUME NEW i \in 1..n, NEW j \in 1..n, commits[i] = commits[j] PROVE i = j
      OBVIOUS
    <3>1. commits[i].time \in Nat BY <1>1, <1>2
    <3> QED BY <1>3, <3>1
  <2>2. commits \in Bijection(1..n, events)
    BY <1>1, <1>4, <2>1 DEF Bijection, Injection, Surjection, IsInjective
  <2> HIDE DEF n
  <2>3. ExistsBijection(1..n, events) BY <2>2 DEF ExistsBijection
  <2> QED BY <1>5, <2>3, FS_Bijection
<1> HIDE DEF n
<1>7. /\ s \in [1..n -> events]
      /\ \A i, j \in 1..n : i # j => s[i] # s[j]
      /\ \A i, j \in 1..n : i < j => s[i].time <= s[j].time
  BY <1>6 DEF Orders
<1>8. \A e \in events : \E i \in 1..n : s[i] = e
  <2>1. s \in Injection(1..n, events) BY <1>7 DEF Injection, IsInjective
  <2>2. s \in Surjection(1..n, events) BY <1>5, <1>6, <2>1, FS_Injection
  <2> QED BY <2>2 DEF Surjection
<1>9. \A i, j \in 1..n : i < j => s[i].time < s[j].time
  <2> SUFFICES ASSUME NEW i \in 1..n, NEW j \in 1..n, i < j PROVE s[i].time # s[j].time
    BY <1>2, <1>7
  <2>1. s[i] \in events /\ s[j] \in events /\ s[i] # s[j] BY <1>7
  <2>2. PICK k \in 1..n, l \in 1..n : commits[k] = s[i] /\ commits[l] = s[j] BY <1>4, <2>1
  <2>3. k < l \/ l < k BY <2>1, <2>2
  <2>4. s[i].time \in Nat /\ s[j].time \in Nat BY <1>2, <2>1
  <2> QED BY <1>3, <2>2, <2>3, <2>4
<1>10. ASSUME NEW i \in 1..n PROVE s[i] = commits[i]
  <2>1. PICK j \in 1..n : commits[j] = s[i] BY <1>4, <1>7
  <2>2. Cardinality({e \in events : e.time <= s[i].time}) = i
    BY <1>1, <1>7, <1>8, <1>9, Rank
  <2>3. Cardinality({e \in events : e.time <= commits[j].time}) = j
    <3>1. commits \in [1..n -> events] /\ n \in Nat /\ events \in SUBSET Event BY <1>1
    <3> QED BY <1>3, <1>4, <3>1, Rank
  <2> QED BY <2>1, <2>2, <2>3
<1>11. DOMAIN s = 1..n /\ DOMAIN commits = 1..n BY <1>1, <1>7 DEF n
<1> QED BY <1>10, <1>11 DEF Ids

\* No event is appended twice.
LEMMA EachOnceStep == TypeOK /\ EachOnce /\ HolderIsCurrent /\ [Next]_vars => EachOnce'
<1> SUFFICES ASSUME TypeOK, EachOnce, HolderIsCurrent, [Next]_vars PROVE EachOnce'
  OBVIOUS
<1>1. /\ created \in Nat /\ commits \in Seq(Event)
      /\ \A c \in Copies : event[c] # NoEvent => event[c].id \in Nat \ {0}
      /\ event \in [Copies -> Event \cup {NoEvent}]
  BY SessionsAssumption DEF TypeOK, Event
<1>2. ASSUME NEW c \in Copies, event' = [event EXCEPT ![c] = NoEvent],
             UNCHANGED <<commits, created>>
      PROVE  EachOnce'
  <2>1. \A d \in Copies : event'[d] = IF d = c THEN NoEvent ELSE event[d] BY <1>1, <1>2
  <2>2. NoEvent.id = 0 BY DEF NoEvent
  <2> QED BY <1>1, <1>2, <2>1, <2>2 DEF EachOnce
<1>3. ASSUME NEW c \in Copies, Append1(c) PROVE EachOnce'
  <2>1. PICK e \in Candidates(c) :
          /\ event' = [event EXCEPT ![c] = e]
          /\ created' = IF e.id > created THEN e.id ELSE created
    BY <1>3 DEF Append1
  <2>2. commits' = commits BY <1>3 DEF Append1
  <2>3. \A d \in Copies : event'[d] = IF d = c THEN e ELSE event[d] BY <1>1, <2>1
  <2>4. NoEvent.id = 0 BY DEF NoEvent
  <2>5. CASE e = event[c] /\ e # NoEvent
    <3>1. created' = created BY <1>1, <2>1, <2>5 DEF EachOnce
    <3>2. event' = event BY <1>1, <2>1, <2>5
    <3> QED BY <2>2, <3>1, <3>2 DEF EachOnce
  <2>6. CASE e.id = created + 1
    <3>1. created' = created + 1 BY <1>1, <2>1, <2>6
    <3>2. \A d \in Copies \ {c} : event'[d] = event[d] /\ event[d].id # e.id
      BY <1>1, <2>3, <2>4, <2>6 DEF EachOnce
    <3>3. \A i \in DOMAIN commits : commits[i].id <= created /\ commits[i].id \in Nat
      <4>1. \A i \in DOMAIN commits : commits[i] \in Event BY <1>1
      <4>2. \A i \in DOMAIN commits : commits[i].id \in Nat BY <4>1, SessionsAssumption DEF Event
      <4> QED BY <4>2 DEF EachOnce
    <3> QED BY <1>1, <2>2, <2>3, <2>6, <3>1, <3>2, <3>3 DEF EachOnce
  <2> QED BY <2>1, <2>5, <2>6 DEF Candidates
<1>4. ASSUME NEW c \in Copies, Commit(c) PROVE EachOnce'
  <2>1. event[c] \in Event /\ event[c] # NoEvent
    BY <1>4 DEF Commit, HolderIsCurrent, Event, NoEvent
  <2>2. /\ commits' = Append(commits, event[c]) /\ created' = created
        /\ \A d \in Copies : event'[d] = IF d = c THEN NoEvent ELSE event[d]
    BY <1>1, <1>4 DEF Commit
  <2>3. /\ DOMAIN commits' = 1..(Len(commits) + 1) /\ DOMAIN commits = 1..Len(commits)
        /\ commits'[Len(commits) + 1] = event[c]
        /\ \A i \in 1..Len(commits) : commits'[i] = commits[i]
    BY <1>1, <2>1, <2>2
  <2>4. NoEvent.id = 0 BY DEF NoEvent
  <2>5. ASSUME NEW d \in Copies, event'[d] # NoEvent
        PROVE  /\ event'[d].id <= created
               /\ \A i \in DOMAIN commits' : commits'[i].id # event'[d].id
               /\ \A b \in Copies \ {d} : event'[b].id # event'[d].id
    <3>1. d # c /\ event'[d] = event[d]
      BY <2>2, <2>5
    <3>2. /\ event[d].id <= created /\ event[d].id # event[c].id
          /\ \A i \in DOMAIN commits : commits[i].id # event[d].id
      BY <2>1, <2>5, <3>1 DEF EachOnce
    <3>3. ASSUME NEW b \in Copies \ {d} PROVE event'[b].id # event'[d].id
      <4>1. CASE b = c BY <1>1, <2>2, <2>4, <2>5, <3>1, <4>1
      <4>2. CASE b # c BY <2>2, <2>5, <3>1, <4>2 DEF EachOnce
      <4> QED BY <4>1, <4>2
    <3>4. ASSUME NEW i \in DOMAIN commits' PROVE commits'[i].id # event'[d].id
      <4>1. CASE i = Len(commits) + 1 BY <2>3, <3>1, <3>2, <4>1
      <4>2. CASE i # Len(commits) + 1 BY <1>1, <2>3, <3>1, <3>2, <4>2
      <4> QED BY <4>1, <4>2
    <3> QED BY <3>1, <3>2, <3>3, <3>4
  <2>6. \A i \in DOMAIN commits' : commits'[i].id <= created
    BY <1>1, <2>1, <2>3 DEF EachOnce
  <2>7. \A i, j \in DOMAIN commits' : i # j => commits'[i].id # commits'[j].id
    BY <1>1, <2>1, <2>3 DEF EachOnce
  <2> QED BY <2>2, <2>5, <2>6, <2>7 DEF EachOnce
<1>5. ASSUME NEW c \in Copies, Delete(c) PROVE EachOnce'
  BY <1>1, <1>5 DEF Delete, Drop, EachOnce
<1>6. ASSUME UNCHANGED <<event, commits, created>> PROVE EachOnce'
  BY <1>6 DEF EachOnce
<1>7. ASSUME NEW c \in Copies, Create(c) \/ LoadRow(c) \/ Crash(c) PROVE EachOnce'
  BY <1>2, <1>7 DEF Create, LoadRow, Crash
<1>8. ASSUME NEW c \in Copies, LoadEvents(c) \/ CommitFails(c) \/ DeleteEvents(c)
      PROVE  EachOnce'
  <2>1. LoadEvents(c) => UNCHANGED <<event, commits, created>> BY DEF LoadEvents
  <2>2. CommitFails(c) => UNCHANGED <<event, commits, created>> BY DEF CommitFails
  <2>3. DeleteEvents(c) => UNCHANGED <<event, commits, created>> BY DEF DeleteEvents, Drop
  <2> QED BY <1>6, <1>8, <2>1, <2>2, <2>3
<1>9. ASSUME UNCHANGED vars PROVE EachOnce' BY <1>6, <1>9 DEF vars
<1> QED BY <1>3, <1>4, <1>5, <1>7, <1>8, <1>9 DEF Next

\* A commit adds one event to the history, and one of a new id.
LEMMA CommitFacts ==
  ASSUME IInv, EachOnce, NEW c \in Copies, Commit(c)
  PROVE  /\ event[c] \in Event /\ commits \in Seq(Event)
         /\ Len(commits') = Len(commits) + 1 /\ Len(commits) \in Nat
         /\ DOMAIN commits' = 1..(Len(commits) + 1) /\ DOMAIN commits = 1..Len(commits)
         /\ commits'[Len(commits) + 1] = event[c]
         /\ \A i \in 1..Len(commits) : commits'[i] = commits[i]
         /\ \A i \in 1..Len(commits) : commits[i].id # event[c].id
         /\ row'.time = event[c].time
<1>1. event[c] \in Event /\ event[c] # NoEvent
  BY DEF Commit, IInv, HolderIsCurrent, Event, NoEvent
<1>2. commits \in Seq(Event) /\ commits' = Append(commits, event[c]) BY DEF IInv, TypeOK, Commit
<1>3. /\ Len(commits') = Len(commits) + 1 /\ Len(commits) \in Nat
      /\ DOMAIN commits' = 1..(Len(commits) + 1) /\ DOMAIN commits = 1..Len(commits)
      /\ commits'[Len(commits) + 1] = event[c]
      /\ \A i \in 1..Len(commits) : commits'[i] = commits[i]
  BY <1>1, <1>2
<1>4. row'.time = event[c].time BY DEF Commit, Touched, IInv, TypeOK
<1> QED BY <1>1, <1>2, <1>3, <1>4 DEF EachOnce

\* Until something is deleted, the rows are the history.
LEMMA UndeletedStep == IInv /\ EachOnce /\ Undeleted /\ [Next]_vars => Undeleted'
<1> SUFFICES ASSUME IInv, EachOnce, Undeleted, [Next]_vars, deletes' = 0 PROVE Undeleted'
  BY DEF Undeleted
<1>1. deletes \in Nat /\ copy \in [Copies -> Copy]
      /\ phase \in [Copies -> {"none", "loading", "appending", "dropping"}]
  BY DEF IInv, TypeOK
<1>2. deletes = 0 /\ \A c \in Copies : ~Delete(c)
  <2>1. \A c \in Copies : ~Delete(c) BY <1>1 DEF Delete
  <2> QED
    BY <2>1 DEF Next, vars, Create, LoadRow, LoadEvents, Append1, Commit, CommitFails,
       DeleteEvents, Crash
<1>3. /\ events = {commits[i] : i \in DOMAIN commits}
      /\ row.time = TimeAt(Len(commits))
      /\ \A c \in Copies : phase[c] # "dropping"
      /\ ~row.live => \A c \in Copies : phase[c] = "none" /\ ~copy[c].has
  BY <1>2 DEF Undeleted
<1>4. ASSUME NEW c \in Copies, Create(c) PROVE Undeleted'
  <2>1. /\ commits = << >> /\ UNCHANGED <<events, commits, phase>>
        /\ row'.time = 0 /\ row'.live
    BY <1>4 DEF Create, IInv, NoRowNoHistory
  <2> QED BY <1>3, <2>1 DEF Undeleted, TimeAt
<1>5. ASSUME NEW c \in Copies, LoadRow(c) \/ LoadEvents(c) \/ Append1(c) \/ CommitFails(c)
      PROVE  Undeleted'
  <2>1. UNCHANGED <<row, events, commits>> /\ row.live
    BY <1>3, <1>5 DEF LoadRow, LoadEvents, Append1, CommitFails
  <2>2. \A d \in Copies : phase'[d] # "dropping"
    BY <1>1, <1>3, <1>5 DEF LoadRow, LoadEvents, Append1, CommitFails
  <2> QED BY <1>3, <2>1, <2>2 DEF Undeleted, TimeAt
<1>6. ASSUME NEW c \in Copies, Commit(c) PROVE Undeleted'
  <2>1. row'.live
    BY <1>6 DEF Commit, Touched, IInv, TypeOK, HolderIsCurrent
  <2>2. \A d \in Copies : phase'[d] # "dropping" BY <1>1, <1>3, <1>6 DEF Commit
  <2>3. row'.time = TimeAt(Len(commits))'
    BY <1>6, CommitFacts DEF TimeAt
  <2>4. events' = events \cup {event[c]}
    <3>1. \A e \in events : e.id # event[c].id BY <1>3, <1>6, CommitFacts
    <3> QED BY <1>6, <3>1 DEF Commit
  <2>5. events' = {commits'[i] : i \in DOMAIN commits'}
    BY <1>3, <1>6, <2>4, CommitFacts
  <2> QED BY <2>1, <2>2, <2>3, <2>5 DEF Undeleted
<1>7. ASSUME NEW c \in Copies, Crash(c) PROVE Undeleted'
  <2>1. UNCHANGED <<row, events, commits>> BY <1>7 DEF Crash
  <2>2. \A d \in Copies : /\ phase'[d] = IF d = c THEN "none" ELSE phase[d]
                          /\ copy'[d] = IF d = c THEN NoCopy ELSE copy[d]
    BY <1>1, <1>7 DEF Crash
  <2> QED BY <1>3, <2>1, <2>2 DEF Undeleted, TimeAt, NoCopy
<1>8. ASSUME UNCHANGED vars PROVE Undeleted' BY <1>3, <1>8 DEF vars, Undeleted, TimeAt
<1>9. \A c \in Copies : ~DeleteEvents(c) BY <1>3 DEF DeleteEvents
<1> QED BY <1>2, <1>4, <1>5, <1>6, <1>7, <1>8, <1>9 DEF Next

\* A timestamp of the history tells how long it was.
LEMMA TimesTell ==
  ASSUME TypeOK, OrderedClocks, NEW k \in 0..Len(commits),
         TimeAt(k) >= TimeAt(Len(commits))
  PROVE  k = Len(commits)
<1>1. commits \in Seq(Event) /\ Len(commits) \in Nat BY DEF TypeOK
<1>2. \A i \in 1..Len(commits) : commits[i] \in Event BY <1>1
<1>3. \A i \in 1..Len(commits) : commits[i].time \in Nat \ {0}
  BY <1>2, SessionsAssumption DEF Event
<1> SUFFICES ASSUME k # Len(commits) PROVE FALSE
  OBVIOUS
<1>4. Len(commits) \in 1..Len(commits) /\ k < Len(commits) BY <1>1
<1>5. CASE k = 0 BY <1>3, <1>4, <1>5 DEF TimeAt
<1>6. CASE k # 0
  <2>1. k \in 1..Len(commits) BY <1>6
  <2>2. commits[k].time < commits[Len(commits)].time BY <1>1, <1>4, <2>1 DEF OrderedClocks
  <2>3. commits[k].time \in Nat /\ commits[Len(commits)].time \in Nat BY <1>3, <1>4, <2>1
  <2> QED BY <1>1, <1>4, <1>6, <2>2, <2>3 DEF TimeAt
<1> QED BY <1>5, <1>6

\* A copy nobody touched is as far behind as it was.
LEMMA BehindKept ==
  ASSUME NEW c \in Copies, Behind(c), UNCHANGED <<row, commits, copy[c], phase[c]>>
  PROVE  Behind(c)'
BY DEF Behind, BehindAt, TimeAt

\* A commit leaves the copies of the others further behind.
LEMMA BehindCommit ==
  ASSUME IInv, EachOnce, NEW c \in Copies, Commit(c), NEW d \in Copies, Behind(d),
         UNCHANGED <<copy[d], phase[d]>>
  PROVE  Behind(d)'
<1>1. PICK k \in 0..Len(commits) : BehindAt(d, k) BY DEF Behind
<1>2. k \in 0..Len(commits') /\ k # Len(commits') BY CommitFacts
<1>3. (TimeAt(k))' = TimeAt(k)
  <2>1. k # 0 => k \in 1..Len(commits) BY CommitFacts
  <2> QED BY <2>1, CommitFacts DEF TimeAt
<1>4. BehindAt(d, k)'
  <2>1. copy'[d].time = (TimeAt(k))' BY <1>1, <1>3 DEF BehindAt
  <2>2. phase'[d] # "loading" =>
          /\ Len(copy'[d].events) \in k..Len(commits')
          /\ \A i \in 1..Len(copy'[d].events) : copy'[d].events[i] = commits'[i].id
    BY <1>1, CommitFacts DEF BehindAt
  <2> QED BY <1>2, <2>1, <2>2 DEF BehindAt
<1> QED BY <1>2, <1>4 DEF Behind

\* The events that are loaded are the whole history.
LEMMA LoadEventsNear ==
  ASSUME IInv, Undeleted, deletes = 0, OrderedClocks, NEW c \in Copies, Near(c), LoadEvents(c)
  PROVE  Near(c)'
<1>1. /\ phase[c] = "loading" /\ phase'[c] = "none" /\ UNCHANGED <<row, commits>>
      /\ copy[c] \in Copy /\ copy \in [Copies -> Copy]
  BY DEF LoadEvents, IInv, TypeOK
<1>2. PICK s \in Orders(events) :
        copy' = [copy EXCEPT ![c].has = TRUE, ![c].true = TRUE, ![c].events = Ids(s)]
  BY DEF LoadEvents
<1>3. copy'[c].events = Ids(commits) /\ UNCHANGED <<copy[c].time, copy[c].state>>
  BY <1>1, <1>2, OneOrder DEF IInv, Undeleted, Copy
<1>4. PICK k \in 0..Len(commits) : BehindAt(c, k) BY <1>1 DEF Near, Behind
<1>5. /\ Len(commits) \in Nat /\ Len(Ids(commits)) = Len(commits)
      /\ \A i \in 1..Len(commits) : Ids(commits)[i] = commits[i].id
  <2>1. Len(commits) \in Nat /\ DOMAIN commits = 1..Len(commits) BY DEF IInv, TypeOK
  <2> QED BY <2>1 DEF Ids
<1>6. Len(Ids(commits)) \in k..Len(commits) BY <1>4, <1>5
<1>7. BehindAt(c, k)' BY <1>1, <1>3, <1>4, <1>5, <1>6 DEF BehindAt, TimeAt
<1>8. Behind(c)' BY <1>1, <1>7 DEF Behind
<1> QED BY <1>1, <1>8 DEF Near

\* What is appended to is the whole history: a copy stamped with an earlier
\* event is reloaded.
LEMMA Append1Near ==
  ASSUME IInv, Undeleted, deletes = 0, OrderedClocks, NEW c \in Copies, Near(c), Append1(c)
  PROVE  Near(c)'
<1>1. /\ phase[c] = "none" /\ copy[c].has /\ phase'[c] = "appending"
      /\ UNCHANGED <<row, commits>>
      /\ copy[c] \in Copy /\ copy \in [Copies -> Copy]
  BY DEF Append1, IInv, TypeOK
<1>2. CASE Stale(c)
  <2>1. PICK s \in Orders(events) :
          copy' = [copy EXCEPT ![c].true = TRUE, ![c].events = Ids(s), ![c].state = row.state]
    BY <1>2 DEF Append1
  <2>2. copy'[c].events = Ids(commits)
    BY <1>1, <2>1, OneOrder DEF IInv, Undeleted, Copy
  <2> QED BY <1>1, <2>2 DEF Near
<1>3. CASE ~Stale(c)
  <2>1. UNCHANGED <<copy[c].true, copy[c].events>> BY <1>1, <1>3 DEF Append1, Copy
  <2>2. ASSUME copy[c].true PROVE copy[c].events = Ids(commits)
    <3>1. PICK k \in 0..Len(commits) : BehindAt(c, k) BY <1>1, <2>2 DEF Near, Behind
    <3>2. row.time = TimeAt(Len(commits)) /\ copy[c].time = TimeAt(k)
      BY <3>1 DEF Undeleted, BehindAt
    <3>3. row.time \in Nat /\ copy[c].time \in Nat BY <1>1 DEF IInv, TypeOK, Copy
    <3>4. TimeAt(k) >= TimeAt(Len(commits)) BY <1>3, <3>2, <3>3 DEF Stale
    <3>5. k = Len(commits) BY <3>4, TimesTell DEF IInv
    <3>6. Len(commits) \in Nat /\ DOMAIN commits = 1..Len(commits) BY DEF IInv, TypeOK
    <3>7. /\ Len(copy[c].events) = Len(commits)
          /\ \A i \in 1..Len(commits) : copy[c].events[i] = commits[i].id
      BY <1>1, <3>1, <3>5, <3>6 DEF BehindAt
    <3>8. copy[c].events \in Seq(1..MaxEvents) BY <1>1 DEF Copy
    <3> QED BY <3>6, <3>7, <3>8 DEF Ids
  <2> QED BY <1>1, <2>1, <2>2 DEF Near
<1> QED BY <1>2, <1>3

\* The copy of a commit has the whole history.
LEMMA CommitNear ==
  ASSUME IInv, EachOnce, NEW c \in Copies, Near(c), Commit(c)
  PROVE  Near(c)'
<1>1. /\ phase[c] = "appending" /\ phase'[c] = "none" /\ copy[c] \in Copy
      /\ copy'[c] = Updated(c, TRUE) /\ row' = Touched(c)
  BY DEF Commit, IInv, TypeOK
<1>2. SUFFICES ASSUME copy'[c].true PROVE Behind(c)'
  BY <1>1 DEF Near
<1>3. copy[c].events = Ids(commits) BY <1>1, <1>2 DEF Near, Updated, Copy
<1>4. event[c].id \notin Range(copy[c].events)
  BY <1>3, CommitFacts DEF Range, Ids
<1>5. /\ copy'[c].events = Append(copy[c].events, event[c].id)
      /\ copy'[c].time = event[c].time /\ copy'[c].state = row'.state
  BY <1>1, <1>4 DEF Updated, Put, Touched, Copy, IInv, TypeOK
<1>6. copy[c].events \in Seq(1..MaxEvents) /\ event[c].id \in 1..MaxEvents
  BY <1>1, CommitFacts DEF Copy, Event
<1>7. Len(copy[c].events) = Len(commits) /\ \A i \in 1..Len(commits) : copy[c].events[i] = commits[i].id
  BY <1>3, CommitFacts DEF Ids
<1>8. /\ Len(copy'[c].events) = Len(commits) + 1
      /\ copy'[c].events[Len(commits) + 1] = event[c].id
      /\ \A i \in 1..Len(commits) : copy'[c].events[i] = commits[i].id
  BY <1>5, <1>6, <1>7, CommitFacts
<1>9. PICK n \in Nat : n = Len(commits') /\ n = Len(commits) + 1 BY CommitFacts
<1>10. \A i \in 1..n : copy'[c].events[i] = commits'[i].id BY <1>8, <1>9, CommitFacts
<1>11. (TimeAt(n))' = event[c].time BY <1>9, CommitFacts DEF TimeAt
<1>12. BehindAt(c, n)'
  <2>1. copy'[c].time = (TimeAt(n))' /\ copy'[c].state = row'.state BY <1>5, <1>11
  <2>2. Len(copy'[c].events) = n /\ n \in n..Len(commits') BY <1>8, <1>9
  <2>3. \A i \in 1..Len(copy'[c].events) : copy'[c].events[i] = commits'[i].id BY <1>10, <2>2
  <2> QED BY <2>1, <2>2, <2>3 DEF BehindAt
<1> QED BY <1>9, <1>12 DEF Behind

\* With clocks that agree, every copy stays behind the history, or with it.
LEMMA InStepStep == IInv /\ EachOnce /\ Undeleted /\ InStep /\ [Next]_vars => InStep'
<1> SUFFICES ASSUME IInv, EachOnce, Undeleted, InStep, [Next]_vars,
                    deletes' = 0, OrderedClocks', NEW d \in Copies
             PROVE  Near(d)'
  BY DEF InStep
<1>1. deletes \in Nat /\ copy \in [Copies -> Copy] /\ commits \in Seq(Event)
      /\ phase \in [Copies -> {"none", "loading", "appending", "dropping"}]
  BY DEF IInv, TypeOK
<1>2. deletes = 0 /\ (\A c \in Copies : ~Delete(c)) /\ (\A c \in Copies : ~DeleteEvents(c))
  <2>1. \A c \in Copies : ~Delete(c) BY <1>1 DEF Delete
  <2>2. deletes = 0
    BY <2>1 DEF Next, vars, Create, LoadRow, LoadEvents, Append1, Commit, CommitFails,
       DeleteEvents, Crash
  <2> QED BY <2>1, <2>2 DEF Undeleted, DeleteEvents
<1>3. (\E c \in Copies : Commit(c)) \/ UNCHANGED commits
  BY <1>2 DEF Next, vars, Create, LoadRow, LoadEvents, Append1, CommitFails, Crash
<1>4. OrderedClocks
  <2>1. CASE UNCHANGED commits BY <2>1 DEF OrderedClocks
  <2>2. ASSUME NEW c \in Copies, Commit(c) PROVE OrderedClocks
    BY <2>2, CommitFacts DEF OrderedClocks
  <2> QED BY <1>3, <2>1, <2>2
<1>5. Near(d) BY <1>2, <1>4 DEF InStep
<1>6. ASSUME UNCHANGED <<row, commits, copy[d], phase[d]>> PROVE Near(d)'
  BY <1>5, <1>6, BehindKept DEF Near
<1>7. ASSUME NEW c \in Copies, Create(c) PROVE Near(d)'
  <2>1. commits = << >> /\ commits' = << >> BY <1>7 DEF Create, IInv, NoRowNoHistory
  <2>2. /\ \A b \in Copies : phase[b] = "none" /\ ~copy[b].has
        /\ phase' = phase /\ row'.time = 0 /\ row'.state = 0
        /\ copy' = [copy EXCEPT ![c] = [NoCopy EXCEPT !.has = TRUE, !.true = TRUE]]
    BY <1>2, <1>7 DEF Create, Undeleted
  <2>3. CASE d # c
    <3>1. phase'[d] = "none" /\ copy'[d] = copy[d] BY <1>1, <2>2, <2>3
    <3> QED BY <2>2, <3>1 DEF Near
  <2>4. CASE d = c
    <3>1. /\ phase'[c] = "none" /\ copy'[c].time = 0 /\ copy'[c].state = 0
          /\ copy'[c].events = << >>
      BY <1>1, <2>2 DEF NoCopy
    <3>2. BehindAt(c, 0)' BY <2>1, <2>2, <3>1 DEF BehindAt, TimeAt
    <3>3. Behind(c)' BY <2>1, <3>2 DEF Behind
    <3> QED BY <2>4, <3>1, <3>3 DEF Near
  <2> QED BY <2>3, <2>4
<1>8. ASSUME NEW c \in Copies, LoadRow(c) PROVE Near(d)'
  <2>1. UNCHANGED <<row, commits>> BY <1>8 DEF LoadRow
  <2>2. CASE d # c
    <3>1. UNCHANGED <<copy[d], phase[d]>> BY <1>1, <1>8, <2>2 DEF LoadRow
    <3> QED BY <1>6, <2>1, <3>1
  <2>3. CASE d = c
    <3>1. /\ phase'[c] = "loading" /\ copy'[c].time = row.time /\ copy'[c].state = row.state
      BY <1>1, <1>8 DEF LoadRow, NoCopy
    <3>2. PICK k \in Nat : k = Len(commits) BY <1>1
    <3>3. BehindAt(c, k)' BY <1>2, <2>1, <3>1, <3>2 DEF BehindAt, TimeAt, Undeleted
    <3>4. Behind(c)' BY <2>1, <3>2, <3>3 DEF Behind
    <3> QED BY <2>3, <3>1, <3>4 DEF Near
  <2> QED BY <2>2, <2>3
<1>9. ASSUME NEW c \in Copies, LoadEvents(c) \/ Append1(c) PROVE Near(d)'
  <2>1. CASE d = c BY <1>2, <1>4, <1>5, <1>9, <2>1, LoadEventsNear, Append1Near
  <2>2. CASE d # c
    <3>1. UNCHANGED <<row, commits, copy[d], phase[d]>>
      BY <1>1, <1>9, <2>2 DEF LoadEvents, Append1
    <3> QED BY <1>6, <3>1
  <2> QED BY <2>1, <2>2
<1>10. ASSUME NEW c \in Copies, Commit(c) PROVE Near(d)'
  <2>1. CASE d = c BY <1>5, <1>10, <2>1, CommitNear
  <2>2. CASE d # c
    <3>1. UNCHANGED <<copy[d], phase[d]>> BY <1>1, <1>10, <2>2 DEF Commit
    <3>2. phase[d] # "appending" BY <1>10, <2>2 DEF Commit, IInv, OneHolder
    <3> QED BY <1>5, <1>10, <3>1, <3>2, BehindCommit DEF Near
  <2> QED BY <2>1, <2>2
<1>11. ASSUME NEW c \in Copies, CommitFails(c) \/ Crash(c) PROVE Near(d)'
  <2>1. UNCHANGED <<row, commits>> /\ phase' = [phase EXCEPT ![c] = "none"]
    BY <1>11 DEF CommitFails, Crash
  <2>2. CASE d = c
    <3>1. CASE Crash(c) BY <1>1, <2>1, <2>2, <3>1 DEF Crash, NoCopy, Near
    <3>2. CASE CommitFails(c)
      <4>1. copy'[c] = Updated(c, FALSE) BY <1>1, <3>2 DEF CommitFails
      <4>2. copy[c] \in Copy BY <1>1
      <4>3. copy'[c].true = FALSE BY <4>1, <4>2 DEF Updated, Copy
      <4> QED BY <1>1, <2>1, <2>2, <4>3 DEF Near
    <3> QED BY <1>11, <3>1, <3>2
  <2>3. CASE d # c
    <3>1. UNCHANGED <<copy[d], phase[d]>> BY <1>1, <1>11, <2>1, <2>3 DEF CommitFails, Crash
    <3> QED BY <1>6, <2>1, <3>1
  <2> QED BY <2>2, <2>3
<1>12. ASSUME UNCHANGED vars PROVE Near(d)' BY <1>6, <1>12 DEF vars
<1> QED BY <1>2, <1>7, <1>8, <1>9, <1>10, <1>11, <1>12 DEF Next

\* For any number of processes: while nothing is deleted and the clocks order
\* the events as they were committed, a copy stamped like the row, of a run whose
\* last append did not fail, has every event in order and the state of the row
\* (appendEvent's stale-session check).
THEOREM CopiesMissNothing == Spec => []OrderedClocksMissNothing
<1>1. Init => Chronicle
  <2> SUFFICES ASSUME Init PROVE Chronicle
    OBVIOUS
  <2>1. EachOnce BY DEF Init, EachOnce
  <2>2. Undeleted BY DEF Init, Undeleted, TimeAt, NoCopy
  <2>3. InStep BY DEF Init, InStep, Near, NoCopy
  <2> QED BY <2>1, <2>2, <2>3 DEF Chronicle
<1>2. IInv /\ Chronicle /\ [Next]_vars => Chronicle'
  BY EachOnceStep, UndeletedStep, InStepStep DEF Chronicle, IInv
<1>3. IInv /\ Chronicle => OrderedClocksMissNothing
  <2> SUFFICES ASSUME IInv, Undeleted, InStep, deletes = 0, OrderedClocks, NEW c \in Copies,
                      copy[c].has, copy[c].true, copy[c].time = row.time, phase[c] = "none"
               PROVE  copy[c].events = Ids(commits) /\ copy[c].state = row.state
    BY DEF OrderedClocksMissNothing, Chronicle
  <2>1. PICK k \in 0..Len(commits) : BehindAt(c, k) BY DEF InStep, Near, Behind
  <2>2. TimeAt(k) = TimeAt(Len(commits)) BY <2>1 DEF Undeleted, BehindAt
  <2>3. copy[c] \in Copy /\ row.time \in Nat BY DEF IInv, TypeOK
  <2>4. TimeAt(k) >= TimeAt(Len(commits)) BY <2>1, <2>2, <2>3 DEF BehindAt
  <2>5. k = Len(commits) BY <2>4, TimesTell DEF IInv
  <2>6. Len(commits) \in Nat /\ DOMAIN commits = 1..Len(commits) BY DEF IInv, TypeOK
  <2>7. /\ Len(copy[c].events) = Len(commits)
        /\ \A i \in 1..Len(commits) : copy[c].events[i] = commits[i].id
        /\ copy[c].state = row.state
    BY <2>1, <2>5, <2>6 DEF BehindAt
  <2>8. copy[c].events \in Seq(1..MaxEvents) BY <2>3 DEF Copy
  <2> QED BY <2>6, <2>7, <2>8 DEF Ids
<1> QED BY <1>1, <1>2, <1>3, Invariance, PTL DEF Spec
=============================================================================
