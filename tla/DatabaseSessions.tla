-------------------------- MODULE DatabaseSessions --------------------------
(***************************************************************************)
(* One session of DatabaseSessionService, and the copies of it that runs   *)
(* in several processes hold: createSession and getSession give a copy,    *)
(* appendEvent writes an event through a copy, in a transaction that locks *)
(* the session's row, and brings the copy up to date.                      *)
(*                                                                         *)
(* An event carries the timestamp of its creation, by the clock of the     *)
(* process that created it.  Each event writes the one state key there is  *)
(* or none; a state is named by the event that wrote it.  The rows of the  *)
(* app's and the user's state are not modelled.                            *)
(***************************************************************************)
EXTENDS Naturals, FiniteSets, SequencesExt

CONSTANTS
  Copies,      \* the runs, each with its copy of the session
  MaxEvents,   \* bound: events created
  MaxTime,     \* bound: timestamps (0: before every event)
  MaxDeletes   \* bound: deleteSession calls

ASSUME SessionsAssumption ==
  /\ IsFiniteSet(Copies) /\ Copies # {}
  /\ MaxEvents \in Nat /\ MaxTime \in Nat \ {0} /\ MaxDeletes \in Nat

VARIABLES
  row,       \* the row of the session: live, state, updateTime
  events,    \* the rows of its events
  copy,      \* the Session object of each run
  phase,     \* what each run awaits
  event,     \* the event each run appends, or failed to append
  created,   \* number of events created
  deletes,   \* deleteSession calls begun
  broken,    \* a deleteSession call stopped between its two statements
  commits    \* the events appended since the session was created, in order

vars == <<row, events, copy, phase, event, created, deletes, broken, commits>>

Event == [id : 1..MaxEvents, time : 1..MaxTime, writes : BOOLEAN]
NoEvent == [id |-> 0, time |-> 0, writes |-> FALSE]
\* `true': what the copy holds was stored when the copy was last brought up
\* to date; an append that failed to commit leaves its event behind in it.
Copy == [has : BOOLEAN, true : BOOLEAN, state : 0..MaxEvents,
         events : Seq(1..MaxEvents), time : 0..MaxTime]
NoCopy == [has |-> FALSE, true |-> FALSE, state |-> 0, events |-> << >>, time |-> 0]

TypeOK ==
  /\ row \in [live : BOOLEAN, state : 0..MaxEvents, time : 0..MaxTime]
  /\ events \subseteq Event
  /\ copy \in [Copies -> Copy]
  /\ phase \in [Copies -> {"none", "loading", "appending", "dropping"}]
  /\ event \in [Copies -> Event \cup {NoEvent}]
  /\ created \in 0..MaxEvents /\ deletes \in Nat /\ broken \in BOOLEAN
  /\ commits \in Seq(Event)

Init ==
  /\ row = [live |-> FALSE, state |-> 0, time |-> 0] /\ events = {}
  /\ copy = [c \in Copies |-> NoCopy] /\ phase = [c \in Copies |-> "none"]
  /\ event = [c \in Copies |-> NoEvent]
  /\ created = 0 /\ deletes = 0 /\ broken = FALSE /\ commits = << >>

---------------------------------------------------------------------------
(* Rows and copies                                                         *)

\* LockMode.PESSIMISTIC_WRITE: one transaction at a time holds the row.
\* Mutant of Unlocked: the row is read without a lock.
NeverLocked == TRUE
Unlocked == \A c \in Copies : phase[c] # "appending"

\* ORDER BY timestamp: events of one timestamp come in any order.
Orders(es) ==
  {s \in [1..Cardinality(es) -> es] :
     /\ \A i, j \in DOMAIN s : i # j => s[i] # s[j]
     /\ \A i, j \in DOMAIN s : i < j => s[i].time <= s[j].time}
Ids(s) == [i \in DOMAIN s |-> s[i].id]

\* The copy is reloaded if the row was updated after it.
\* Mutant of Stale: the copy is trusted.
NeverStale(c) == FALSE
Stale(c) == row.time > copy[c].time

\* The event takes the place of one with its id, else the end.
Put(ids, id) == IF id \in Range(ids) THEN ids ELSE Append(ids, id)

---------------------------------------------------------------------------
(* The operations                                                          *)

\* An insert of the row of a session that exists fails.
Create(c) ==
  /\ phase[c] = "none" /\ ~row.live
  /\ row' = [live |-> TRUE, state |-> 0, time |-> 0]
  /\ copy' = [copy EXCEPT ![c] = [NoCopy EXCEPT !.has = TRUE, !.true = TRUE]]
  /\ event' = [event EXCEPT ![c] = NoEvent]
  /\ UNCHANGED <<events, phase, created, deletes, broken, commits>>

\* getSession reads the row and then the events, in no transaction.
LoadRow(c) ==
  /\ phase[c] = "none" /\ row.live
  /\ copy' = [copy EXCEPT ![c] = [NoCopy EXCEPT !.state = row.state, !.time = row.time]]
  /\ phase' = [phase EXCEPT ![c] = "loading"]
  /\ event' = [event EXCEPT ![c] = NoEvent]
  /\ UNCHANGED <<row, events, created, deletes, broken, commits>>
LoadEvents(c) ==
  /\ phase[c] = "loading"
  /\ \E s \in Orders(events) :
       copy' = [copy EXCEPT ![c].has = TRUE, ![c].true = TRUE, ![c].events = Ids(s)]
  /\ phase' = [phase EXCEPT ![c] = "none"]
  /\ UNCHANGED <<row, events, event, created, deletes, broken, commits>>

\* An event of the run, created now or kept from an append that failed.
Candidates(c) ==
  (IF created < MaxEvents
   THEN {[id |-> created + 1, time |-> t, writes |-> w] :
           t \in 1..MaxTime, w \in BOOLEAN}
   ELSE {}) \cup ({event[c]} \ {NoEvent})

\* appendEvent up to the stale-session check: a stale copy is reloaded.
Append1(c) ==
  /\ phase[c] = "none" /\ copy[c].has /\ row.live /\ Unlocked
  /\ \E e \in Candidates(c) :
       /\ event' = [event EXCEPT ![c] = e]
       /\ created' = IF e.id > created THEN e.id ELSE created
  /\ IF Stale(c)
     THEN \E s \in Orders(events) :
            copy' = [copy EXCEPT ![c].true = TRUE, ![c].events = Ids(s), ![c].state = row.state]
     ELSE copy' = [copy EXCEPT ![c].state = row.state]
  /\ phase' = [phase EXCEPT ![c] = "appending"]
  /\ UNCHANGED <<row, events, deletes, broken, commits>>

\* The rest of the transaction has changed the copy when it comes to commit.
Written(c) == IF event[c].writes THEN event[c].id ELSE copy[c].state
Updated(c, kept) ==
  [copy[c] EXCEPT !.state = Written(c), !.events = Put(@, event[c].id),
                  !.time = event[c].time, !.true = @ /\ kept]
Touched(c) == [row EXCEPT !.state = Written(c), !.time = event[c].time]
Commit(c) ==
  /\ phase[c] = "appending"
  /\ row' = Touched(c)
  /\ events' = {e \in events : e.id # event[c].id} \cup {event[c]}
  /\ commits' = Append(commits, event[c])
  /\ copy' = [copy EXCEPT ![c] = Updated(c, TRUE)]
  /\ event' = [event EXCEPT ![c] = NoEvent]
  /\ phase' = [phase EXCEPT ![c] = "none"]
  /\ UNCHANGED <<created, deletes, broken>>
CommitFails(c) ==
  /\ phase[c] = "appending"
  /\ copy' = [copy EXCEPT ![c] = Updated(c, FALSE)]
  /\ phase' = [phase EXCEPT ![c] = "none"]
  /\ UNCHANGED <<row, events, event, created, deletes, broken, commits>>

\* deleteSession: two statements.  The first waits for a lock on the row.
\* Mutant of Drop: the events are deleted first.
DropEventsFirst(step) ==
  IF step = 1 THEN events' = {} /\ UNCHANGED <<row, commits>>
  ELSE row' = [row EXCEPT !.live = FALSE] /\ commits' = << >> /\ UNCHANGED events
Drop(step) ==
  IF step = 1
  THEN row' = [row EXCEPT !.live = FALSE] /\ commits' = << >> /\ UNCHANGED events
  ELSE events' = {} /\ UNCHANGED <<row, commits>>
Delete(c) ==
  /\ phase[c] = "none" /\ Unlocked /\ deletes < MaxDeletes
  /\ Drop(1)
  /\ deletes' = deletes + 1
  /\ phase' = [phase EXCEPT ![c] = "dropping"]
  /\ UNCHANGED <<copy, event, created, broken>>
DeleteEvents(c) ==
  /\ phase[c] = "dropping"
  /\ Drop(2)
  /\ phase' = [phase EXCEPT ![c] = "none"]
  /\ UNCHANGED <<copy, event, created, deletes, broken>>

\* The process dies: the open transaction is rolled back.
Crash(c) ==
  /\ phase[c] # "none" \/ copy[c].has
  /\ broken' = (broken \/ phase[c] = "dropping")
  /\ copy' = [copy EXCEPT ![c] = NoCopy]
  /\ event' = [event EXCEPT ![c] = NoEvent]
  /\ phase' = [phase EXCEPT ![c] = "none"]
  /\ UNCHANGED <<row, events, created, deletes, commits>>

Next ==
  \E c \in Copies :
    \/ Create(c) \/ LoadRow(c) \/ LoadEvents(c)
    \/ Append1(c) \/ Commit(c) \/ CommitFails(c)
    \/ Delete(c) \/ DeleteEvents(c) \/ Crash(c)

Spec == Init /\ [][Next]_vars

---------------------------------------------------------------------------
(* Properties                                                              *)

\* The row's state is that of the last committed event that wrote it: no
\* append is undone by one that read the row before it.
LastToWrite(i) ==
  commits[i].writes /\ \A j \in DOMAIN commits : j > i => ~commits[j].writes
RowIsTheFold ==
  row.live =>
    \/ \E i \in DOMAIN commits : LastToWrite(i) /\ row.state = commits[i].id
    \/ (\A i \in DOMAIN commits : ~commits[i].writes) /\ row.state = 0

\* As long as the clocks of the processes order the events as they were
\* committed, a copy that the row is not newer than has every event, in the
\* order of the commits, and the state of the row, unless its last append
\* failed to commit.  (With clocks that do not agree, the check compares
\* timestamps that say nothing and the copy misses events.)
OrderedClocks == \A i, j \in DOMAIN commits : i < j => commits[i].time < commits[j].time
OrderedClocksMissNothing ==
  deletes = 0 /\ OrderedClocks
    => \A c \in Copies :
         copy[c].has /\ copy[c].true /\ copy[c].time = row.time /\ phase[c] = "none"
           => copy[c].events = Ids(commits) /\ copy[c].state = row.state

\* A deleted session leaves no events behind for a session of the same id,
\* however appends and deletions interleave, unless a deletion was cut short.
DeletedSessionLeavesNothing ==
  ~row.live /\ ~broken /\ (\A c \in Copies : phase[c] # "dropping") => events = {}

=============================================================================
