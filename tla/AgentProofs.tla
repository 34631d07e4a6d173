---------------------------- MODULE AgentProofs ----------------------------
(***************************************************************************)
(* Why an agent's turn ends with everything that it owes: each decision of *)
(* the user carried out, each answer of a tool told to the model, and no   *)
(* tool that waits for a confirmation run without it.  The stored events   *)
(* are the only memory between turns, so the invariant relates what they   *)
(* say of a call to what the turn has in hand of it.                       *)
(*                                                                         *)
(* And why a tree of agents neither runs ahead of its caller nor loses an  *)
(* event: an event that somebody has at its yield is held by everyone on   *)
(* the way down to the leaf it is of, an agent that is not under way has   *)
(* nothing under way below it unless a merge of branches failed there, and *)
(* the leaf is asked again when nobody has its event any more.             *)
(***************************************************************************)
EXTENDS AgentTurn, CompositeAgents, TLAPS, FiniteSetTheorems

\* The event belongs to a turn before the present one.
Past(i) == \E u \in UserEvents : i < u
InBatch == at = "batch" \/ (at = "yield" /\ next = "batch")
Held(what) == at = "yield" /\ hand[1].what = what

\* What is in hand belongs to the step the turn is in.
InHand ==
  /\ IF at = "yield" THEN \E e \in Event : hand = <<e>> ELSE hand = << >>
  /\ at = "yield" => (Held("calls") <=> next = "batch")
  /\ at = "yield" /\ next = "model" => Held("answers")
  /\ at = "yield" => hand[1].what \in AgentWords
  /\ todo # {} => InBatch \/ at = "resume"
  /\ done # {} => at \in {"batch", "resume"}
  /\ asked # {} => at = "batch"

\* A call is asked about by one gate, and a gated one is answered after it.
Recorded ==
  /\ \A i \in DOMAIN log : log[i].what \in AgentWords => log[i].ids \subseteq DOMAIN kinds
  /\ \A i, j \in Is("gate") : i # j => log[i].ids \cap log[j].ids = {}
  /\ \A i \in Is("answers") : \A c \in log[i].ids :
       kinds[c] = "gated" => \E g \in Is("gate") : g < i /\ c \in log[g].ids
InTransit ==
  /\ at = "yield" => hand[1].ids \subseteq DOMAIN kinds
  /\ Held("gate") => hand[1].ids \cap Gates = {}
  /\ Held("answers") => \A c \in hand[1].ids : kinds[c] = "gated" => c \in Gates
AtWork ==
  /\ todo \cup done \cup asked \subseteq DOMAIN kinds
  /\ InBatch => /\ (todo \cup asked) \cap Gates = {}
                /\ todo \cap asked = {}
                /\ \A c \in done : kinds[c] = "gated" => c \in asked
  /\ at = "resume" => /\ todo \cup done \subseteq Decision.ids \cap Gates
                      /\ \A c \in todo \cup done : ~Spent(c)
AskedOnce == Recorded /\ InTransit /\ AtWork

\* A gate of the present turn has ended the invocation.
GateEnds ==
  /\ Held("gate") => endInvocation
  /\ at # "idle" /\ ~endInvocation => \A i \in Is("gate") : Past(i)

\* A step without tools left no answer the model was not told.
Told ==
  (\A i \in Is("answers") : Past(i) \/ i <= heard) \/ endInvocation \/ llmCalls > MaxLlmCalls
Heeded ==
  /\ Held("answers") => hadTools
  /\ last = "none" => ~hadTools
  /\ at \in {"yield", "stream", "batch", "stepEnd"} /\ ~hadTools => Told
  /\ at = "idle" /\ log # << >> /\ Now \notin cuts => Told \/ last \in {"final", "partial"}

\* A decision of a turn that was not cut off is carried out, or about to be.
UnderWay(c) ==
  \/ at = "confirm"
  \/ at = "resume" /\ c \in todo \cup done
  \/ at = "yield" /\ next = "model" /\ c \in hand[1].ids
CarriedOut ==
  \A i \in Is("decide") :
    /\ log[i].ids \subseteq Gates
    /\ Turn(i) \notin cuts => \A c \in log[i].ids : Spent(c) \/ (~Past(i) /\ UnderWay(c))

---------------------------------------------------------------------------
(* Sets of positions                                                       *)

\* A set of numbers that is not empty and has a bound has a least and a
\* greatest member.
LEMMA Extremes ==
  ASSUME NEW n \in Nat, NEW S \in SUBSET (1..n), S # {}
  PROVE  /\ Min(S) \in S /\ \A x \in S : Min(S) <= x
         /\ Max(S) \in S /\ \A x \in S : x <= Max(S)
<1>1. \A T \in SUBSET Nat : T # {} => \E x \in T : \A y \in T : x <= y
  <2> DEFINE Less == OpToRel(<, Nat)
  <2> SUFFICES ASSUME NEW T, T \subseteq Nat, T # {} PROVE \E x \in T : \A y \in T : x <= y
    OBVIOUS
  <2>1. IsWellFoundedOn(Less, Nat) BY NatLessThanWellFounded
  <2>2. \A x, y \in Nat : <<y, x>> \in Less <=> y < x BY DEF OpToRel
  <2> HIDE DEF Less
  <2>3. PICK x \in T : \A y \in T : ~(<<y, x>> \in Less) BY <2>1, WFMin
  <2>4. \A y \in T : x \in Nat /\ y \in Nat /\ ~(y < x) BY <2>2, <2>3
  <2> QED BY <2>4
<1>2. \E x \in S : \A y \in S : x <= y BY <1>1
<1>3. \E x \in S : \A y \in S : x >= y
  <2> DEFINE T == {n - x : x \in S}
  <2>1. T \in SUBSET Nat /\ T # {}
    <3>1. \A x \in S : n - x \in Nat OBVIOUS
    <3> QED BY <3>1
  <2>2. PICK z \in T : \A y \in T : z <= y BY <1>1, <2>1
  <2>3. PICK x \in S : z = n - x BY <2>2
  <2>4. \A y \in S : n - x <= n - y BY <2>2, <2>3
  <2> QED BY <2>4
<1>4. Min(S) \in S /\ \A y \in S : Min(S) <= y BY <1>2 DEF Min
<1>5. Max(S) \in S /\ \A y \in S : Max(S) >= y BY <1>3 DEF Max
<1> QED BY <1>4, <1>5

\* Every event but one of the present turn has a lower turn.
LEMMA TurnFacts ==
  ASSUME TypeOK, NEW i \in DOMAIN log
  PROVE  /\ Past(i) => Turn(i) < Now
         /\ ~Past(i) => Turn(i) = Now
<1>1. /\ log \in Seq(Event) /\ Len(log) \in Nat /\ DOMAIN log = 1..Len(log)
      /\ i \in 1..Len(log)
  BY DEF TypeOK
<1> DEFINE Upto(k) == {u \in UserEvents : u <= k}
<1>2. /\ UserEvents \subseteq 1..Len(log) /\ i \in Nat /\ i <= Len(log)
      /\ \A u \in UserEvents : u \in Nat /\ u <= Len(log)
  BY <1>1 DEF UserEvents
<1>3. IsFiniteSet(1..Len(log)) BY <1>1, FS_Interval
<1>4. IsFiniteSet(Upto(Len(log))) BY <1>2, <1>3, FS_Subset
<1>5. Upto(i) \subseteq Upto(Len(log)) BY <1>2
<1>6. /\ IsFiniteSet(Upto(i)) /\ Cardinality(Upto(i)) <= Cardinality(Upto(Len(log)))
      /\ Cardinality(Upto(i)) = Cardinality(Upto(Len(log))) => Upto(i) = Upto(Len(log))
  BY <1>4, <1>5, FS_Subset
<1>7. Cardinality(Upto(i)) \in Nat /\ Cardinality(Upto(Len(log))) \in Nat
  BY <1>4, <1>6, FS_CardinalityType
<1>8. ASSUME Past(i) PROVE Turn(i) < Now
  <2>1. PICK u \in UserEvents : i < u BY <1>8 DEF Past
  <2>2. u \in Upto(Len(log)) /\ u \notin Upto(i) BY <1>1, <1>2, <2>1
  <2> QED BY <1>6, <1>7, <2>2 DEF Turn, Now
<1>9. ASSUME ~Past(i) PROVE Turn(i) = Now
  <2>1. \A u \in UserEvents : u <= i BY <1>2, <1>9 DEF Past
  <2>2. Upto(i) = Upto(Len(log)) BY <1>2, <2>1
  <2> QED BY <2>2 DEF Turn, Now
<1> QED BY <1>8, <1>9

\* Only one event is stored at a time.
LEMMA LogGrows ==
  ASSUME TypeOK, NEW e \in Event, log' = Append(log, e)
  PROVE  /\ log' \in Seq(Event) /\ log' # << >>
         /\ DOMAIN log' = DOMAIN log \cup {Len(log) + 1} /\ Len(log) + 1 \notin DOMAIN log
         /\ log'[Len(log) + 1] = e
         /\ \A i \in DOMAIN log : log'[i] = log[i] /\ i < Len(log) + 1 /\ i \in Nat
         /\ \A w : Is(w)' = Is(w) \cup (IF e.what = w THEN {Len(log) + 1} ELSE {})
         /\ Gates' = Gates \cup (IF e.what = "gate" THEN e.ids ELSE {})
         /\ \A i \in DOMAIN log : Turn(i)' = Turn(i)
         /\ \A i \in DOMAIN log : Past(i)' <=> Past(i) \/ e.what \in UserWords
         /\ \A i : i = Len(log) + 1 => ~Past(i)'
<1>1. /\ log \in Seq(Event) /\ Len(log) \in Nat /\ DOMAIN log = 1..Len(log)
      /\ log' \in Seq(Event) /\ Len(log') = Len(log) + 1 /\ DOMAIN log' = 1..(Len(log) + 1)
      /\ log'[Len(log) + 1] = e /\ \A i \in 1..Len(log) : log'[i] = log[i]
  BY DEF TypeOK
<1>2. DOMAIN log' = DOMAIN log \cup {Len(log) + 1} /\ Len(log) + 1 \notin DOMAIN log
  BY <1>1
<1>3. \A w : Is(w)' = Is(w) \cup (IF e.what = w THEN {Len(log) + 1} ELSE {})
  BY <1>1, <1>2 DEF Is
<1>4. UserEvents' = UserEvents \cup (IF e.what \in UserWords THEN {Len(log) + 1} ELSE {})
  BY <1>1, <1>2 DEF UserEvents
<1>5. UserEvents \subseteq DOMAIN log BY DEF UserEvents
<1>6. Gates' = Gates \cup (IF e.what = "gate" THEN e.ids ELSE {})
  <2>1. Is("gate")' = Is("gate") \cup (IF e.what = "gate" THEN {Len(log) + 1} ELSE {}) BY <1>3
  <2>2. Is("gate") \subseteq DOMAIN log BY DEF Is
  <2>3. \A c : c \in Gates' <=> \E i \in Is("gate")' : c \in log'[i].ids BY DEF Gates
  <2>4. \A c : c \in Gates <=> \E i \in Is("gate") : c \in log[i].ids BY DEF Gates
  <2>5. \A i \in Is("gate") : log'[i] = log[i] BY <1>1, <2>2
  <2>6. \A c : c \in Gates' <=> c \in Gates \/ (e.what = "gate" /\ c \in e.ids)
    BY <1>1, <2>1, <2>3, <2>4, <2>5
  <2> QED BY <2>6
<1>7. \A i \in DOMAIN log : Turn(i)' = Turn(i)
  <2> SUFFICES ASSUME NEW i \in DOMAIN log PROVE Turn(i)' = Turn(i) OBVIOUS
  <2>1. {u \in UserEvents' : u <= i} = {u \in UserEvents : u <= i} BY <1>1, <1>4, <1>5
  <2> QED BY <2>1 DEF Turn
<1>8. \A i \in DOMAIN log : Past(i)' <=> Past(i) \/ e.what \in UserWords
  BY <1>1, <1>4, <1>5 DEF Past
<1>9. \A i : i = Len(log) + 1 => ~Past(i)' BY <1>1, <1>4, <1>5 DEF Past
<1> QED BY <1>1, <1>2, <1>3, <1>6, <1>7, <1>8, <1>9

\* What is read of the session stays while nothing is stored.
LEMMA LogStays ==
  ASSUME log' = log
  PROVE  /\ \A w : Is(w)' = Is(w)
         /\ Gates' = Gates /\ Decision' = Decision /\ Now' = Now
         /\ \A c : Spent(c)' <=> Spent(c)
         /\ \A i : (Past(i)' <=> Past(i)) /\ Turn(i)' = Turn(i)
<1>1. \A w : Is(w)' = Is(w) BY DEF Is
<1>2. UserEvents' = UserEvents BY DEF UserEvents
<1>3. Gates' = Gates BY <1>1 DEF Gates
<1>4. LatestUser' = LatestUser BY <1>2 DEF LatestUser
<1>5. PlainTextTarget' = PlainTextTarget
  <2> DEFINE decided == UNION {log[i].ids : i \in Is("decide")}
             open == {i \in Is("gate") : /\ i < LatestUser
                                         /\ ~ \E u \in UserEvents : i < u /\ u < LatestUser
                                         /\ log[i].ids \ decided # {}}
  <2>1. decided' = decided
    <3>1. \A i : log'[i].ids = log[i].ids OBVIOUS
    <3> QED BY <1>1, <3>1
  <2> HIDE DEF decided
  <2>2. open' = open BY <1>1, <1>2, <1>4, <2>1
  <2> HIDE DEF open
  <2>3. PlainTextTarget =
          IF PlainText /\ open # {} THEN {Min(log[Max(open)].ids \ decided)} ELSE {}
    BY Zenon DEF PlainTextTarget, open, decided
  <2>4. PlainTextTarget' =
          IF PlainText /\ open' # {} THEN {Min(log'[Max(open')].ids \ decided')} ELSE {}
    BY Zenon DEF PlainTextTarget, open, decided
  <2>5. Min(log'[Max(open')].ids \ decided') = Min(log[Max(open)].ids \ decided)
    BY <2>1, <2>2, Zenon
  <2> QED BY <2>2, <2>3, <2>4, <2>5
<1>6. Decision' = Decision BY <1>4, <1>5 DEF Decision
<1>7. \A i : (Past(i)' <=> Past(i)) /\ Turn(i)' = Turn(i) BY <1>2 DEF Past, Turn
<1>8. Now' = Now BY <1>2 DEF Now, Turn
<1>9. \A c : Spent(c)' <=> Spent(c)
  <2>1. \A c : GateOf(c)' = GateOf(c) BY <1>1 DEF GateOf
  <2> QED BY <1>1, <2>1 DEF Spent
<1> QED BY <1>1, <1>3, <1>6, <1>7, <1>8, <1>9

\* A decision that was carried out stays so.
LEMMA SpentStays ==
  ASSUME TypeOK, NEW e \in Event, log' = Append(log, e), NEW c \in Gates,
         \A i, j \in Is("gate") : i # j => log[i].ids \cap log[j].ids = {},
         e.what = "gate" => c \notin e.ids
  PROVE  /\ Spent(c) => Spent(c)'
         /\ e.what = "answers" /\ c \in e.ids => Spent(c)'
<1>1. /\ \A w : Is(w)' = Is(w) \cup (IF e.what = w THEN {Len(log) + 1} ELSE {})
      /\ \A i \in DOMAIN log : log'[i] = log[i] /\ i < Len(log) + 1
      /\ log'[Len(log) + 1] = e
  BY LogGrows
<1>2. \A w : Is(w) \subseteq DOMAIN log BY DEF Is
<1>3. PICK g \in Is("gate") : c \in log[g].ids BY DEF Gates
<1>4. GateOf(c) = g BY <1>3 DEF GateOf
<1>5. \A i \in Is("gate")' : c \in log'[i].ids => i = g BY <1>1, <1>2, <1>3
<1>6. g \in Is("gate")' /\ c \in log'[g].ids BY <1>1, <1>2, <1>3
<1>7. GateOf(c)' = g
  <2>1. GateOf(c)' = CHOOSE i \in Is("gate")' : c \in log'[i].ids BY DEF GateOf
  <2> QED BY <1>5, <1>6, <2>1
<1>8. g < Len(log) + 1 BY <1>1, <1>2, <1>3
<1> QED BY <1>1, <1>2, <1>4, <1>7, <1>8 DEF Spent

---------------------------------------------------------------------------
(* Types, and what is in hand                                              *)

\* The calls a response asks for get the next numbers.
LEMMA NewCalls ==
  ASSUME TypeOK, ModelCalls
  PROVE  /\ kinds' \in Seq(Kinds) /\ Len(kinds') <= MaxCalls
         /\ DOMAIN kinds \subseteq DOMAIN kinds'
         /\ \A c \in DOMAIN kinds : kinds'[c] = kinds[c]
         /\ todo' \subseteq DOMAIN kinds' /\ todo' \cap DOMAIN kinds = {}
         /\ todo' \subseteq 1..MaxCalls
         /\ \E e \in Event : hand' = <<e>> /\ e.what = "calls" /\ e.ids = todo'
         /\ at' = "yield" /\ next' = "batch" /\ hadTools' = TRUE
         /\ last' \in {"final", "open"}
<1> DEFINE n == Len(kinds)
<1>1. PICK ks \in [1..1 -> Kinds] \cup [1..2 -> Kinds] :
        /\ n + Len(ks) <= MaxCalls /\ kinds' = kinds \o ks
        /\ todo' = (n + 1)..(n + Len(ks))
        /\ Yield(Ev("calls", (n + 1)..(n + Len(ks))),
                 IF "long" \in Range(ks) THEN "final" ELSE "open", TRUE, "batch")
  BY DEF ModelCalls
<1>2. kinds \in Seq(Kinds) /\ n \in Nat /\ DOMAIN kinds = 1..n /\ MaxCalls \in Nat
  BY TurnAssumption DEF TypeOK
<1>3. ks \in Seq(Kinds) /\ Len(ks) \in {1, 2}
  <2>1. \A m \in {1, 2} : \A f \in [1..m -> Kinds] : f \in Seq(Kinds) /\ Len(f) = m
    OBVIOUS
  <2> QED BY <2>1
<1>4. /\ kinds' \in Seq(Kinds) /\ Len(kinds') = n + Len(ks)
      /\ DOMAIN kinds' = 1..(n + Len(ks)) /\ \A c \in 1..n : kinds'[c] = kinds[c]
  BY <1>1, <1>2, <1>3
<1>5. /\ todo' \subseteq 1..(n + Len(ks)) /\ todo' \cap 1..n = {}
      /\ todo' \subseteq 1..MaxCalls /\ 1..n \subseteq 1..(n + Len(ks))
  BY <1>1, <1>2, <1>3
<1> HIDE DEF n
<1>6. Ev("calls", todo') \in Event BY <1>5 DEF Ev, Event, AgentWords
<1>7. /\ hand' = <<Ev("calls", todo')>> /\ at' = "yield" /\ next' = "batch"
      /\ hadTools' = TRUE /\ last' \in {"final", "open"}
  BY <1>1 DEF Yield
<1>8. Ev("calls", todo').what = "calls" /\ Ev("calls", todo').ids = todo' BY DEF Ev
<1> QED BY <1>1, <1>2, <1>4, <1>5, <1>6, <1>7, <1>8

\* The events that are stored, and the calls that they ask about.
LEMMA LogFacts ==
  ASSUME TypeOK
  PROVE  /\ log \in Seq(Event) /\ Len(log) \in Nat /\ DOMAIN log = 1..Len(log)
         /\ \A i \in DOMAIN log : log[i] \in Event /\ log[i].ids \subseteq 1..MaxCalls
         /\ Gates \subseteq 1..MaxCalls /\ Now \in Nat
<1>1. log \in Seq(Event) /\ Len(log) \in Nat /\ DOMAIN log = 1..Len(log) BY DEF TypeOK
<1>2. \A i \in DOMAIN log : log[i] \in Event BY <1>1
<1>3. \A e \in Event : e.ids \subseteq 1..MaxCalls BY DEF Event
<1>4. Gates \subseteq 1..MaxCalls BY <1>2, <1>3 DEF Gates, Is
<1>5. Now \in Nat
  <2>1. IsFiniteSet(1..Len(log)) BY <1>1, FS_Interval
  <2>2. {u \in UserEvents : u <= Len(log)} \subseteq 1..Len(log) BY <1>1 DEF UserEvents
  <2> QED BY <2>1, <2>2, FS_Subset, FS_CardinalityType DEF Now, Turn
<1> QED BY <1>1, <1>2, <1>3, <1>4, <1>5

\* What the user may say is an event, and decides on gates that were raised.
LEMMA MessageFacts ==
  ASSUME TypeOK, NEW m \in Messages
  PROVE  m \in Event /\ m.what \in UserWords /\ m.ids \subseteq Gates
<1>1. Gates \subseteq 1..MaxCalls BY LogFacts
<1>2. CASE m \in {Ev("text", {}), Ev("yes", {})}
  BY <1>2 DEF Ev, Event, UserWords
<1>3. ASSUME NEW ids \in SUBSET Gates, NEW ok \in SUBSET ids,
             m = [what |-> "decide", ids |-> ids, ok |-> ok]
      PROVE  m \in Event /\ m.what \in UserWords /\ m.ids \subseteq Gates
  BY <1>1, <1>3 DEF Event, UserWords
<1> QED BY <1>2, <1>3 DEF Messages

\* What is stored: nothing, or the event in hand.
LEMMA StoreFacts ==
  ASSUME TypeOK, InHand, Store
  PROVE  \E e \in Event :
           /\ hand = <<e>> /\ e.what \in AgentWords
           /\ IF e.what \in {"answers", "gate"} THEN log' = Append(log, e) ELSE log' = log
<1>1. PICK e \in Event : hand = <<e>> BY DEF Store, InHand
<1>2. hand[1] = e /\ DOMAIN hand = {1} BY <1>1
<1>3. e.what \in AgentWords BY <1>2 DEF Store, InHand
<1>4. log \o <<e>> = Append(log, e) BY DEF TypeOK
<1>5. log' = IF e.what \in {"answers", "gate"} THEN log \o <<e>> ELSE log
  BY <1>1, <1>2 DEF Store
<1> QED BY <1>1, <1>3, <1>4, <1>5

\* An event of the agent about calls of the batch.
LEMMA EvFacts ==
  ASSUME NEW what \in AgentWords, NEW ids \in SUBSET (1..MaxCalls)
  PROVE  /\ Ev(what, ids) \in Event /\ <<Ev(what, ids)>> \in Seq(Event)
         /\ Ev(what, ids).what = what /\ Ev(what, ids).ids = ids
         /\ <<Ev(what, ids)>>[1] = Ev(what, ids)
BY DEF Ev, Event

\* What an action that yields an event does.
LEMMA YieldFacts ==
  ASSUME NEW what \in AgentWords, NEW ids \in SUBSET (1..MaxCalls), NEW seen, NEW tools, NEW then,
         Yield(Ev(what, ids), seen, tools, then)
  PROVE  /\ hand' \in Seq(Event) /\ \E e \in Event : hand' = <<e>>
         /\ hand'[1].what = what /\ hand'[1].ids = ids
         /\ at' = "yield" /\ next' = then /\ last' = seen /\ hadTools' = (hadTools \/ tools)
BY EvFacts DEF Yield

LEMMA TypeStep == TypeOK /\ InHand /\ [Next]_vars => TypeOK'
<1> SUFFICES ASSUME TypeOK, InHand, [Next]_vars PROVE TypeOK' OBVIOUS
<1> USE TurnAssumption DEF batchVars, stepVars, runVars
<1>1. CASE UserSends
  <2>1. PICK m \in Messages : log' = Append(log, m) BY <1>1 DEF UserSends
  <2>2. log' \in Seq(Event) BY <2>1, MessageFacts DEF TypeOK
  <2> QED BY <1>1, <2>2 DEF UserSends, TypeOK
<1>2. CASE Cut
  <2>1. Now \in Nat BY LogFacts
  <2>2. cuts' \subseteq Nat BY <1>2, <2>1 DEF Cut, TypeOK
  <2>3. hand' \in Seq(Event) BY <1>2 DEF Cut
  <2> QED BY <1>2, <2>2, <2>3 DEF Cut, TypeOK
<1>3. CASE Store
  <2>1. log' \in Seq(Event)
    <3>1. \A e \in Event : Append(log, e) \in Seq(Event) BY LogFacts
    <3> QED BY <1>3, <3>1, StoreFacts, LogFacts
  <2> QED BY <1>3, <2>1 DEF Store, TypeOK
<1>4. CASE Confirm
  <2>1. Resumable \subseteq 1..MaxCalls BY LogFacts DEF Resumable
  <2> QED BY <1>4, <2>1 DEF Confirm, TypeOK
<1>5. CASE ResumeCall \/ RunCall
  <2>1. Min(todo) \in todo BY <1>5, Extremes DEF ResumeCall, RunCall, TypeOK
  <2> DEFINE c == Min(todo)
  <2>2. c \in 1..MaxCalls BY <2>1 DEF TypeOK
  <2>3. /\ \E n \in {0, 1} : effects' = [effects EXCEPT ![c] = @ + n]
        /\ done' \in {done, done \cup {c}} /\ asked' \in {asked, asked \cup {c}}
        /\ todo' = todo \ {c}
        /\ UNCHANGED <<log, kinds, cuts, at, hand, next, stepVars, runVars>>
    BY <1>5 DEF ResumeCall, RunCall
  <2> HIDE DEF c
  <2>4. effects' \in [1..MaxCalls -> Nat]
    <3>1. effects \in [1..MaxCalls -> Nat] BY DEF TypeOK
    <3> QED BY <2>2, <2>3, <3>1
  <2> QED BY <2>2, <2>3, <2>4 DEF TypeOK
<1>6. CASE Resumed
  <2>1. hand' \in Seq(Event) /\ at' = "yield" /\ next' = "model" /\ last' = "open"
        /\ hadTools' = TRUE
    BY <1>6, YieldFacts DEF Resumed, TypeOK, AgentWords
  <2> QED BY <1>6, <2>1 DEF Resumed, TypeOK
<1>7. CASE CallModel \/ Paused \/ StreamEnds \/ EndStep
  <2>1. Len(log) \in Nat BY LogFacts
  <2>2. CASE CallModel BY <2>1, <2>2 DEF CallModel, TypeOK
  <2>3. CASE Paused \/ StreamEnds BY <2>3 DEF Paused, StreamEnds, TypeOK
  <2>4. CASE EndStep BY <2>4 DEF EndStep, TypeOK
  <2> QED BY <1>7, <2>2, <2>3, <2>4
<1>8. CASE CallTooMany \/ ModelFails
  <2>1. hand' \in Seq(Event) /\ at' = "yield" /\ next' = "stepEnd" /\ last' = "empty"
        /\ hadTools' = hadTools
    BY <1>8, YieldFacts DEF CallTooMany, ModelFails, TypeOK, AgentWords
  <2>2. CASE CallTooMany BY <2>1, <2>2 DEF CallTooMany, TypeOK
  <2>3. CASE ModelFails BY <2>1, <2>3 DEF ModelFails, TypeOK
  <2> QED BY <1>8, <2>2, <2>3
<1>9. CASE ModelCalls
  <2>1. hand' \in Seq(Event)
    <3>1. \A e \in Event : <<e>> \in Seq(Event) OBVIOUS
    <3> QED BY <1>9, <3>1, NewCalls
  <2>2. responses' \in Nat BY <1>9 DEF ModelCalls, Respond, TypeOK
  <2> QED BY <1>9, <2>1, <2>2, NewCalls DEF ModelCalls, Respond, TypeOK
<1>10. CASE ModelSays \/ ModelReports
  <2>1. hand' \in Seq(Event) /\ at' = "yield" /\ next' = "stream" /\ last' \in {"final", "empty"}
        /\ hadTools' = hadTools
    BY <1>10, YieldFacts DEF ModelSays, ModelReports, TypeOK, AgentWords
  <2>2. CASE ModelSays BY <2>1, <2>2 DEF ModelSays, Respond, TypeOK
  <2>3. CASE ModelReports BY <2>1, <2>3 DEF ModelReports, Respond, TypeOK
  <2> QED BY <1>10, <2>2, <2>3
<1>11. CASE ModelStreamsText BY <1>11 DEF ModelStreamsText, Respond, TypeOK
<1>12. CASE BatchThrows
  <2>1. hand' \in Seq(Event) /\ at' = "yield" /\ next' = "stepEnd" /\ last' = "empty"
        /\ hadTools' = hadTools
    BY <1>12, YieldFacts DEF BatchThrows, TypeOK, AgentWords
  <2> QED BY <1>12, <2>1 DEF BatchThrows, TypeOK
<1>13. CASE BatchIsSilent BY <1>13 DEF BatchIsSilent, Batched, TypeOK
<1>14. CASE BatchAnswers \/ BatchAsks
  <2>1. hand' \in Seq(Event) /\ at' = "yield" /\ next' = "stream" /\ last' \in {"final", "open"}
        /\ hadTools' = TRUE
    BY <1>14, YieldFacts DEF BatchAnswers, BatchAsks, TypeOK, AgentWords
  <2> QED BY <1>14, <2>1 DEF BatchAnswers, BatchAsks, Batched, TypeOK
<1>15. CASE UNCHANGED vars BY <1>15 DEF vars, TypeOK
<1> QED BY <1>1, <1>2, <1>3, <1>4, <1>5, <1>6, <1>7, <1>8, <1>9, <1>10, <1>11, <1>12, <1>13,
           <1>14, <1>15 DEF Next

\* The actions that move the turn along with nothing in hand, and those that
\* yield an event about no call.
Moves == CallModel \/ Paused \/ ModelStreamsText \/ StreamEnds \/ EndStep
Remarks == CallTooMany \/ ModelSays \/ ModelReports \/ ModelFails

LEMMA MovesFacts ==
  ASSUME TypeOK, Moves
  PROVE  /\ UNCHANGED <<log, kinds, effects, cuts, hand, next, todo, done, asked, endInvocation>>
         /\ at \in {"model", "stream", "stepEnd"}
         /\ at' \in {"stream", "stepEnd", "confirm", "idle"}
BY DEF Moves, CallModel, Paused, ModelStreamsText, Respond, StreamEnds, EndStep, batchVars,
   runVars

LEMMA RemarksFacts ==
  ASSUME TypeOK, Remarks
  PROVE  /\ UNCHANGED <<log, kinds, effects, cuts, todo, done, asked, endInvocation, heard>>
         /\ at \in {"model", "stream"} /\ at' = "yield" /\ next' \in {"stream", "stepEnd"}
         /\ hadTools' = hadTools /\ last' \in {"final", "empty"}
         /\ \E e \in Event : hand' = <<e>> /\ e.what \in {"error", "said", "report"} /\ e.ids = {}
<1>1. ASSUME NEW what \in {"error", "said", "report"}, NEW seen, NEW then,
             Yield(Ev(what, {}), seen, FALSE, then)
      PROVE  /\ at' = "yield" /\ next' = then /\ last' = seen
             /\ hadTools' = hadTools
             /\ \E e \in Event : hand' = <<e>> /\ e.what = what /\ e.ids = {}
  <2>1. what \in AgentWords /\ {} \in SUBSET (1..MaxCalls) BY DEF AgentWords
  <2> QED BY <1>1, <2>1, EvFacts DEF Yield, TypeOK
<1>2. CASE CallTooMany BY <1>1, <1>2 DEF CallTooMany, batchVars
<1>3. CASE ModelSays BY <1>1, <1>3 DEF ModelSays, Respond
<1>4. CASE ModelReports BY <1>1, <1>4 DEF ModelReports, Respond
<1>5. CASE ModelFails BY <1>1, <1>5 DEF ModelFails, batchVars, runVars
<1> QED BY <1>2, <1>3, <1>4, <1>5 DEF Remarks

\* The actions that run one call, and those that end a batch with an event
\* about calls of it.
LEMMA RunFacts ==
  ASSUME TypeOK, ResumeCall \/ RunCall
  PROVE  /\ Min(todo) \in todo /\ todo' = todo \ {Min(todo)}
         /\ UNCHANGED <<log, kinds, cuts, at, hand, next, stepVars, runVars>>
         /\ RunCall => /\ at = "batch"
                       /\ done' \subseteq done \cup {Min(todo)}
                       /\ asked' = IF kinds[Min(todo)] = "gated" THEN asked \cup {Min(todo)}
                                   ELSE asked
                       /\ \A c \in 1..MaxCalls : effects'[c] # effects[c] =>
                            c = Min(todo) /\ kinds[c] # "gated"
         /\ ResumeCall => /\ at = "resume" /\ done' = done \cup {Min(todo)} /\ asked' = asked
                          /\ \A c \in 1..MaxCalls : effects'[c] # effects[c] =>
                               c = Min(todo) /\ c \in Decision.ok
<1>1. Min(todo) \in todo BY TurnAssumption, Extremes DEF ResumeCall, RunCall, TypeOK
<1> DEFINE c == Min(todo)
<1>2. effects \in [1..MaxCalls -> Nat] /\ c \in 1..MaxCalls BY <1>1 DEF TypeOK
<1>3. CASE ResumeCall
  <2>1. /\ effects' = [effects EXCEPT ![c] = @ + (IF c \in Decision.ok THEN 1 ELSE 0)]
        /\ at = "resume" /\ done' = done \cup {c} /\ asked' = asked /\ todo' = todo \ {c}
        /\ UNCHANGED <<log, kinds, cuts, at, hand, next, stepVars, runVars>>
    BY <1>3 DEF ResumeCall
  <2> HIDE DEF c
  <2>2. \A d \in 1..MaxCalls : effects'[d] # effects[d] => d = c /\ d \in Decision.ok
    BY <1>2, <2>1
  <2>3. ~RunCall BY <2>1 DEF RunCall
  <2> QED BY <1>1, <2>1, <2>2, <2>3 DEF c
<1>4. CASE RunCall
  <2>1. /\ effects' = [effects EXCEPT ![c] = @ + (IF kinds[c] = "gated" THEN 0 ELSE 1)]
        /\ at = "batch" /\ done' \subseteq done \cup {c} /\ todo' = todo \ {c}
        /\ asked' = IF kinds[c] = "gated" THEN asked \cup {c} ELSE asked
        /\ UNCHANGED <<log, kinds, cuts, at, hand, next, stepVars, runVars>>
    BY <1>4 DEF RunCall
  <2> HIDE DEF c
  <2>2. \A d \in 1..MaxCalls : effects'[d] # effects[d] => d = c /\ kinds[d] # "gated"
    BY <1>2, <2>1
  <2>3. ~ResumeCall BY <2>1 DEF ResumeCall
  <2> QED BY <1>1, <2>1, <2>2, <2>3 DEF c
<1> QED BY <1>3, <1>4

LEMMA EndFacts ==
  ASSUME TypeOK, Resumed \/ BatchThrows \/ BatchAnswers \/ BatchAsks
  PROVE  /\ UNCHANGED <<log, kinds, effects, cuts, llmCalls, heard>>
         /\ todo' = {} /\ done' = {} /\ at' = "yield"
         /\ \E e \in Event :
              /\ hand' = <<e>>
              /\ \/ Resumed /\ e.what = "answers" /\ e.ids = done
                 \/ BatchThrows /\ e.what = "error" /\ e.ids = {}
                 \/ BatchAnswers /\ e.what = "answers" /\ e.ids = done
                 \/ BatchAsks /\ e.what = "gate" /\ e.ids = asked
         /\ BatchThrows => /\ at = "batch" /\ next' = "stepEnd" /\ hadTools' = hadTools
                           /\ last' = "empty" /\ asked' = {} /\ endInvocation' = endInvocation
         /\ Resumed => /\ at = "resume" /\ todo = {} /\ next' = "model" /\ hadTools' = TRUE
                       /\ last' = "open" /\ asked' = asked /\ endInvocation' = endInvocation
         /\ BatchAnswers => /\ at = "batch" /\ asked = {} /\ next' = "stream"
                            /\ hadTools' = TRUE /\ last' \in {"final", "open"} /\ asked' = {}
                            /\ endInvocation' = endInvocation
         /\ BatchAsks => /\ at = "batch" /\ next' = "stream" /\ hadTools' = TRUE
                         /\ last' = "final" /\ asked' = {} /\ endInvocation' = TRUE
<1>1. ASSUME NEW what \in {"answers", "gate"}, NEW ids \in SUBSET (1..MaxCalls), NEW seen,
             NEW then, Yield(Ev(what, ids), seen, TRUE, then)
      PROVE  /\ at' = "yield" /\ next' = then /\ last' = seen /\ hadTools' = TRUE
             /\ \E e \in Event : hand' = <<e>> /\ e.what = what /\ e.ids = ids
  <2>1. what \in AgentWords BY DEF AgentWords
  <2> QED BY <1>1, <2>1, EvFacts DEF Yield
<1>2. done \in SUBSET (1..MaxCalls) /\ asked \in SUBSET (1..MaxCalls) /\ hadTools \in BOOLEAN
  BY DEF TypeOK
<1>3. CASE Resumed
  <2>1. /\ at = "resume" /\ todo = {} /\ done' = {}
        /\ Yield(Ev("answers", done), "open", TRUE, "model")
        /\ UNCHANGED <<log, kinds, effects, cuts, todo, asked, runVars>>
    BY <1>3 DEF Resumed
  <2>2. /\ at' = "yield" /\ next' = "model" /\ last' = "open" /\ hadTools' = TRUE
        /\ \E e \in Event : hand' = <<e>> /\ e.what = "answers" /\ e.ids = done
    BY <1>1, <1>2, <2>1
  <2>3. ~BatchThrows /\ ~BatchAnswers /\ ~BatchAsks
    BY <2>1 DEF BatchThrows, BatchAnswers, BatchAsks, Batched
  <2> QED BY <1>3, <2>1, <2>2, <2>3 DEF runVars
<1>4. CASE BatchThrows
  <2>1. /\ at = "batch" /\ todo # {} /\ todo' = {} /\ done' = {} /\ asked' = {}
        /\ Yield(Ev("error", {}), "empty", FALSE, "stepEnd")
        /\ UNCHANGED <<log, kinds, effects, cuts, runVars>>
    BY <1>4 DEF BatchThrows
  <2>2. /\ at' = "yield" /\ next' = "stepEnd" /\ last' = "empty" /\ hadTools' = hadTools
        /\ \E e \in Event : hand' = <<e>> /\ e.what = "error" /\ e.ids = {}
    <3>1. "error" \in AgentWords /\ {} \in SUBSET (1..MaxCalls) BY DEF AgentWords
    <3> QED BY <1>2, <2>1, <3>1, EvFacts DEF Yield
  <2>3. ~Resumed /\ ~BatchAnswers /\ ~BatchAsks
    BY <2>1 DEF Resumed, BatchAnswers, BatchAsks, Batched
  <2> QED BY <1>4, <2>1, <2>2, <2>3 DEF runVars
<1>5. CASE BatchAnswers
  <2>1. /\ at = "batch" /\ todo = {} /\ asked = {} /\ done' = {} /\ asked' = {}
        /\ \E seen \in {"final", "open"} : Yield(Ev("answers", done), seen, TRUE, "stream")
        /\ UNCHANGED <<log, kinds, effects, cuts, todo, llmCalls, heard, endInvocation>>
    BY <1>5 DEF BatchAnswers, Batched
  <2>2. /\ at' = "yield" /\ next' = "stream" /\ last' \in {"final", "open"} /\ hadTools' = TRUE
        /\ \E e \in Event : hand' = <<e>> /\ e.what = "answers" /\ e.ids = done
    <3>1. PICK seen \in {"final", "open"} : Yield(Ev("answers", done), seen, TRUE, "stream")
      BY <2>1
    <3>2. /\ at' = "yield" /\ next' = "stream" /\ last' = seen /\ hadTools' = TRUE
          /\ \E e \in Event : hand' = <<e>> /\ e.what = "answers" /\ e.ids = done
      BY <1>1, <1>2, <3>1
    <3> QED BY <3>2
  <2>3. ~Resumed /\ ~BatchThrows /\ ~BatchAsks
    BY <2>1 DEF Resumed, BatchThrows, BatchAsks
  <2> QED BY <1>5, <2>1, <2>2, <2>3
<1>6. CASE BatchAsks
  <2>1. /\ at = "batch" /\ todo = {} /\ asked # {} /\ done' = {} /\ asked' = {}
        /\ Yield(Ev("gate", asked), "final", TRUE, "stream") /\ endInvocation' = TRUE
        /\ UNCHANGED <<log, kinds, effects, cuts, todo, llmCalls, heard>>
    BY <1>6 DEF BatchAsks, Batched
  <2>2. /\ at' = "yield" /\ next' = "stream" /\ last' = "final" /\ hadTools' = TRUE
        /\ \E e \in Event : hand' = <<e>> /\ e.what = "gate" /\ e.ids = asked
    BY <1>1, <1>2, <2>1
  <2>3. ~Resumed /\ ~BatchThrows /\ ~BatchAnswers
    BY <2>1 DEF Resumed, BatchThrows, BatchAnswers
  <2> QED BY <1>6, <2>1, <2>2, <2>3
<1> QED BY <1>3, <1>4, <1>5, <1>6

LEMMA InHandStep == TypeOK /\ InHand /\ [Next]_vars => InHand'
<1> SUFFICES ASSUME TypeOK, InHand, [Next]_vars PROVE InHand' OBVIOUS
<1>1. CASE UserSends
  BY <1>1 DEF UserSends, InHand, Held, InBatch, batchVars
<1>2. CASE Cut BY <1>2 DEF Cut, InHand, Held, InBatch
<1>3. CASE Store
  BY <1>3 DEF Store, InHand, Held, InBatch, batchVars, TypeOK
<1>4. CASE Confirm BY <1>4 DEF Confirm, InHand, Held, InBatch
<1>5. CASE ResumeCall \/ RunCall
  <2>1. /\ UNCHANGED <<at, hand, next>> /\ (todo' # {} => todo # {}) /\ at \in {"batch", "resume"}
        /\ asked' # {} => at = "batch"
    BY <1>5, RunFacts DEF InHand
  <2> QED BY <2>1 DEF InHand, Held, InBatch
<1>6. CASE Moves BY <1>6, MovesFacts DEF InHand, Held, InBatch
<1>7. CASE Remarks
  <2>1. PICK e \in Event : hand' = <<e>> /\ e.what \in {"error", "said", "report"}
    BY <1>7, RemarksFacts
  <2>2. hand'[1] = e BY <2>1
  <2> QED BY <1>7, <2>1, <2>2, RemarksFacts DEF InHand, Held, InBatch, AgentWords
<1>8. CASE ModelCalls
  <2>1. PICK e \in Event : hand' = <<e>> /\ e.what = "calls" BY <1>8, NewCalls
  <2>2. hand'[1] = e BY <2>1
  <2>3. done = {} /\ asked = {} /\ UNCHANGED <<done, asked>>
    BY <1>8 DEF ModelCalls, Respond, InHand
  <2> QED BY <1>8, <2>1, <2>2, <2>3, NewCalls DEF InHand, Held, InBatch, AgentWords
<1>9. CASE Resumed \/ BatchThrows \/ BatchAnswers \/ BatchAsks
  <2>1. PICK e \in Event : /\ hand' = <<e>> /\ e.what \in {"answers", "error", "gate"}
                           /\ next' = "model" => e.what = "answers"
    BY <1>9, EndFacts
  <2>2. hand'[1] = e BY <2>1
  <2>3. asked' = {} BY <1>9, EndFacts DEF InHand
  <2> QED BY <1>9, <2>1, <2>2, <2>3, EndFacts DEF InHand, Held, InBatch, AgentWords
<1>10. CASE BatchIsSilent BY <1>10 DEF BatchIsSilent, Batched, InHand, Held, InBatch
<1>11. CASE UNCHANGED vars BY <1>11 DEF vars, batchVars, InHand, Held, InBatch
<1> QED BY <1>1, <1>2, <1>3, <1>4, <1>5, <1>6, <1>7, <1>8, <1>9, <1>10, <1>11
        DEF Next, Moves, Remarks

---------------------------------------------------------------------------
(* One gate for a call                                                     *)

\* What is recorded stays while the calls that are known only grow.
LEMMA RecordedStays ==
  ASSUME Recorded, log' = log, DOMAIN kinds \subseteq DOMAIN kinds',
         \A c \in DOMAIN kinds : kinds'[c] = kinds[c]
  PROVE  Recorded'
<1>1. \A w : Is(w)' = Is(w) BY LogStays
<1>2. \A i \in Is("answers") : i \in DOMAIN log /\ log[i].what = "answers" BY DEF Is
<1>3. \A i \in Is("answers") : log[i].ids \subseteq DOMAIN kinds
  BY <1>2 DEF Recorded, AgentWords
<1> QED BY <1>1, <1>3 DEF Recorded

LEMMA AskedOnceStep == TypeOK /\ InHand /\ AskedOnce /\ [Next]_vars => AskedOnce'
<1> SUFFICES ASSUME TypeOK, InHand, AskedOnce, [Next]_vars PROVE AskedOnce' OBVIOUS
<1> USE DEF batchVars, stepVars, runVars
<1>g. Gates \subseteq DOMAIN kinds
  <2>1. \A i \in Is("gate") : i \in DOMAIN log /\ log[i].what = "gate" BY DEF Is
  <2> QED BY <2>1 DEF AskedOnce, Recorded, Gates, AgentWords
<1>1. CASE UserSends
  <2>1. PICK m \in Messages : log' = Append(log, m) BY <1>1 DEF UserSends
  <2>2. m \in Event /\ m.what \in UserWords BY <2>1, MessageFacts
  <2>3. /\ UNCHANGED <<kinds, hand, next, todo, done, asked>> /\ at' = "confirm"
    BY <1>1 DEF UserSends
  <2>4. /\ DOMAIN log' = DOMAIN log \cup {Len(log) + 1} /\ log'[Len(log) + 1] = m
        /\ \A i \in DOMAIN log : log'[i] = log[i]
        /\ \A w : Is(w)' = Is(w) \cup (IF m.what = w THEN {Len(log) + 1} ELSE {})
    BY <2>1, <2>2, LogGrows
  <2>5. m.what # "gate" /\ m.what # "answers" /\ m.what \notin AgentWords
    BY <2>2 DEF UserWords, AgentWords
  <2>6. Is("gate")' = Is("gate") /\ Is("answers")' = Is("answers") BY <2>4, <2>5
  <2>7. Is("gate") \subseteq DOMAIN log /\ Is("answers") \subseteq DOMAIN log BY DEF Is
  <2>8. Recorded' BY <2>3, <2>4, <2>5, <2>6, <2>7 DEF AskedOnce, Recorded
  <2> QED BY <2>3, <2>8 DEF AskedOnce, InTransit, AtWork, Held, InBatch
<1>2. CASE Cut
  <2>1. Recorded' BY <1>2, RecordedStays DEF Cut, AskedOnce
  <2> QED BY <1>2, <2>1 DEF Cut, AskedOnce, InTransit, AtWork, Held, InBatch
<1>3. CASE Store
  <2>1. PICK e \in Event :
          /\ hand = <<e>> /\ e.what \in AgentWords
          /\ IF e.what \in {"answers", "gate"} THEN log' = Append(log, e) ELSE log' = log
    BY <1>3, StoreFacts
  <2>2. /\ UNCHANGED <<kinds, todo, done, asked>> /\ at = "yield" /\ at' = next /\ hand[1] = e
        /\ at' \in {"model", "stream", "batch", "stepEnd"}
    BY <1>3, <2>1 DEF Store, TypeOK
  <2>3. /\ e.ids \subseteq DOMAIN kinds
        /\ e.what = "gate" => e.ids \cap Gates = {}
        /\ e.what = "answers" => \A c \in e.ids : kinds[c] = "gated" => c \in Gates
        /\ next = "batch" => e.what = "calls"
    BY <2>2 DEF AskedOnce, InTransit, InHand, Held
  <2>4. Recorded' /\ (next = "batch" => Gates' = Gates)
    <3>1. CASE e.what \notin {"answers", "gate"}
      BY <2>1, <2>2, <3>1, RecordedStays, LogStays DEF AskedOnce
    <3>2. CASE e.what \in {"answers", "gate"}
      <4>1. /\ DOMAIN log' = DOMAIN log \cup {Len(log) + 1} /\ log'[Len(log) + 1] = e
            /\ \A i \in DOMAIN log : log'[i] = log[i] /\ i < Len(log) + 1
            /\ \A w : Is(w)' = Is(w) \cup (IF e.what = w THEN {Len(log) + 1} ELSE {})
        BY <2>1, <3>2, LogGrows
      <4>2. Is("gate") \subseteq DOMAIN log /\ Is("answers") \subseteq DOMAIN log BY DEF Is
      <4>3. \A i \in DOMAIN log' :
              log'[i].what \in AgentWords => log'[i].ids \subseteq DOMAIN kinds'
        BY <2>2, <2>3, <4>1 DEF AskedOnce, Recorded
      <4>4. CASE e.what = "gate"
        <5>1. Is("answers")' = Is("answers") /\ Is("gate")' = Is("gate") \cup {Len(log) + 1}
          BY <4>1, <4>4
        <5>2. \A i \in Is("gate") : log[i].ids \cap e.ids = {} BY <2>3, <4>4 DEF Gates
        <5>3. \A i, j \in Is("gate")' : i # j => log'[i].ids \cap log'[j].ids = {}
          BY <4>1, <4>2, <5>1, <5>2 DEF AskedOnce, Recorded
        <5>4. \A i \in Is("answers")' : \A c \in log'[i].ids :
                kinds'[c] = "gated" => \E g \in Is("gate")' : g < i /\ c \in log'[g].ids
          BY <2>2, <4>1, <4>2, <5>1 DEF AskedOnce, Recorded
        <5> QED BY <2>3, <4>3, <4>4, <5>3, <5>4 DEF Recorded
      <4>5. CASE e.what = "answers"
        <5>1. Is("gate")' = Is("gate") /\ Is("answers")' = Is("answers") \cup {Len(log) + 1}
          BY <4>1, <4>5
        <5>2. \A i, j \in Is("gate")' : i # j => log'[i].ids \cap log'[j].ids = {}
          BY <4>1, <4>2, <5>1 DEF AskedOnce, Recorded
        <5>3. \A c \in e.ids : kinds'[c] = "gated" =>
                \E g \in Is("gate")' : g < Len(log) + 1 /\ c \in log'[g].ids
          BY <2>2, <2>3, <4>1, <4>2, <4>5, <5>1 DEF Gates
        <5>4. \A i \in Is("answers") : \A c \in log'[i].ids :
                kinds'[c] = "gated" => \E g \in Is("gate")' : g < i /\ c \in log'[g].ids
          BY <2>2, <4>1, <4>2, <5>1 DEF AskedOnce, Recorded
        <5> QED BY <2>3, <4>1, <4>3, <4>5, <5>1, <5>2, <5>3, <5>4 DEF Recorded
      <4> QED BY <3>2, <4>4, <4>5
    <3> QED BY <3>1, <3>2
  <2>5. AtWork' BY <2>2, <2>4 DEF AskedOnce, AtWork, InBatch
  <2> QED BY <2>2, <2>4, <2>5 DEF AskedOnce, InTransit, Held
<1>4. CASE Confirm
  <2>1. Recorded' BY <1>4, RecordedStays DEF Confirm, AskedOnce
  <2>2. /\ todo' = Resumable /\ done' = {} /\ asked' = {} /\ at' \in {"model", "resume"}
        /\ UNCHANGED <<log, kinds>>
    BY <1>4 DEF Confirm, InHand
  <2>3. Gates' = Gates /\ Decision' = Decision /\ \A c : Spent(c)' <=> Spent(c)
    BY <2>2, LogStays
  <2>4. Resumable \subseteq Decision.ids \cap Gates /\ \A c \in Resumable : ~Spent(c)
    BY DEF Resumable
  <2> QED BY <1>g, <2>1, <2>2, <2>3, <2>4 DEF AskedOnce, InTransit, AtWork, Held, InBatch
<1>5. CASE ResumeCall \/ RunCall
  <2>1. Recorded' BY <1>5, RunFacts, RecordedStays DEF AskedOnce
  <2>2. /\ Min(todo) \in todo /\ todo' = todo \ {Min(todo)}
        /\ UNCHANGED <<log, kinds, at, hand, next>>
    BY <1>5, RunFacts
  <2>3. Gates' = Gates /\ Decision' = Decision /\ \A c : Spent(c)' <=> Spent(c)
    BY <2>2, LogStays
  <2>4. InTransit' BY <2>2, <2>3 DEF AskedOnce, InTransit, Held
  <2>5. CASE RunCall
    <3>1. /\ at = "batch" /\ done' \subseteq done \cup {Min(todo)}
          /\ asked' = IF kinds[Min(todo)] = "gated" THEN asked \cup {Min(todo)} ELSE asked
      BY <2>5, RunFacts
    <3>2. AtWork' BY <2>2, <2>3, <3>1 DEF AskedOnce, AtWork, InBatch
    <3> QED BY <2>1, <2>4, <3>2 DEF AskedOnce
  <2>6. CASE ResumeCall
    <3>1. at = "resume" /\ done' = done \cup {Min(todo)} /\ asked' = asked
      BY <2>6, RunFacts
    <3>2. AtWork' BY <2>2, <2>3, <3>1 DEF AskedOnce, AtWork, InBatch
    <3> QED BY <2>1, <2>4, <3>2 DEF AskedOnce
  <2> QED BY <1>5, <2>5, <2>6
<1>6. CASE Moves
  <2>1. Recorded' BY <1>6, MovesFacts, RecordedStays DEF AskedOnce
  <2> QED BY <1>6, <2>1, MovesFacts DEF AskedOnce, InTransit, AtWork, Held, InBatch
<1>7. CASE Remarks
  <2>1. Recorded' BY <1>7, RemarksFacts, RecordedStays DEF AskedOnce
  <2>2. PICK e \in Event : hand' = <<e>> /\ e.what \in {"error", "said", "report"} /\ e.ids = {}
    BY <1>7, RemarksFacts
  <2>3. hand'[1] = e BY <2>2
  <2> QED BY <1>7, <2>1, <2>2, <2>3, RemarksFacts
          DEF AskedOnce, InTransit, AtWork, Held, InBatch
<1>8. CASE ModelCalls
  <2>1. /\ DOMAIN kinds \subseteq DOMAIN kinds' /\ \A c \in DOMAIN kinds : kinds'[c] = kinds[c]
        /\ todo' \subseteq DOMAIN kinds' /\ todo' \cap DOMAIN kinds = {} /\ at' = "yield"
        /\ next' = "batch"
    BY <1>8, NewCalls
  <2>2. PICK e \in Event : hand' = <<e>> /\ e.what = "calls" /\ e.ids = todo'
    BY <1>8, NewCalls
  <2>3. hand'[1] = e BY <2>2
  <2>4. done' = {} /\ asked' = {} /\ UNCHANGED log
    BY <1>8 DEF ModelCalls, Respond, InHand
  <2>5. Recorded' /\ Gates' = Gates BY <2>1, <2>4, RecordedStays, LogStays DEF AskedOnce
  <2> QED BY <1>g, <2>1, <2>2, <2>3, <2>4, <2>5 DEF AskedOnce, InTransit, AtWork, Held, InBatch
<1>9. CASE Resumed \/ BatchThrows \/ BatchAnswers \/ BatchAsks
  <2>1. /\ UNCHANGED <<log, kinds>> /\ todo' = {} /\ done' = {} /\ at' = "yield"
        /\ asked' = {} /\ next' # "batch"
    BY <1>9, EndFacts DEF InHand
  <2>2. Recorded' /\ Gates' = Gates BY <2>1, RecordedStays, LogStays DEF AskedOnce
  <2>3. PICK e \in Event :
          /\ hand' = <<e>>
          /\ \/ Resumed /\ e.what = "answers" /\ e.ids = done
             \/ BatchThrows /\ e.what = "error" /\ e.ids = {}
             \/ BatchAnswers /\ e.what = "answers" /\ e.ids = done
             \/ BatchAsks /\ e.what = "gate" /\ e.ids = asked
    BY <1>9, EndFacts
  <2>4. hand'[1] = e BY <2>3
  <2>5. /\ Resumed => done \subseteq Gates
        /\ BatchAnswers => \A c \in done : kinds[c] # "gated"
        /\ BatchAsks => asked \cap Gates = {}
    BY EndFacts DEF AskedOnce, AtWork, InBatch
  <2>6. done \cup asked \subseteq DOMAIN kinds BY DEF AskedOnce, AtWork
  <2>7. InTransit' BY <2>1, <2>2, <2>3, <2>4, <2>5, <2>6 DEF InTransit, Held
  <2> QED BY <2>1, <2>2, <2>7 DEF AskedOnce, AtWork, InBatch
<1>10. CASE BatchIsSilent
  <2>1. /\ UNCHANGED <<log, kinds, todo>> /\ done' = {} /\ asked' = {} /\ at' = "stream"
    BY <1>10 DEF BatchIsSilent, Batched
  <2>2. Recorded' BY <2>1, RecordedStays DEF AskedOnce
  <2> QED BY <2>1, <2>2 DEF AskedOnce, InTransit, AtWork, Held, InBatch
<1>11. CASE UNCHANGED vars
  <2>1. UNCHANGED <<log, kinds, at, hand, next, todo, done, asked>> BY <1>11 DEF vars
  <2>2. Recorded' BY <2>1, RecordedStays DEF AskedOnce
  <2>3. Gates' = Gates /\ Decision' = Decision /\ \A c : Spent(c)' <=> Spent(c)
    BY <2>1, LogStays
  <2> QED BY <2>1, <2>2, <2>3 DEF AskedOnce, InTransit, AtWork, Held, InBatch
<1> QED BY <1>1, <1>2, <1>3, <1>4, <1>5, <1>6, <1>7, <1>8, <1>9, <1>10, <1>11
        DEF Next, Moves, Remarks

---------------------------------------------------------------------------
(* The gate ends the invocation, and the answers are told                  *)

LEMMA GateEndsStep == TypeOK /\ InHand /\ GateEnds /\ [Next]_vars => GateEnds'
<1> SUFFICES ASSUME TypeOK, InHand, GateEnds, [Next]_vars PROVE GateEnds' OBVIOUS
<1> USE DEF batchVars, stepVars, runVars
<1>g. Is("gate") \subseteq DOMAIN log BY DEF Is
<1>1. CASE UserSends
  <2>1. PICK m \in Messages : log' = Append(log, m) BY <1>1 DEF UserSends
  <2>2. m \in Event /\ m.what \in UserWords BY <2>1, MessageFacts
  <2>3. m.what # "gate" BY <2>2 DEF UserWords
  <2>4. /\ \A w : Is(w)' = Is(w) \cup (IF m.what = w THEN {Len(log) + 1} ELSE {})
        /\ \A i \in DOMAIN log : Past(i)' <=> Past(i) \/ m.what \in UserWords
    BY <2>1, <2>2, LogGrows
  <2>5. Is("gate")' = Is("gate") BY <2>3, <2>4
  <2>6. \A i \in DOMAIN log : Past(i)' BY <2>2, <2>4
  <2> QED BY <1>1, <1>g, <2>5, <2>6 DEF UserSends, GateEnds, Held
<1>2. CASE Cut BY <1>2 DEF Cut, GateEnds, Held
<1>3. CASE Store
  <2>1. PICK e \in Event :
          /\ hand = <<e>> /\ e.what \in AgentWords
          /\ IF e.what \in {"answers", "gate"} THEN log' = Append(log, e) ELSE log' = log
    BY <1>3, StoreFacts
  <2>2. /\ UNCHANGED endInvocation /\ at = "yield" /\ at' = next /\ hand[1] = e
        /\ at' \in {"model", "stream", "batch", "stepEnd"}
    BY <1>3, <2>1 DEF Store, TypeOK
  <2>3. e.what = "gate" => endInvocation BY <2>2 DEF GateEnds, Held
  <2>4. /\ e.what # "gate" => Is("gate")' = Is("gate")
        /\ \A i \in DOMAIN log : Past(i) => Past(i)'
    <3>1. CASE log' = log BY <3>1, LogStays
    <3>2. CASE log' = Append(log, e)
      <4>1. \A w : Is(w)' = Is(w) \cup (IF e.what = w THEN {Len(log) + 1} ELSE {})
        BY <3>2, LogGrows
      <4>2. \A i \in DOMAIN log : Past(i)' <=> Past(i) \/ e.what \in UserWords
        BY <3>2, LogGrows
      <4>3. e.what # "gate" => Is("gate")' = Is("gate") BY <4>1
      <4> QED BY <4>2, <4>3
    <3> QED BY <2>1, <3>1, <3>2
  <2> QED BY <1>g, <2>2, <2>3, <2>4 DEF GateEnds, Held
<1>4. ASSUME UNCHANGED <<log, endInvocation>>, at # "idle", at' = "yield" => ~Held("gate")'
      PROVE  GateEnds'
  <2>1. Is("gate")' = Is("gate") /\ \A i : Past(i)' <=> Past(i) BY <1>4, LogStays
  <2> QED BY <1>4, <2>1 DEF GateEnds, Held
<1>5. CASE Confirm BY <1>4, <1>5 DEF Confirm
<1>6. CASE ResumeCall \/ RunCall
  <2>1. UNCHANGED <<log, endInvocation, at>> /\ at \in {"resume", "batch"} BY <1>6, RunFacts
  <2> QED BY <1>4, <2>1
<1>7. CASE Moves BY <1>4, <1>7, MovesFacts
<1>8. CASE Remarks
  <2>1. PICK e \in Event : hand' = <<e>> /\ e.what \in {"error", "said", "report"}
    BY <1>8, RemarksFacts
  <2>2. hand'[1] = e BY <2>1
  <2> QED BY <1>4, <1>8, <2>1, <2>2, RemarksFacts DEF Held
<1>9. CASE ModelCalls
  <2>1. PICK e \in Event : hand' = <<e>> /\ e.what = "calls" BY <1>9, NewCalls
  <2>2. hand'[1] = e BY <2>1
  <2> QED BY <1>4, <1>9, <2>1, <2>2 DEF Held, ModelCalls, Respond
<1>10. CASE Resumed \/ BatchThrows \/ BatchAnswers
  <2>1. PICK e \in Event : hand' = <<e>> /\ (e.what = "gate" => BatchAsks) BY <1>10, EndFacts
  <2>2. ~BatchAsks
    BY <1>10 DEF Resumed, BatchThrows, BatchAnswers, BatchAsks, Batched
  <2>3. hand'[1] = e BY <2>1
  <2> QED BY <1>4, <1>10, <2>1, <2>2, <2>3, EndFacts DEF Held
<1>11. CASE BatchAsks BY <1>11, EndFacts DEF GateEnds
<1>12. CASE BatchIsSilent BY <1>4, <1>12 DEF BatchIsSilent, Batched
<1>13. CASE UNCHANGED vars
  <2>1. UNCHANGED <<log, endInvocation, at, hand>> BY <1>13 DEF vars
  <2>2. Is("gate")' = Is("gate") /\ \A i : Past(i)' <=> Past(i) BY <2>1, LogStays
  <2> QED BY <2>1, <2>2 DEF GateEnds, Held
<1> QED BY <1>1, <1>2, <1>3, <1>5, <1>6, <1>7, <1>8, <1>9, <1>10, <1>11, <1>12, <1>13
        DEF Next, Moves, Remarks

\* What was told stays told.
LEMMA ToldStays ==
  ASSUME Told, UNCHANGED <<log, heard, endInvocation, llmCalls>>
  PROVE  Told'
<1>1. Is("answers")' = Is("answers") /\ \A i : Past(i)' <=> Past(i) BY LogStays
<1> QED BY <1>1 DEF Told

LEMMA HeededStep == TypeOK /\ InHand /\ Heeded /\ [Next]_vars => Heeded'
<1> SUFFICES ASSUME TypeOK, InHand, Heeded, [Next]_vars PROVE Heeded' OBVIOUS
<1> USE DEF batchVars, stepVars, runVars
<1>a. Is("answers") \subseteq DOMAIN log BY DEF Is
<1>h. hadTools \in BOOLEAN BY DEF TypeOK
<1>1. CASE UserSends BY <1>1 DEF UserSends, Heeded, Held
<1>2. CASE Cut
  <2>1. cuts' = cuts \cup {Now} /\ Now' = Now /\ at' = "idle" /\ hadTools' = FALSE
    BY <1>2, LogStays DEF Cut
  <2> QED BY <2>1 DEF Heeded, Held
<1>3. CASE Store
  <2>1. PICK e \in Event :
          /\ hand = <<e>> /\ e.what \in AgentWords
          /\ IF e.what \in {"answers", "gate"} THEN log' = Append(log, e) ELSE log' = log
    BY <1>3, StoreFacts
  <2>2. /\ UNCHANGED <<stepVars, runVars>> /\ at = "yield" /\ at' = next /\ hand[1] = e
        /\ at' \in {"model", "stream", "batch", "stepEnd"}
    BY <1>3, <2>1 DEF Store, TypeOK
  <2>3. e.what = "answers" => hadTools BY <2>2 DEF Heeded, Held
  <2>4. /\ e.what # "answers" => Is("answers")' = Is("answers")
        /\ \A i \in DOMAIN log : Past(i) => Past(i)'
    <3>1. CASE log' = log BY <3>1, LogStays
    <3>2. CASE log' = Append(log, e)
      <4>1. \A w : Is(w)' = Is(w) \cup (IF e.what = w THEN {Len(log) + 1} ELSE {})
        BY <3>2, LogGrows
      <4>2. \A i \in DOMAIN log : Past(i)' <=> Past(i) \/ e.what \in UserWords
        BY <3>2, LogGrows
      <4>3. e.what # "answers" => Is("answers")' = Is("answers") BY <4>1
      <4> QED BY <4>2, <4>3
    <3> QED BY <2>1, <3>1, <3>2
  <2>5. ~hadTools => Told BY <2>2 DEF Heeded
  <2>6. ~hadTools => Told' BY <1>a, <2>2, <2>3, <2>4, <2>5 DEF Told
  <2> QED BY <2>2, <2>6 DEF Heeded, Held
<1>4. CASE Confirm BY <1>4 DEF Confirm, Heeded, Held
<1>5. ASSUME UNCHANGED <<log, heard, endInvocation, llmCalls, hadTools>>,
             at \in {"yield", "stream", "batch", "stepEnd"},
             at' \in {"yield", "stream", "batch", "stepEnd"},
             at' = "yield" => ~Held("answers")', last' = "none" => last = "none"
      PROVE  Heeded'
  <2>1. ~hadTools => Told BY <1>5 DEF Heeded
  <2>2. ~hadTools => Told' BY <1>5, <2>1, ToldStays
  <2> QED BY <1>5, <2>2 DEF Heeded, Held
<1>6. CASE ResumeCall
  <2>1. at' = "resume" /\ UNCHANGED stepVars BY <1>6 DEF ResumeCall
  <2> QED BY <2>1 DEF Heeded, Held
<1>7. CASE RunCall
  <2>1. at = "batch" /\ at' = "batch" /\ UNCHANGED <<log, stepVars, runVars>>
    BY <1>7 DEF RunCall
  <2> QED BY <1>5, <2>1
<1>8. CASE CallModel
  <2>1. heard' = Len(log) /\ log' = log /\ at' = "stream" /\ UNCHANGED stepVars
    BY <1>8 DEF CallModel
  <2>2. Is("answers")' = Is("answers") BY <2>1, LogStays
  <2>3. \A i \in DOMAIN log : i <= Len(log) BY LogFacts
  <2>4. Told' BY <1>a, <2>1, <2>2, <2>3 DEF Told
  <2> QED BY <2>1, <2>4 DEF Heeded, Held
<1>9. CASE CallTooMany
  <2>1. llmCalls' > MaxLlmCalls BY <1>9, TurnAssumption DEF CallTooMany, TypeOK
  <2>2. Told' BY <2>1 DEF Told
  <2>3. PICK e \in Event : hand' = <<e>> /\ e.what \in {"error", "said", "report"}
    BY <1>9, RemarksFacts DEF Remarks
  <2>4. hand'[1] = e BY <2>3
  <2>5. at' = "yield" /\ last' \in {"final", "empty"} BY <1>9, RemarksFacts DEF Remarks
  <2> QED BY <2>2, <2>3, <2>4, <2>5 DEF Heeded, Held
<1>10. CASE Paused
  <2>1. endInvocation /\ endInvocation' = endInvocation /\ at' = "stepEnd" /\ UNCHANGED stepVars
    BY <1>10 DEF Paused
  <2>2. Told' BY <2>1 DEF Told
  <2> QED BY <2>1, <2>2 DEF Heeded, Held
<1>11. CASE ModelSays \/ ModelReports \/ ModelFails
  <2>1. PICK e \in Event : hand' = <<e>> /\ e.what \in {"error", "said", "report"}
    BY <1>11, RemarksFacts DEF Remarks
  <2>2. hand'[1] = e BY <2>1
  <2>3. /\ at = "stream" /\ at' = "yield" /\ hadTools' = hadTools /\ last' \in {"final", "empty"}
        /\ UNCHANGED <<log, heard, endInvocation, llmCalls>>
    <3>1. at' = "yield" /\ hadTools' = hadTools /\ last' \in {"final", "empty"}
      BY <1>11, RemarksFacts DEF Remarks
    <3> QED BY <1>11, <3>1 DEF ModelSays, ModelReports, ModelFails, Respond
  <2>4. ~Held("answers")' BY <2>1, <2>2 DEF Held
  <2> QED BY <1>5, <2>3, <2>4
<1>12. CASE ModelStreamsText \/ StreamEnds
  <2>1. /\ at = "stream" /\ at' \in {"stream", "stepEnd"} /\ last' \in {last, "partial"}
        /\ UNCHANGED <<log, heard, endInvocation, llmCalls, hadTools>>
    BY <1>12 DEF ModelStreamsText, StreamEnds, Respond
  <2> QED BY <1>5, <2>1
<1>13. CASE ModelCalls
  <2>1. PICK e \in Event : hand' = <<e>> /\ e.what = "calls" BY <1>13, NewCalls
  <2>2. hand'[1] = e BY <2>1
  <2> QED BY <1>13, <2>1, <2>2, NewCalls DEF Heeded, Held
<1>14. CASE BatchThrows
  <2>1. PICK e \in Event : hand' = <<e>> /\ (e.what = "answers" => Resumed \/ BatchAnswers)
    BY <1>14, EndFacts
  <2>2. ~Resumed /\ ~BatchAnswers BY <1>14 DEF Resumed, BatchThrows, BatchAnswers, Batched
  <2>3. hand'[1] = e BY <2>1
  <2>4. ~Held("answers")' BY <2>1, <2>2, <2>3 DEF Held
  <2> QED BY <1>5, <1>14, <2>4, EndFacts
<1>15. CASE Resumed \/ BatchAnswers \/ BatchAsks
  <2>1. hadTools' = TRUE /\ at' = "yield" /\ last' # "none" BY <1>15, EndFacts
  <2> QED BY <2>1 DEF Heeded
<1>16. CASE BatchIsSilent
  <2>1. at = "batch" /\ at' = "stream" /\ UNCHANGED <<log, runVars, stepVars>>
    BY <1>16 DEF BatchIsSilent, Batched
  <2> QED BY <1>5, <2>1
<1>17. CASE EndStep
  <2>1. /\ at = "stepEnd" /\ at' = IF EndsTheTurn THEN "idle" ELSE "confirm"
        /\ UNCHANGED <<log, cuts, stepVars, heard, endInvocation, llmCalls>>
    BY <1>17 DEF EndStep
  <2>2. ~hadTools => Told BY <2>1 DEF Heeded
  <2>3. EndsTheTurn => Told \/ last \in {"final", "partial"} BY <2>2 DEF EndsTheTurn, Heeded
  <2>4. EndsTheTurn => Told' \/ last' \in {"final", "partial"} BY <2>1, <2>3, ToldStays
  <2> QED BY <2>1, <2>4 DEF Heeded, Held
<1>18. CASE UNCHANGED vars
  <2>1. UNCHANGED <<log, cuts, at, hand, last, hadTools, heard, endInvocation, llmCalls>>
    BY <1>18 DEF vars
  <2>2. Now' = Now BY <2>1, LogStays
  <2>3. Told => Told' BY <2>1, ToldStays
  <2> QED BY <2>1, <2>2, <2>3 DEF Heeded, Held
<1> QED BY <1>1, <1>2, <1>3, <1>4, <1>6, <1>7, <1>8, <1>9, <1>10, <1>11, <1>12, <1>13, <1>14,
           <1>15, <1>16, <1>17, <1>18 DEF Next

---------------------------------------------------------------------------
(* The decisions                                                           *)

LEMMA LatestFacts ==
  ASSUME TypeOK, UserEvents # {}
  PROVE  LatestUser \in UserEvents /\ \A u \in UserEvents : u <= LatestUser
<1>1. Len(log) \in Nat /\ UserEvents \in SUBSET (1..Len(log)) BY LogFacts DEF UserEvents
<1> QED BY <1>1, Extremes DEF LatestUser

LEMMA UniqueGate ==
  ASSUME Recorded, NEW g \in Is("gate"), NEW c \in log[g].ids
  PROVE  GateOf(c) = g
<1>1. \A i \in Is("gate") : c \in log[i].ids => i = g BY DEF Recorded
<1> QED BY <1>1 DEF GateOf

\* The decision that is carried out is the one of the present turn.
LEMMA PresentDecision ==
  ASSUME TypeOK, NEW i \in Is("decide"), ~Past(i)
  PROVE  Decision.ids = log[i].ids
<1>1. /\ i \in UserEvents /\ log[i].what = "decide"
      /\ \A u \in UserEvents : u \in Nat /\ i \in Nat
  BY LogFacts DEF Is, UserEvents, UserWords
<1>2. LatestUser \in UserEvents /\ i <= LatestUser BY <1>1, LatestFacts
<1>3. ~(i < LatestUser) BY <1>2 DEF Past
<1>4. LatestUser = i BY <1>1, <1>2, <1>3
<1> QED BY <1>1, <1>4 DEF Decision

LEMMA CarriedOutStep ==
  TypeOK /\ InHand /\ AskedOnce /\ CarriedOut /\ [Next]_vars => CarriedOut'
<1> SUFFICES ASSUME TypeOK, InHand, AskedOnce, CarriedOut, [Next]_vars PROVE CarriedOut' OBVIOUS
<1> USE DEF batchVars, stepVars, runVars
<1>d. Is("decide") \subseteq DOMAIN log BY DEF Is
<1>1. CASE UserSends
  <2>1. PICK m \in Messages : log' = Append(log, m) BY <1>1 DEF UserSends
  <2>2. m \in Event /\ m.what \in UserWords /\ m.ids \subseteq Gates BY <2>1, MessageFacts
  <2>3. m.what # "gate" BY <2>2 DEF UserWords
  <2>4. /\ log'[Len(log) + 1] = m /\ \A i \in DOMAIN log : log'[i] = log[i]
        /\ \A w : Is(w)' = Is(w) \cup (IF m.what = w THEN {Len(log) + 1} ELSE {})
        /\ \A i \in DOMAIN log : Turn(i)' = Turn(i)
        /\ Gates \subseteq Gates' /\ \A i : i = Len(log) + 1 => ~Past(i)'
    BY <2>1, <2>2, LogGrows
  <2>5. at = "idle" /\ at' = "confirm" /\ cuts' = cuts BY <1>1 DEF UserSends
  <2>6. \A c \in Gates : Spent(c) => Spent(c)'
    BY <2>1, <2>2, <2>3, SpentStays DEF AskedOnce, Recorded
  <2>7. ASSUME NEW i \in Is("decide")
        PROVE  /\ log'[i].ids \subseteq Gates'
               /\ Turn(i)' \notin cuts' => \A c \in log'[i].ids : Spent(c)'
    <3>1. /\ log[i].ids \subseteq Gates
          /\ Turn(i) \notin cuts => \A c \in log[i].ids : Spent(c)
      BY <2>5 DEF CarriedOut, UnderWay
    <3> QED BY <1>d, <2>4, <2>5, <2>6, <3>1
  <2>8. \A c : UnderWay(c)' BY <2>5 DEF UnderWay
  <2>9. m.ids \subseteq Gates' BY <2>2, <2>4
  <2>10. \A i \in Is("decide")' : i \in Is("decide") \/ (i = Len(log) + 1) BY <2>4
  <2>11. log'[Len(log) + 1].ids \subseteq Gates' BY <2>4, <2>9
  <2>12. ASSUME NEW i \in Is("decide")'
         PROVE  /\ log'[i].ids \subseteq Gates'
                /\ Turn(i)' \notin cuts' =>
                     \A c \in log'[i].ids : Spent(c)' \/ (~Past(i)' /\ UnderWay(c)')
    <3>1. CASE i \in Is("decide") BY <2>7, <3>1
    <3>2. CASE i = Len(log) + 1
      <4>1. \A c \in log'[i].ids : ~Past(i)' /\ UnderWay(c)' BY <2>4, <2>8, <3>2
      <4>2. log'[i].ids \subseteq Gates' BY <2>11, <3>2
      <4> QED BY <4>1, <4>2
    <3> QED BY <2>10, <3>1, <3>2
  <2> QED BY <2>12 DEF CarriedOut
<1>2. CASE Cut
  <2>1. log' = log /\ cuts' = cuts \cup {Now} BY <1>2 DEF Cut
  <2>2. /\ Is("decide")' = Is("decide") /\ Gates' = Gates /\ \A c : Spent(c)' <=> Spent(c)
        /\ \A i : Turn(i)' = Turn(i)
    BY <2>1, LogStays
  <2>3. \A i \in DOMAIN log : ~Past(i) => Turn(i) = Now BY TurnFacts
  <2> QED BY <1>d, <2>1, <2>2, <2>3 DEF CarriedOut
<1>3. ASSUME UNCHANGED <<log, cuts>>,
             \A i \in Is("decide") : \A c \in log[i].ids :
               ~Past(i) /\ UnderWay(c) => Spent(c) \/ UnderWay(c)'
      PROVE  CarriedOut'
  <2>1. /\ Is("decide")' = Is("decide") /\ Gates' = Gates /\ \A c : Spent(c)' <=> Spent(c)
        /\ \A i : (Past(i)' <=> Past(i)) /\ Turn(i)' = Turn(i)
    BY <1>3, LogStays
  <2> QED BY <1>3, <2>1 DEF CarriedOut
<1>4. CASE Store
  <2>1. PICK e \in Event :
          /\ hand = <<e>> /\ e.what \in AgentWords
          /\ IF e.what \in {"answers", "gate"} THEN log' = Append(log, e) ELSE log' = log
    BY <1>4, StoreFacts
  <2>2. at = "yield" /\ hand[1] = e /\ cuts' = cuts BY <1>4, <2>1 DEF Store
  <2>3. next = "model" => e.what = "answers" BY <2>2 DEF InHand, Held
  <2>4. CASE e.what \notin {"answers", "gate"}
    <3>1. \A c : ~UnderWay(c) BY <2>2, <2>3, <2>4 DEF UnderWay
    <3> QED BY <1>3, <2>1, <2>2, <2>4, <3>1
  <2>5. CASE e.what \in {"answers", "gate"}
    <3>1. log' = Append(log, e) /\ e.what \notin UserWords BY <2>1, <2>5 DEF UserWords
    <3>2. /\ \A i \in DOMAIN log : log'[i] = log[i]
          /\ \A w : Is(w)' = Is(w) \cup (IF e.what = w THEN {Len(log) + 1} ELSE {})
          /\ \A i \in DOMAIN log : Turn(i)' = Turn(i)
          /\ Gates \subseteq Gates'
      BY <3>1, LogGrows
    <3>3. Is("decide")' = Is("decide") BY <2>5, <3>2
    <3>4. e.what = "gate" => e.ids \cap Gates = {}
      BY <2>2 DEF AskedOnce, InTransit, Held
    <3>5. \A c \in Gates : (Spent(c) => Spent(c)')
                           /\ (e.what = "answers" /\ c \in e.ids => Spent(c)')
      BY <3>1, <3>4, SpentStays DEF AskedOnce, Recorded
    <3>6. \A c : UnderWay(c) => e.what = "answers" /\ c \in e.ids BY <2>2, <2>3 DEF UnderWay
    <3>7. ASSUME NEW i \in Is("decide")
          PROVE  /\ log'[i].ids \subseteq Gates'
                 /\ Turn(i)' \notin cuts' => \A c \in log'[i].ids : Spent(c)'
      <4>1. /\ log[i].ids \subseteq Gates
            /\ Turn(i) \notin cuts => \A c \in log[i].ids : Spent(c) \/ UnderWay(c)
        BY DEF CarriedOut
      <4> QED BY <1>d, <2>2, <3>2, <3>5, <3>6, <4>1
    <3> QED BY <3>3, <3>7 DEF CarriedOut
  <2> QED BY <2>4, <2>5
<1>5. CASE Confirm
  <2>1. /\ todo' = Resumable /\ at' = IF Resumable = {} THEN "model" ELSE "resume"
        /\ UNCHANGED <<log, cuts>>
    BY <1>5 DEF Confirm
  <2>2. ASSUME NEW i \in Is("decide"), ~Past(i), NEW c \in log[i].ids
        PROVE  Spent(c) \/ UnderWay(c)'
    <3>1. c \in Decision.ids /\ c \in Gates BY <2>2, PresentDecision DEF CarriedOut
    <3>2. Spent(c) \/ c \in Resumable BY <3>1 DEF Resumable
    <3> QED BY <2>1, <3>2 DEF UnderWay
  <2> QED BY <1>3, <2>1, <2>2
<1>6. CASE ResumeCall
  <2>1. /\ Min(todo) \in todo /\ todo' = todo \ {Min(todo)} /\ done' = done \cup {Min(todo)}
        /\ UNCHANGED <<log, cuts, at>> /\ at = "resume"
    BY <1>6, RunFacts
  <2>2. \A c : UnderWay(c) => UnderWay(c)' BY <2>1 DEF UnderWay
  <2> QED BY <1>3, <2>1, <2>2
<1>7. CASE Resumed
  <2>1. /\ UNCHANGED <<log, cuts>> /\ at = "resume" /\ todo = {} /\ at' = "yield"
        /\ next' = "model"
    BY <1>7, EndFacts
  <2>2. ~BatchThrows /\ ~BatchAnswers /\ ~BatchAsks
    BY <2>1 DEF BatchThrows, BatchAnswers, BatchAsks, Batched
  <2>3. PICK e \in Event : hand' = <<e>> /\ e.ids = done BY <1>7, <2>2, EndFacts
  <2>4. hand'[1] = e BY <2>3
  <2>5. \A c : UnderWay(c) => UnderWay(c)' BY <2>1, <2>3, <2>4 DEF UnderWay
  <2> QED BY <1>3, <2>1, <2>5
<1>8. ASSUME UNCHANGED <<log, cuts>>, at \in {"model", "stream", "batch", "stepEnd"}
      PROVE  CarriedOut'
  <2>1. \A c : ~UnderWay(c) BY <1>8 DEF UnderWay
  <2> QED BY <1>3, <1>8, <2>1
<1>9. CASE Moves BY <1>8, <1>9, MovesFacts
<1>10. CASE Remarks BY <1>8, <1>10, RemarksFacts
<1>11. CASE ModelCalls BY <1>8, <1>11 DEF ModelCalls, Respond
<1>12. CASE RunCall BY <1>8, <1>12 DEF RunCall
<1>13. CASE BatchThrows \/ BatchAnswers \/ BatchAsks BY <1>8, <1>13, EndFacts
<1>14. CASE BatchIsSilent BY <1>8, <1>14 DEF BatchIsSilent, Batched
<1>15. CASE UNCHANGED vars
  <2>1. UNCHANGED <<log, cuts, at, next, hand, todo, done>> BY <1>15 DEF vars
  <2>2. \A c : UnderWay(c) => UnderWay(c)' BY <2>1 DEF UnderWay
  <2> QED BY <1>3, <2>1, <2>2
<1> QED BY <1>1, <1>2, <1>4, <1>5, <1>6, <1>7, <1>9, <1>10, <1>11, <1>12, <1>13, <1>14, <1>15
        DEF Next, Moves, Remarks

---------------------------------------------------------------------------
(* The theorems                                                            *)

IInv == TypeOK /\ InHand /\ AskedOnce /\ GateEnds /\ Heeded /\ CarriedOut

LEMMA AtFirst == Init => IInv
<1> SUFFICES ASSUME Init PROVE IInv OBVIOUS
<1>1. /\ log = << >> /\ DOMAIN log = {} /\ log \in Seq(Event) /\ kinds \in Seq(Kinds)
      /\ hand \in Seq(Event) /\ Len(kinds) = 0
  BY DEF Init
<1>2. TypeOK
  <2>1. Len(kinds) <= MaxCalls BY <1>1, TurnAssumption
  <2>2. effects \in [1..MaxCalls -> Nat] BY DEF Init
  <2> QED BY <1>1, <2>1, <2>2 DEF Init, TypeOK
<1>3. \A w : Is(w) = {} BY <1>1 DEF Is
<1>4. InHand BY DEF Init, InHand, Held, InBatch
<1>5. AskedOnce BY <1>1, <1>3 DEF Init, AskedOnce, Recorded, InTransit, AtWork, Held, InBatch
<1>6. GateEnds BY DEF Init, GateEnds, Held
<1>7. Heeded BY <1>1 DEF Init, Heeded, Held
<1>8. CarriedOut BY <1>3 DEF CarriedOut
<1> QED BY <1>2, <1>4, <1>5, <1>6, <1>7, <1>8 DEF IInv

LEMMA AlwaysIInv == Spec => []IInv
<1>1. IInv /\ [Next]_vars => IInv'
  BY TypeStep, InHandStep, AskedOnceStep, GateEndsStep, HeededStep, CarriedOutStep DEF IInv
<1> QED BY <1>1, AtFirst, PTL DEF Spec

\* Every variable keeps its type, whatever the user sends and wherever the
\* turn is cut.
THEOREM TypeCorrect == Spec => []TypeOK
<1>1. IInv => TypeOK BY DEF IInv
<1> QED BY <1>1, AlwaysIInv, PTL

\* A turn that asked for a confirmation does not go back to the model: the
\* gate ends the invocation before its event is stored.
THEOREM TurnIsHeld == Spec => GateHoldsTheTurn
<1> DEFINE A == llmCalls' > llmCalls => \A i \in Is("gate") : Turn(i) < Now
<1>1. IInv /\ [Next]_vars => [A]_vars
  <2> SUFFICES ASSUME IInv, Next, llmCalls' > llmCalls PROVE \A i \in Is("gate") : Turn(i) < Now
    OBVIOUS
  <2>1. llmCalls \in Nat BY DEF IInv, TypeOK
  <2>2. llmCalls' # llmCalls /\ llmCalls' # 0 BY <2>1
  <2>3. CallModel \/ CallTooMany
    BY <2>2 DEF Next, UserSends, Cut, Store, Confirm, ResumeCall, Resumed, Paused, ModelCalls,
      ModelSays, ModelReports, ModelStreamsText, Respond, ModelFails, StreamEnds, RunCall,
      BatchThrows, BatchIsSilent, BatchAnswers, BatchAsks, Batched, EndStep, runVars
  <2>4. at = "model" /\ ~endInvocation BY <2>3 DEF CallModel, CallTooMany
  <2>5. \A i \in Is("gate") : i \in DOMAIN log /\ Past(i) BY <2>4 DEF IInv, GateEnds, Is
  <2> QED BY <2>5, TurnFacts DEF IInv
<1> QED BY <1>1, AlwaysIInv, PTL DEF Spec, GateHoldsTheTurn

\* No turn that ran to its end leaves the model ignorant of what its tools
\* answered: a step with tools is followed by another, whatever came last.
THEOREM AnswersAreTold == Spec => []ToolsAreHeard
<1>1. IInv => ToolsAreHeard
  <2> SUFFICES ASSUME IInv, at = "idle", log # << >>, Now \notin cuts, NEW i \in Is("answers")
               PROVE  \/ Turn(i) < Now \/ i <= heard
                      \/ last \in {"final", "partial"} \/ endInvocation \/ llmCalls > MaxLlmCalls
    BY DEF ToolsAreHeard
  <2>1. Told \/ last \in {"final", "partial"} BY DEF IInv, Heeded
  <2>2. i \in DOMAIN log BY DEF Is
  <2>3. Past(i) => Turn(i) < Now BY <2>2, TurnFacts DEF IInv
  <2> QED BY <2>1, <2>3 DEF Told
<1> QED BY <1>1, AlwaysIInv, PTL

\* A turn that was not cut off has carried out every decision its message
\* brought: none is dropped between the gates that it answers.
THEOREM NoDecisionIsDropped == Spec => []DecisionsAreCarriedOut
<1>1. IInv => DecisionsAreCarriedOut
  <2> SUFFICES ASSUME IInv, NEW i \in Is("decide"), Turn(i) \notin cuts, NEW c \in log[i].ids,
                      Turn(i) = Now => at = "idle"
               PROVE  Spent(c)
    BY DEF DecisionsAreCarriedOut
  <2>1. Spent(c) \/ (~Past(i) /\ UnderWay(c)) BY DEF IInv, CarriedOut
  <2>2. i \in DOMAIN log BY DEF Is
  <2>3. ~Past(i) => Turn(i) = Now BY <2>2, TurnFacts DEF IInv
  <2>4. at = "idle" => ~UnderWay(c) BY DEF UnderWay
  <2> QED BY <2>1, <2>3, <2>4
<1> QED BY <1>1, AlwaysIInv, PTL

\* What the latest message of the user approves, a call at a time.
LEMMA OnlyWhatIsApproved ==
  ASSUME TypeOK, Recorded, NEW c \in Decision.ok
  PROVE  Approves(log[LatestUser], c)
<1> DEFINE m == log[LatestUser]
<1>1. CASE m.what = "decide"
  <2>1. Decision.ok = m.ok BY <1>1 DEF Decision
  <2> QED BY <2>1 DEF Approves
<1>2. CASE m.what = "yes"
  <2> DEFINE decided == UNION {log[i].ids : i \in Is("decide")}
             open == {i \in Is("gate") : /\ i < LatestUser
                                         /\ ~ \E u \in UserEvents : i < u /\ u < LatestUser
                                         /\ log[i].ids \ decided # {}}
             left == log[Max(open)].ids \ decided
  <2>1. c \in PlainTextTarget BY <1>2 DEF Decision
  <2>2. PlainText /\ open # {} /\ c = Min(left) BY <2>1 DEF PlainTextTarget
  <2>3. open \in SUBSET (1..Len(log)) /\ Len(log) \in Nat BY LogFacts DEF Is
  <2>4. Max(open) \in open
    <3> HIDE DEF open
    <3> QED BY <2>2, <2>3, Extremes
  <2>5. Max(open) \in Is("gate") /\ left # {} /\ left \in SUBSET (1..MaxCalls)
    BY <2>3, <2>4, LogFacts
  <2>6. Min(left) \in left
    <3> HIDE DEF left
    <3> QED BY <2>5, TurnAssumption, Extremes
  <2>7. GateOf(c) = Max(open) BY <2>2, <2>5, <2>6, UniqueGate
  <2> QED BY <1>2, <2>2, <2>4, <2>7 DEF Approves
<1>3. CASE m.what \notin {"decide", "yes"}
  BY <1>3 DEF Decision
<1> QED BY <1>1, <1>2, <1>3

\* A gated tool does its work only on an approval that the user's latest
\* message carries, and once its response is stored never again.
THEOREM NoWorkUnapproved == Spec => ApprovalBinds
<1> DEFINE A == \A c \in 1..MaxCalls :
                  effects'[c] # effects[c] /\ kinds[c] = "gated"
                    => /\ c \in Gates /\ Approves(log[LatestUser], c)
                       /\ ~ \E i \in Is("answers") : c \in log[i].ids
<1>1. IInv /\ [Next]_vars => [A]_vars
  <2> SUFFICES ASSUME IInv, Next, NEW c \in 1..MaxCalls, effects'[c] # effects[c],
                      kinds[c] = "gated"
               PROVE  /\ c \in Gates /\ Approves(log[LatestUser], c)
                      /\ ~ \E i \in Is("answers") : c \in log[i].ids
    OBVIOUS
  <2>1. ResumeCall \/ RunCall
    <3>1. effects' # effects OBVIOUS
    <3> QED BY <3>1 DEF Next, UserSends, Cut, Store, Confirm, Resumed, CallModel, CallTooMany,
          Paused, ModelCalls, ModelSays, ModelReports, ModelStreamsText, Respond, ModelFails,
          StreamEnds, BatchThrows, BatchIsSilent, BatchAnswers, BatchAsks, Batched, EndStep
  <2>2. /\ TypeOK /\ Recorded /\ AtWork BY DEF IInv, AskedOnce
  <2>3. ~RunCall BY <2>1, <2>2, RunFacts
  <2>4. at = "resume" /\ Min(todo) \in todo /\ c = Min(todo) /\ c \in Decision.ok
    BY <2>1, <2>2, <2>3, RunFacts
  <2>5. c \in Gates /\ ~Spent(c) BY <2>2, <2>4 DEF AtWork
  <2>6. Approves(log[LatestUser], c) BY <2>2, <2>4, OnlyWhatIsApproved
  <2>7. ASSUME NEW i \in Is("answers"), c \in log[i].ids PROVE FALSE
    <3>1. PICK g \in Is("gate") : g < i /\ c \in log[g].ids BY <2>2, <2>7 DEF Recorded
    <3>2. GateOf(c) = g BY <2>2, <3>1, UniqueGate
    <3> QED BY <2>5, <2>7, <3>1, <3>2 DEF Spent
  <2> QED BY <2>5, <2>6, <2>7
<1> QED BY <1>1, AlwaysIInv, PTL DEF Spec, ApprovalBinds

---------------------------------------------------------------------------
(* The tree of agents                                                      *)

LEMMA SubsFacts ==
  \A a \in Agents :
    /\ Subs(a) \subseteq Agents \ {Root}
    /\ SubAgents[a] \in Seq(Agents)
    /\ DOMAIN SubAgents[a] = 1..Len(SubAgents[a]) /\ Len(SubAgents[a]) \in Nat
    /\ \A i \in DOMAIN SubAgents[a] : SubAgents[a][i] \in Subs(a)
    /\ \A c \in Subs(a) : \E i \in DOMAIN SubAgents[a] : c = SubAgents[a][i]
    /\ \A i, j \in DOMAIN SubAgents[a] : SubAgents[a][i] = SubAgents[a][j] => i = j
<1> SUFFICES ASSUME NEW a \in Agents
             PROVE /\ Subs(a) \subseteq Agents \ {Root}
                   /\ SubAgents[a] \in Seq(Agents)
                   /\ DOMAIN SubAgents[a] = 1..Len(SubAgents[a]) /\ Len(SubAgents[a]) \in Nat
                   /\ \A i \in DOMAIN SubAgents[a] : SubAgents[a][i] \in Subs(a)
                   /\ \A c \in Subs(a) : \E i \in DOMAIN SubAgents[a] : c = SubAgents[a][i]
                   /\ \A i, j \in DOMAIN SubAgents[a] : SubAgents[a][i] = SubAgents[a][j] => i = j
  OBVIOUS
<1>1. SubAgents[a] \in Seq(Agents \ {Root}) /\ IsInjective(SubAgents[a])
  BY TreeAssumption
<1>2. /\ \A i \in DOMAIN SubAgents[a] : SubAgents[a][i] \in Subs(a)
      /\ \A c \in Subs(a) : \E i \in DOMAIN SubAgents[a] : c = SubAgents[a][i]
  BY DEF Subs, Range
<1>3. /\ SubAgents[a] \in Seq(Agents) /\ Len(SubAgents[a]) \in Nat
      /\ DOMAIN SubAgents[a] = 1..Len(SubAgents[a])
      /\ \A i \in DOMAIN SubAgents[a] : SubAgents[a][i] \in Agents \ {Root}
  BY <1>1
<1>4. \A i, j \in DOMAIN SubAgents[a] : SubAgents[a][i] = SubAgents[a][j] => i = j
  BY <1>1 DEF IsInjective
<1> QED  BY <1>2, <1>3, <1>4

LEMMA OneParent ==
  \A p, q \in Agents : \A c \in Subs(p) : c \in Subs(q) => p = q
BY TreeAssumption, SubsFacts

LEMMA BelowFacts ==
  \A a \in Agents : /\ a \in Below(a) /\ Below(a) \subseteq Agents
                    /\ \A x \in Below(a) : Subs(x) \subseteq Below(a)
<1> SUFFICES ASSUME NEW a \in Agents
             PROVE /\ a \in Below(a) /\ Below(a) \subseteq Agents
                   /\ \A x \in Below(a) : Subs(x) \subseteq Below(a)
  OBVIOUS
<1> DEFINE Closed(S) == a \in S /\ \A x \in S : Subs(x) \subseteq S
<1>1. Below(a) = {b \in Agents : \A S \in SUBSET Agents : Closed(S) => b \in S}
  BY DEF Below, Reach
<1>2. ASSUME NEW x \in Below(a), NEW y \in Subs(x)  PROVE y \in Below(a)
  <2>1. x \in Agents /\ y \in Agents
    BY <1>1, SubsFacts
  <2>2. \A S \in SUBSET Agents : Closed(S) => y \in S
    BY <1>1
  <2> QED  BY <1>1, <2>1, <2>2
<1> QED  BY <1>1, <1>2

LEMMA BelowLeast ==
  ASSUME NEW a \in Agents, NEW S \in SUBSET Agents, a \in S, \A x \in S : Subs(x) \subseteq S
  PROVE  Below(a) \subseteq S
BY DEF Below, Reach

LEMMA BelowBelow == \A a \in Agents : \A b \in Below(a) : Below(b) \subseteq Below(a)
<1> SUFFICES ASSUME NEW a \in Agents, NEW b \in Below(a)  PROVE Below(b) \subseteq Below(a)
  OBVIOUS
<1> QED  BY BelowFacts, BelowLeast

LEMMA BelowChild ==
  \A a \in Agents : \A y \in Below(a) : y = a \/ \E c \in Subs(a) : y \in Below(c)
<1> SUFFICES ASSUME NEW a \in Agents
             PROVE Below(a) \subseteq {a} \cup UNION {Below(c) : c \in Subs(a)}
  OBVIOUS
<1> DEFINE S == {a} \cup UNION {Below(c) : c \in Subs(a)}
<1>1. S \in SUBSET Agents
  BY SubsFacts, BelowFacts
<1>2. ASSUME NEW x \in S  PROVE Subs(x) \subseteq S
  <2>1. CASE x = a
    BY <2>1, SubsFacts, BelowFacts
  <2>2. CASE x # a
    <3>1. PICK c \in Subs(a) : x \in Below(c)
      BY <2>2
    <3> QED  BY <3>1, SubsFacts, BelowFacts
  <2> QED  BY <2>1, <2>2
<1> HIDE DEF S
<1>3. a \in S
  BY DEF S
<1> QED  BY <1>1, <1>2, <1>3, BelowLeast DEF S

LEMMA ParentBelow ==
  \A a, p \in Agents : \A y \in Subs(p) : y \in Below(a) /\ y # a => p \in Below(a)
<1> SUFFICES ASSUME NEW a \in Agents
             PROVE \A p \in Agents : \A y \in Subs(p) : y \in Below(a) /\ y # a => p \in Below(a)
  OBVIOUS
<1> DEFINE S == {y \in Below(a) : y = a \/ \E p \in Below(a) : y \in Subs(p)}
<1>1. S \in SUBSET Agents /\ a \in S
  BY BelowFacts
<1>2. \A x \in S : Subs(x) \subseteq S
  BY BelowFacts
<1>3. Below(a) \subseteq S
  BY <1>1, <1>2, BelowLeast
<1> QED  BY <1>3, OneParent, BelowFacts

LEMMA NoCycle ==
  /\ \A a \in Agents \ {Root} : Root \notin Below(a)
  /\ \A a \in Agents : \A c \in Subs(a) : a \notin Below(c)
<1>1. ASSUME NEW a \in Agents \ {Root}  PROVE Root \notin Below(a)
  <2>1. \A x \in Agents \ {Root} : Subs(x) \subseteq Agents \ {Root}
    BY SubsFacts
  <2> QED  BY <2>1, BelowLeast
<1>2. ASSUME NEW a \in Agents, NEW c \in Subs(a), a \in Below(c)  PROVE FALSE
  <2> DEFINE S == Agents \ Below(c)
  <2>0. c \in Agents \ {Root}
    BY SubsFacts
  <2>1. Root \in S
    BY <2>0, <1>1, TreeAssumption
  <2>2. ASSUME NEW x \in S, NEW y \in Subs(x)  PROVE y \in S
    <3>1. y \in Agents
      BY SubsFacts
    <3>2. CASE y = c
      BY <1>2, <3>2, OneParent
    <3>3. CASE y # c
      BY <2>0, <3>1, <3>3, ParentBelow
    <3> QED  BY <3>2, <3>3
  <2>3. Below(Root) \subseteq S
    <3> HIDE DEF S
    <3>1. S \in SUBSET Agents
      BY DEF S
    <3>2. \A x \in S : Subs(x) \subseteq S
      BY <2>2
    <3> QED  BY <2>1, <3>1, <3>2, BelowLeast, TreeAssumption
  <2> QED  BY <2>0, <2>3, BelowFacts, TreeAssumption
<1> QED  BY <1>1, <1>2

LEMMA SiblingsApart ==
  \A a \in Agents : \A c, d \in Subs(a) : c # d => Below(c) \cap Below(d) = {}
<1> SUFFICES ASSUME NEW a \in Agents, NEW c \in Subs(a), NEW d \in Subs(a), c # d
             PROVE Below(c) \subseteq Agents \ Below(d)
  OBVIOUS
<1> DEFINE S == Below(c) \ Below(d)
<1>0. c \in Agents /\ d \in Agents
  BY SubsFacts
<1>1. c \in S /\ S \in SUBSET Agents
  BY <1>0, BelowFacts, ParentBelow, NoCycle
<1>2. ASSUME NEW x \in S, NEW y \in Subs(x)  PROVE y \in S
  <2>1. x \in Agents /\ y \in Below(c)
    BY <1>0, BelowFacts
  <2>2. CASE y = d
    BY <2>1, <2>2, OneParent, NoCycle
  <2>3. CASE y # d
    BY <1>0, <2>1, <2>3, ParentBelow
  <2> QED  BY <2>2, <2>3
<1>3. \A x \in S : Subs(x) \subseteq S
  BY <1>2
<1> HIDE DEF S
<1>4. Below(c) \subseteq S
  BY <1>0, <1>1, <1>3, BelowLeast
<1> QED  BY <1>0, <1>4, BelowFacts DEF S

LEMMA LeavesBelow == \A b \in Leaves : Below(b) = {b} /\ Subs(b) = {} /\ b \in Agents
<1> SUFFICES ASSUME NEW b \in Leaves  PROVE Below(b) = {b} /\ Subs(b) = {} /\ b \in Agents
  OBVIOUS
<1>1. b \in Agents /\ SubAgents[b] = << >>
  BY TreeAssumption DEF Leaves
<1>2. Subs(b) = {}
  BY <1>1 DEF Subs, Range
<1> QED  BY <1>1, <1>2, BelowFacts, BelowChild

---------------------------------------------------------------------------
(* The steps, by what they do to the runs                                  *)

RunsOK == run \in [Agents -> Run] /\ runner \in {"asking", "holding", "gone", "done"}
Idle(x) == run[x].st \in {"off", "ended", "threw"}
Yielded(x) == run[x].st \in {"ready", "held"}
Listed(a) == Kind[a] \in {"sequence", "loop"}
SubAt(a) == SubAgents[a][run[a].pos]

OnlyRuns(X) == (\A x \in Agents \ X : run'[x] = run[x]) /\ UNCHANGED <<runner, unheard>>
KeepsPlace(x) ==
  run'[x].pos = run[x].pos /\ run'[x].tried = run[x].tried /\ run'[x].target = run[x].target
KeepsFlags(x) ==
  /\ run'[x].iteration = run[x].iteration
  /\ run'[x].shouldExit = run[x].shouldExit /\ run'[x].escalated = run[x].escalated

StartStep(a, C) ==
  /\ C \subseteq Subs(a) /\ C # {} /\ OnlyRuns(C \cup {a})
  /\ Asked(a) /\ run'[a].st = "asked"
  /\ run'[a].shouldExit = run[a].shouldExit /\ run'[a].escalated = run[a].escalated
  /\ \A c \in C : run'[c] = Started(c)
PassStep(a, c) ==
  /\ c \in Subs(a) /\ OnlyRuns({a, c})
  /\ Asked(a) /\ run'[a].st = "ready" /\ run'[a].event = run[c].event /\ KeepsPlace(a)
  /\ run'[a].iteration = run[a].iteration /\ run'[a].shouldExit = run[a].shouldExit
  /\ run'[a].escalated = (run[a].escalated \/ run[c].event.escalate)
  /\ run[c].st = "ready" /\ run'[c].st = "held" /\ run'[c].event = run[c].event
  /\ KeepsPlace(c) /\ KeepsFlags(c)
AskStep(a, c) ==
  /\ c \in Subs(a) /\ OnlyRuns({a, c})
  /\ Asked(a) /\ run'[a].st = "asked" /\ KeepsPlace(a)
  /\ run'[a].iteration = run[a].iteration /\ run'[a].escalated = run[a].escalated
  /\ Kind[a] = "loop" => run'[a].shouldExit = (run[a].shouldExit \/ run[c].event.escalate)
  /\ run[c].st = "held" /\ run'[c].st = "asked" /\ KeepsPlace(c) /\ KeepsFlags(c)
SettleStep(a) ==
  /\ OnlyRuns({a}) /\ Asked(a) /\ run'[a].st \in {"ended", "threw"} /\ KeepsPlace(a) /\ KeepsFlags(a)

\* Which sub-agents the step is about.
StartsAt(a, C) ==
  /\ Listed(a) => \E i \in DOMAIN SubAgents[a] :
       /\ C = {SubAgents[a][i]} /\ run'[a].pos = i
       /\ \/ run[a].pos = 0 /\ i = 1
          \/ /\ run[a].pos > 0 /\ run[SubAt(a)].st = "ended"
             /\ Kind[a] = "loop" => ~run[a].shouldExit
             /\ i = run[a].pos + 1 \/ (i = 1 /\ run[a].pos = Len(SubAgents[a]) /\ Kind[a] = "loop")
  /\ Kind[a] = "parallel" => C = Subs(a) /\ run[a].pos = 0 /\ run'[a].pos = 1
  /\ Kind[a] = "routed" => \E t \in Subs(a) \ run[a].tried :
       /\ C = {t} /\ run'[a].target = t /\ run'[a].tried = run[a].tried \cup {t}
       /\ run[a].tried # {} => run[run[a].target].st = "threw"
GoesAt(a, c) ==
  /\ Listed(a) => run[a].pos > 0 /\ c = SubAt(a)
  /\ Kind[a] = "parallel" => run[a].pos = 1
  /\ Kind[a] = "routed" => run[a].tried # {} /\ c = run[a].target
Alone(a) == \A c \in Subs(a) : run[c].st # "held"
SettlesAt(a) ==
  /\ Listed(a) => \/ run[a].pos = 0 /\ Kind[a] = "loop" /\ run'[a].st = "ended"
                  \/ /\ run[a].pos > 0 /\ run[SubAt(a)].st = run'[a].st
                     /\ Kind[a] = "sequence" /\ run'[a].st = "ended" => run[a].pos = Len(SubAgents[a])
  /\ Kind[a] = "parallel" => \/ run'[a].st = "threw" /\ run[a].pos = 1 /\ Alone(a)
                             \/ run'[a].st = "ended" /\ AllEnded(a)
  /\ Kind[a] = "routed" => run[a].tried # {} /\ run[run[a].target].st = run'[a].st
Composite(a) == Listed(a) \/ Kind[a] \in {"parallel", "routed"}

StartsSome(a) == \E C \in SUBSET Agents : StartStep(a, C) /\ StartsAt(a, C)
PassesSome(a) == \E c \in Agents : PassStep(a, c) /\ GoesAt(a, c) /\ (Kind[a] = "parallel" => Alone(a))
AsksSome(a) == \E c \in Agents : AskStep(a, c) /\ GoesAt(a, c)
SettlesNow(a) == SettleStep(a) /\ SettlesAt(a)

LEMMA StartedFacts ==
  \A c \in Agents :
    /\ Started(c) \in Run /\ Started(c).st = "asked" /\ Started(c).pos = 0 /\ Started(c).tried = {}
    /\ Started(c).target = c /\ ~Started(c).escalated /\ ~Started(c).shouldExit
BY DEF Started, Run

LEMMA TreeRunFacts ==
  RunsOK => \A x \in Agents :
    /\ run[x] \in Run
    /\ run[x].st \in {"off", "asked", "ready", "held", "ended", "threw"}
    /\ run[x].event \in LeafEvent \cup {NoEvent}
    /\ run[x].count \in Nat /\ run[x].pos \in Nat /\ run[x].iteration \in Nat
    /\ run[x].shouldExit \in BOOLEAN /\ run[x].escalated \in BOOLEAN
    /\ run[x].tried \subseteq Agents /\ run[x].target \in Agents /\ run[x].firstYielded \in BOOLEAN
BY DEF RunsOK, Run

LEMMA EventFacts ==
  \A e \in LeafEvent \cup {NoEvent} : e.by \in Leaves \cup {Root} /\ e.escalate \in BOOLEAN
<1>1. \A e \in LeafEvent : e.by \in Leaves /\ e.escalate \in BOOLEAN
  BY DEF LeafEvent
<1>2. NoEvent.by = Root /\ NoEvent.escalate = FALSE
  BY DEF NoEvent
<1> QED  BY <1>1, <1>2

LEMMA SetsSt ==
  RunsOK => \A x \in Agents : \A s \in {"off", "asked", "ready", "held", "ended", "threw"} :
    LET r == [run[x] EXCEPT !.st = s]
    IN /\ r \in Run /\ r.st = s /\ r.event = run[x].event
       /\ r.pos = run[x].pos /\ r.tried = run[x].tried /\ r.target = run[x].target
       /\ r.iteration = run[x].iteration /\ r.shouldExit = run[x].shouldExit
       /\ r.escalated = run[x].escalated
BY TreeRunFacts DEF Run

LEMMA NotItself == \A a \in Agents : \A c \in Subs(a) : c # a /\ c \in Agents
BY NoCycle, BelowFacts, SubsFacts

LEMMA StartsEffect ==
  ASSUME RunsOK, NEW a \in Agents, NEW i \in DOMAIN SubAgents[a],
         Asked(a), Starts(a, i), UNCHANGED <<runner, unheard>>
  PROVE  /\ run' \in [Agents -> Run]
         /\ StartStep(a, {SubAgents[a][i]}) /\ run'[a].pos = i
         /\ run'[a].tried = run[a].tried /\ run'[a].target = run[a].target
<1> DEFINE c == SubAgents[a][i]
<1>1. c \in Subs(a) /\ c \in Agents /\ c # a /\ i \in Nat
  BY SubsFacts, NotItself
<1> HIDE DEF c
<1>2. run' = [run EXCEPT ![a].pos = i, ![c] = Started(c)]
  BY DEF Starts, c
<1>3. /\ run'[a] = [run[a] EXCEPT !.pos = i] /\ run'[c] = Started(c)
      /\ \A x \in Agents \ {a, c} : run'[x] = run[x]
      /\ DOMAIN run' = Agents /\ run' = [x \in Agents |-> run'[x]]
  BY <1>1, <1>2 DEF RunsOK
<1>4. run'[a] \in Run
  BY <1>1, <1>3, TreeRunFacts DEF Run
<1>5. run' \in [Agents -> Run]
  BY <1>1, <1>3, <1>4, StartedFacts, TreeRunFacts
<1>6. /\ run'[a].st = run[a].st /\ run'[a].pos = i /\ run'[a].tried = run[a].tried
      /\ run'[a].target = run[a].target
      /\ run'[a].shouldExit = run[a].shouldExit /\ run'[a].escalated = run[a].escalated
  BY <1>3, TreeRunFacts DEF Run
<1>7. StartStep(a, {c})
  BY <1>1, <1>3, <1>6 DEF StartStep, OnlyRuns, Asked
<1> QED  BY <1>5, <1>6, <1>7 DEF c

LEMMA PassesOnEffect ==
  ASSUME RunsOK, NEW a \in Agents, NEW c \in Subs(a), run[c].st = "ready",
         Asked(a), PassesOn(a, c), UNCHANGED <<runner, unheard>>
  PROVE  run' \in [Agents -> Run] /\ PassStep(a, c)
<1>1. c \in Agents /\ c # a
  BY NotItself
<1>2. /\ run'[a] = [run[a] EXCEPT !.st = "ready", !.event = run[c].event,
                                  !.escalated = @ \/ run[c].event.escalate]
      /\ run'[c] = [run[c] EXCEPT !.st = "held"]
      /\ \A x \in Agents \ {a, c} : run'[x] = run[x]
      /\ run' = [x \in Agents |-> run'[x]]
  BY <1>1 DEF PassesOn, RunsOK
<1>3. run'[a] \in Run /\ run'[c] \in Run
  <2>1. run[c].event.escalate \in BOOLEAN
    BY <1>1, TreeRunFacts, EventFacts
  <2> QED  BY <1>1, <1>2, <2>1, TreeRunFacts DEF Run
<1>4. run' \in [Agents -> Run]
  BY <1>2, <1>3, TreeRunFacts
<1>5. PassStep(a, c)
  BY <1>1, <1>2, TreeRunFacts DEF Run, PassStep, OnlyRuns, KeepsPlace, KeepsFlags
<1> QED  BY <1>4, <1>5

LEMMA SettlesEffect ==
  ASSUME RunsOK, NEW a \in Agents, NEW how \in {"ended", "threw"},
         Asked(a), Settles(a, how), UNCHANGED <<runner, unheard>>
  PROVE  run' \in [Agents -> Run] /\ SettleStep(a) /\ run'[a].st = how
<1>1. /\ run'[a] = [run[a] EXCEPT !.st = how]
      /\ \A x \in Agents \ {a} : run'[x] = run[x]
      /\ run' = [x \in Agents |-> run'[x]]
  BY DEF Settles, RunsOK
<1>2. run'[a] \in Run
  BY <1>1, TreeRunFacts DEF Run
<1>3. run' \in [Agents -> Run]
  BY <1>1, <1>2, TreeRunFacts
<1>4. SettleStep(a) /\ run'[a].st = how
  BY <1>1, TreeRunFacts DEF Run, SettleStep, OnlyRuns, KeepsPlace, KeepsFlags
<1> QED  BY <1>3, <1>4

\* What the caller notes of itself when it asks again.
LEMMA AsksEffect ==
  ASSUME RunsOK, NEW a \in Agents, NEW c \in Subs(a), run[c].st = "held", Asked(a),
         NEW STATE mine, mine \in Run, mine.st = "asked", mine.pos = run[a].pos,
         mine.tried = run[a].tried, mine.target = run[a].target,
         mine.iteration = run[a].iteration, mine.escalated = run[a].escalated,
         Kind[a] = "loop" => mine.shouldExit = (run[a].shouldExit \/ run[c].event.escalate),
         run' = [run EXCEPT ![c].st = "asked", ![a] = mine],
         UNCHANGED <<runner, unheard>>
  PROVE  run' \in [Agents -> Run] /\ AskStep(a, c)
<1>1. c \in Agents /\ c # a
  BY NotItself
<1>2. /\ run'[a] = mine /\ run'[c] = [run[c] EXCEPT !.st = "asked"]
      /\ \A x \in Agents \ {a, c} : run'[x] = run[x]
      /\ run' = [x \in Agents |-> run'[x]]
  BY <1>1 DEF RunsOK
<1>3. run'[c] \in Run
  BY <1>1, <1>2, SetsSt
<1>4. run' \in [Agents -> Run]
  BY <1>2, <1>3, TreeRunFacts
<1>5. /\ run'[c].st = "asked" /\ KeepsPlace(c) /\ KeepsFlags(c)
  BY <1>1, <1>2, SetsSt DEF KeepsPlace, KeepsFlags
<1>6. AskStep(a, c)
  BY <1>1, <1>2, <1>5 DEF AskStep, OnlyRuns, KeepsPlace, Asked
<1> QED  BY <1>4, <1>6

---------------------------------------------------------------------------
(* The invariant                                                           *)

\* A composite agent has one sub-agent under way, a parallel one all of them;
\* what it is not at is idle.
Places(p) ==
  /\ Listed(p) => run[p].pos <= Len(SubAgents[p])
  /\ Kind[p] = "parallel" => run[p].pos \in {0, 1}
  /\ Kind[p] = "routed" => /\ run[p].tried \subseteq Subs(p)
                           /\ run[p].tried # {} => run[p].target \in run[p].tried
AtPlace(p) ==
  /\ Listed(p) => \A i \in DOMAIN SubAgents[p] : i # run[p].pos => Idle(SubAgents[p][i])
  /\ Kind[p] = "parallel" /\ run[p].pos = 0 => \A c \in Subs(p) : Idle(c)
  /\ Kind[p] = "routed" => \A c \in Subs(p) : c # run[p].target \/ run[p].tried = {} => Idle(c)
LeavesIdle(p) ==
  Idle(p) /\ (Kind[p] = "parallel" => run[p].st # "threw") => \A c \in Subs(p) : Idle(c)
Again(a) == \E l \in Agents : Kind[l] = "loop" /\ a \in Below(l)
\* Outside the loops an agent is started once.
Fresh(p) ==
  /\ run[p].st = "off" => \A c \in Subs(p) : run[c].st = "off"
  /\ ~Again(p) /\ Kind[p] = "sequence" =>
       \A i \in DOMAIN SubAgents[p] : i > run[p].pos => run[SubAgents[p][i]].st = "off"
  /\ ~Again(p) /\ Kind[p] = "parallel" /\ run[p].pos = 0 => \A c \in Subs(p) : run[c].st = "off"
  /\ ~Again(p) /\ Kind[p] = "routed" => \A c \in Subs(p) \ run[p].tried : run[c].st = "off"
\* What failed above branches that may go on stays where it failed.
Stuck(p) ==
  (Listed(p) \/ Kind[p] = "parallel") /\ HasParallel(p) =>
    \A c \in Subs(p) : run[c].st = "threw" =>
      run[p].st \notin {"off", "ended"} /\ run[p].pos > 0 /\ (Listed(p) => c = SubAt(p))
Holding == runner = "holding" => run[Root].st = "held"
Shape ==
  /\ \A p \in Agents : Places(p) /\ AtPlace(p) /\ LeavesIdle(p) /\ Fresh(p) /\ Stuck(p)
  /\ Holding

LEMMA SequenceStep ==
  ASSUME RunsOK, NEW a \in Agents \ Leaves, Places(a), Kind[a] = "sequence",
         Asked(a), Sequence(a), UNCHANGED <<runner, unheard>>
  PROVE  run' \in [Agents -> Run] /\ (StartsSome(a) \/ PassesSome(a) \/ AsksSome(a) \/ SettlesNow(a))
<1> DEFINE p == run[a].pos
           c == SubAgents[a][p]
<1>1. /\ p \in Nat /\ p <= Len(SubAgents[a]) /\ Len(SubAgents[a]) \in Nat
      /\ DOMAIN SubAgents[a] = 1..Len(SubAgents[a]) /\ Listed(a)
      /\ Len(SubAgents[a]) > 0
  <2>1. SubAgents[a] # << >> /\ a \in Agents
    BY TreeAssumption DEF Leaves
  <2> QED  BY <2>1, SubsFacts, TreeRunFacts DEF Places, Listed
<1>2. Subs(a) \subseteq Agents /\ \A i \in DOMAIN SubAgents[a] : SubAgents[a][i] \in Subs(a)
  BY SubsFacts
<1>3. Kind[a] # "parallel" /\ Kind[a] # "routed" /\ Kind[a] # "loop"
  OBVIOUS
<1>4. ASSUME NEW i \in DOMAIN SubAgents[a], Starts(a, i),
             \/ p = 0 /\ i = 1
             \/ p > 0 /\ run[c].st = "ended" /\ i = p + 1
      PROVE  run' \in [Agents -> Run] /\ StartsSome(a)
  <2>1. /\ run' \in [Agents -> Run] /\ StartStep(a, {SubAgents[a][i]}) /\ run'[a].pos = i
    BY <1>4, StartsEffect
  <2>2. StartsAt(a, {SubAgents[a][i]})
    BY <1>3, <1>4, <2>1 DEF StartsAt, SubAt
  <2> QED  BY <1>2, <2>1, <2>2 DEF StartsSome
<1>5. ASSUME NEW how \in {"ended", "threw"}, Settles(a, how), p > 0, run[c].st = how,
             how = "ended" => p = Len(SubAgents[a])
      PROVE  run' \in [Agents -> Run] /\ SettlesNow(a)
  <2>1. run' \in [Agents -> Run] /\ SettleStep(a) /\ run'[a].st = how
    BY <1>5, SettlesEffect
  <2> QED  BY <1>3, <1>5, <2>1 DEF SettlesNow, SettlesAt, SubAt
<1>6. CASE p = 0 /\ Starts(a, 1)
  BY <1>1, <1>4, <1>6
<1>7. CASE p > 0 /\ Goes(a)
  <2>1. c \in Subs(a)
    BY <1>1, <1>2, <1>7
  <2>2. CASE run[c].st = "ready" /\ PassesOn(a, c)
    <3>1. run' \in [Agents -> Run] /\ PassStep(a, c)
      BY <2>1, <2>2, PassesOnEffect
    <3> QED  BY <1>2, <1>3, <1>7, <2>1, <3>1 DEF PassesSome, GoesAt, SubAt
  <2>3. CASE run[c].st = "threw" /\ Settles(a, "threw")
    BY <1>5, <1>7, <2>3
  <2> QED  BY <1>7, <2>2, <2>3 DEF Goes
<1>8. CASE p > 0 /\ run[c].st = "held" /\ run' = AsksAgain(c)
  <2>1. c \in Subs(a) /\ c # a
    BY <1>1, <1>2, <1>8, NotItself
  <2>2. run' = [run EXCEPT ![c].st = "asked", ![a] = run[a]] /\ run[a] \in Run
    BY <1>8, <2>1, TreeRunFacts DEF AsksAgain, RunsOK
  <2>3. run' \in [Agents -> Run] /\ AskStep(a, c)
    BY <1>3, <1>8, <2>1, <2>2, AsksEffect DEF Asked
  <2> QED  BY <1>2, <1>3, <1>8, <2>1, <2>3 DEF AsksSome, GoesAt, SubAt
<1>9. CASE p > 0 /\ run[c].st = "ended" /\ p < Len(SubAgents[a]) /\ Starts(a, p + 1)
  BY <1>1, <1>4, <1>9
<1>10. CASE p > 0 /\ run[c].st = "ended" /\ ~(p < Len(SubAgents[a])) /\ Settles(a, "ended")
  BY <1>1, <1>5, <1>10
<1> HIDE DEF p, c
<1> QED  BY <1>6, <1>7, <1>8, <1>9, <1>10 DEF Sequence, p, c

LEMMA LoopStep ==
  ASSUME RunsOK, NEW a \in Agents \ Leaves, Places(a), Kind[a] = "loop",
         Asked(a), Loop(a), UNCHANGED <<runner, unheard>>
  PROVE  run' \in [Agents -> Run] /\ (StartsSome(a) \/ PassesSome(a) \/ AsksSome(a) \/ SettlesNow(a))
<1> DEFINE p == run[a].pos
           c == SubAgents[a][p]
<1>1. /\ p \in Nat /\ p <= Len(SubAgents[a]) /\ Len(SubAgents[a]) \in Nat
      /\ DOMAIN SubAgents[a] = 1..Len(SubAgents[a]) /\ Listed(a)
      /\ Len(SubAgents[a]) > 0
  <2>1. SubAgents[a] # << >> /\ a \in Agents
    BY TreeAssumption DEF Leaves
  <2> QED  BY <2>1, SubsFacts, TreeRunFacts DEF Places, Listed
<1>2. Subs(a) \subseteq Agents /\ \A i \in DOMAIN SubAgents[a] : SubAgents[a][i] \in Subs(a)
  BY SubsFacts
<1>3. Kind[a] # "parallel" /\ Kind[a] # "routed" /\ Kind[a] # "sequence"
  OBVIOUS
<1>4. ASSUME NEW i \in DOMAIN SubAgents[a], Starts(a, i),
             \/ p = 0 /\ i = 1
             \/ p > 0 /\ run[c].st = "ended" /\ i = p + 1 /\ ~run[a].shouldExit
      PROVE  run' \in [Agents -> Run] /\ StartsSome(a)
  <2>1. /\ run' \in [Agents -> Run] /\ StartStep(a, {SubAgents[a][i]}) /\ run'[a].pos = i
    BY <1>4, StartsEffect
  <2>2. StartsAt(a, {SubAgents[a][i]})
    BY <1>3, <1>4, <2>1 DEF StartsAt, SubAt
  <2> QED  BY <1>2, <2>1, <2>2 DEF StartsSome
<1>5. ASSUME NEW how \in {"ended", "threw"}, Settles(a, how),
             \/ p > 0 /\ run[c].st = how
             \/ p = 0 /\ how = "ended"
      PROVE  run' \in [Agents -> Run] /\ SettlesNow(a)
  <2>1. run' \in [Agents -> Run] /\ SettleStep(a) /\ run'[a].st = how
    BY <1>5, SettlesEffect
  <2> QED  BY <1>3, <1>5, <2>1 DEF SettlesNow, SettlesAt, SubAt
<1>6. CASE p = 0 /\ MaxIterations # 0 /\ Starts(a, 1)
  BY <1>1, <1>4, <1>6
<1>7. CASE p = 0 /\ Settles(a, "ended")
  BY <1>5, <1>7
<1>8. CASE p > 0 /\ Goes(a)
  <2>1. c \in Subs(a)
    BY <1>1, <1>2, <1>8
  <2>2. CASE run[c].st = "ready" /\ PassesOn(a, c)
    <3>1. run' \in [Agents -> Run] /\ PassStep(a, c)
      BY <2>1, <2>2, PassesOnEffect
    <3> QED  BY <1>2, <1>3, <1>8, <2>1, <3>1 DEF PassesSome, GoesAt, SubAt
  <2>3. CASE run[c].st = "threw" /\ Settles(a, "threw")
    BY <1>5, <1>8, <2>3
  <2> QED  BY <1>8, <2>2, <2>3 DEF Goes
<1>9. CASE /\ p > 0 /\ run[c].st = "held"
           /\ run' = [AsksAgain(c) EXCEPT ![a].shouldExit = ShouldExit(a, c)]
  <2>1. c \in Subs(a) /\ c # a /\ c \in Agents
    BY <1>1, <1>2, <1>9, NotItself
  <2> DEFINE mine == [run[a] EXCEPT !.shouldExit = ShouldExit(a, c)]
  <2>2. ShouldExit(a, c) \in BOOLEAN
    BY <2>1, TreeRunFacts, EventFacts DEF ShouldExit
  <2>3. /\ mine \in Run /\ mine.st = "asked" /\ mine.pos = run[a].pos
        /\ mine.tried = run[a].tried /\ mine.target = run[a].target
        /\ mine.iteration = run[a].iteration /\ mine.escalated = run[a].escalated
        /\ mine.shouldExit = ShouldExit(a, c)
    BY <2>2, TreeRunFacts DEF Run, Asked
  <2>4. run' = [run EXCEPT ![c].st = "asked", ![a] = mine]
    BY <1>9, <2>1 DEF AsksAgain, RunsOK
  <2>5. run' \in [Agents -> Run] /\ AskStep(a, c)
    <3> HIDE DEF mine
    <3> QED  BY <1>9, <2>1, <2>3, <2>4, AsksEffect DEF ShouldExit
  <2> QED  BY <1>2, <1>3, <1>9, <2>1, <2>5 DEF AsksSome, GoesAt, SubAt
<1>10. CASE p > 0 /\ run[c].st = "ended" /\ Settles(a, "ended")
  BY <1>5, <1>10
<1>11. CASE /\ p > 0 /\ run[c].st = "ended" /\ ~run[a].shouldExit
            /\ p # Len(SubAgents[a]) /\ Starts(a, p + 1)
  BY <1>1, <1>4, <1>11
<1>12. CASE /\ p > 0 /\ run[c].st = "ended" /\ ~run[a].shouldExit
            /\ p = Len(SubAgents[a]) /\ StartsOver(a)
  <2> DEFINE f == SubAgents[a][1]
  <2>1. f \in Subs(a) /\ f \in Agents /\ f # a /\ 1 \in DOMAIN SubAgents[a]
    BY <1>1, <1>2, NotItself
  <2> HIDE DEF f
  <2>2. run' = [run EXCEPT ![a].iteration = @ + 1, ![a].pos = 1, ![f] = Started(f)]
    BY <1>12 DEF StartsOver, f
  <2>3. /\ run'[a] = [run[a] EXCEPT !.iteration = @ + 1, !.pos = 1] /\ run'[f] = Started(f)
        /\ \A x \in Agents \ {a, f} : run'[x] = run[x]
        /\ run' = [x \in Agents |-> run'[x]]
    BY <2>1, <2>2 DEF RunsOK
  <2>4. run'[a] \in Run /\ run'[a].st = run[a].st /\ run'[a].pos = 1
        /\ run'[a].shouldExit = run[a].shouldExit /\ run'[a].escalated = run[a].escalated
    <3>1. run[a] \in Run
      BY TreeRunFacts
    <3> DEFINE r == [run[a] EXCEPT !.iteration = @ + 1]
    <3>2. r \in Run
      BY <3>1 DEF Run
    <3>3. /\ r.st = run[a].st
          /\ r.shouldExit = run[a].shouldExit /\ r.escalated = run[a].escalated
      BY <3>1 DEF Run
    <3>4. run'[a] = [r EXCEPT !.pos = 1]
      BY <2>3
    <3> HIDE DEF r
    <3> QED  BY <3>2, <3>3, <3>4 DEF Run
  <2>5. run' \in [Agents -> Run]
    BY <2>1, <2>3, <2>4, StartedFacts, TreeRunFacts
  <2>6. StartStep(a, {f})
    BY <2>1, <2>3, <2>4 DEF StartStep, OnlyRuns, Asked
  <2>7. StartsAt(a, {f})
    BY <1>3, <1>12, <2>1, <2>4 DEF StartsAt, SubAt, f
  <2> QED  BY <2>1, <2>5, <2>6, <2>7 DEF StartsSome
<1> HIDE DEF p, c
<1> QED  BY <1>6, <1>7, <1>8, <1>9, <1>10, <1>11, <1>12 DEF Loop, p, c

LEMMA ParallelStep ==
  ASSUME RunsOK, NEW a \in Agents \ Leaves, Places(a), Kind[a] = "parallel",
         Asked(a), Parallel(a), UNCHANGED <<runner, unheard>>
  PROVE  run' \in [Agents -> Run] /\ (StartsSome(a) \/ PassesSome(a) \/ AsksSome(a) \/ SettlesNow(a))
<1>1. Kind[a] # "routed" /\ ~Listed(a)
  BY DEF Listed
<1>2. Subs(a) \subseteq Agents /\ \A c \in Subs(a) : c # a
  BY SubsFacts, NotItself
<1>3. CASE /\ run[a].pos = 0
           /\ run' = [x \in Agents |-> IF x \in Subs(a) THEN Started(x)
                                       ELSE IF x = a THEN [run[x] EXCEPT !.pos = 1] ELSE run[x]]
  <2>1. /\ run'[a] = [run[a] EXCEPT !.pos = 1] /\ \A x \in Subs(a) : run'[x] = Started(x)
        /\ \A x \in Agents \ (Subs(a) \cup {a}) : run'[x] = run[x]
        /\ run' = [x \in Agents |-> run'[x]]
    BY <1>2, <1>3
  <2>2. run'[a] \in Run /\ run'[a].st = run[a].st /\ run'[a].pos = 1
        /\ run'[a].shouldExit = run[a].shouldExit /\ run'[a].escalated = run[a].escalated
    <3>1. run[a] \in Run
      BY TreeRunFacts
    <3> QED  BY <2>1, <3>1 DEF Run
  <2>3. run' \in [Agents -> Run]
    BY <2>1, <2>2, <1>2, StartedFacts, TreeRunFacts
  <2>4. Subs(a) # {}
    <3>1. SubAgents[a] # << >> /\ Len(SubAgents[a]) > 0
      BY TreeAssumption, SubsFacts DEF Leaves
    <3> QED  BY <3>1, SubsFacts
  <2>5. StartStep(a, Subs(a)) /\ StartsAt(a, Subs(a))
    BY <1>1, <1>2, <1>3, <2>1, <2>2, <2>4 DEF StartStep, StartsAt, OnlyRuns, Asked
  <2> QED  BY <1>2, <2>3, <2>5 DEF StartsSome
<1>4. ASSUME run[a].pos = 1, NEW c \in HeldBranches(a), run' = AsksAgain(c)
      PROVE  run' \in [Agents -> Run] /\ AsksSome(a)
  <2>1. c \in Subs(a) /\ c # a /\ run[c].st = "held"
    BY <1>2 DEF HeldBranches
  <2>2. run' = [run EXCEPT ![c].st = "asked", ![a] = run[a]] /\ run[a] \in Run
    BY <1>4, <2>1, TreeRunFacts DEF AsksAgain, RunsOK
  <2>3. run' \in [Agents -> Run] /\ AskStep(a, c)
    BY <2>1, <2>2, AsksEffect DEF Asked
  <2> QED  BY <1>1, <1>2, <1>4, <2>1, <2>3 DEF AsksSome, GoesAt
<1>5. HeldBranches(a) = {} => Alone(a)
  BY DEF HeldBranches, Alone
<1>6. ASSUME run[a].pos = 1, HeldBranches(a) = {}, NEW c \in Subs(a),
             run[c].st = "ready", Taken(a, c)
      PROVE  run' \in [Agents -> Run] /\ PassesSome(a)
  <2>1. run' \in [Agents -> Run] /\ PassStep(a, c)
    BY <1>6, PassesOnEffect DEF Taken
  <2> QED  BY <1>1, <1>2, <1>5, <1>6, <2>1 DEF PassesSome, GoesAt
<1>7. ASSUME NEW how \in {"ended", "threw"}, Settles(a, how), run[a].pos = 1,
             IF how = "threw" THEN HeldBranches(a) = {} ELSE AllEnded(a)
      PROVE  run' \in [Agents -> Run] /\ SettlesNow(a)
  <2>1. run' \in [Agents -> Run] /\ SettleStep(a) /\ run'[a].st = how
    BY <1>7, SettlesEffect
  <2> QED  BY <1>1, <1>5, <1>7, <2>1 DEF SettlesNow, SettlesAt
<1>8. CASE run[a].pos = 1 /\ \E c \in HeldBranches(a) : run' = AsksAgain(c)
  BY <1>4, <1>8
<1>9. CASE run[a].pos = 1 /\ HeldBranches(a) = {} /\ \E c \in Subs(a) : run[c].st = "ready" /\ Taken(a, c)
  BY <1>6, <1>9
<1>10. CASE run[a].pos = 1 /\ HeldBranches(a) = {} /\ Settles(a, "threw")
  BY <1>7, <1>10
<1>11. CASE run[a].pos = 1 /\ AllEnded(a) /\ Settles(a, "ended")
  BY <1>7, <1>11
<1> QED  BY <1>3, <1>8, <1>9, <1>10, <1>11 DEF Parallel

LEMMA RoutedStep ==
  ASSUME RunsOK, NEW a \in Agents \ Leaves, Places(a), Kind[a] = "routed",
         Asked(a), Routed(a), UNCHANGED <<runner, unheard>>
  PROVE  run' \in [Agents -> Run] /\ (StartsSome(a) \/ PassesSome(a) \/ AsksSome(a) \/ SettlesNow(a))
<1> DEFINE c == run[a].target
<1>1. Kind[a] # "parallel" /\ Kind[a] # "loop" /\ ~Listed(a)
  BY DEF Listed
<1>2. /\ Subs(a) \subseteq Agents /\ run[a].tried \subseteq Subs(a)
      /\ run[a].tried # {} => c \in Subs(a)
  BY SubsFacts DEF Places
<1>3. ASSUME NEW t \in Subs(a), t \notin run[a].tried, Routes(a, t),
             run[a].tried # {} => run[c].st = "threw"
      PROVE  run' \in [Agents -> Run] /\ StartsSome(a)
  <2>1. t # a /\ t \in Agents
    BY NotItself
  <2>2. /\ run'[a] = [run[a] EXCEPT !.target = t, !.tried = @ \cup {t}] /\ run'[t] = Started(t)
        /\ \A x \in Agents \ {a, t} : run'[x] = run[x]
        /\ run' = [x \in Agents |-> run'[x]]
    BY <1>3, <2>1 DEF Routes, RunsOK
  <2>3. /\ run'[a] \in Run /\ run'[a].st = run[a].st
        /\ run'[a].target = t /\ run'[a].tried = run[a].tried \cup {t}
        /\ run'[a].shouldExit = run[a].shouldExit /\ run'[a].escalated = run[a].escalated
    <3> DEFINE r == [run[a] EXCEPT !.target = t]
    <3>0. run[a] \in Run
      BY TreeRunFacts
    <3>1. /\ r \in Run /\ r.st = run[a].st /\ r.target = t /\ r.tried = run[a].tried
          /\ r.shouldExit = run[a].shouldExit /\ r.escalated = run[a].escalated
      BY <2>1, <3>0 DEF Run
    <3>2. run'[a] = [r EXCEPT !.tried = run[a].tried \cup {t}]
      BY <2>2
    <3>3. run[a].tried \cup {t} \in SUBSET Agents
      BY <1>2, <2>1
    <3> HIDE DEF r
    <3> QED  BY <3>1, <3>2, <3>3 DEF Run
  <2>4. run' \in [Agents -> Run]
    BY <2>1, <2>2, <2>3, StartedFacts, TreeRunFacts
  <2>5. StartStep(a, {t})
    BY <2>1, <2>2, <2>3 DEF StartStep, OnlyRuns, Asked
  <2>6. StartsAt(a, {t})
    BY <1>1, <1>3, <2>3 DEF StartsAt
  <2> QED  BY <2>1, <2>4, <2>5, <2>6 DEF StartsSome
<1>4. CASE run[a].tried = {} /\ \E t \in Subs(a) : Routes(a, t)
  BY <1>3, <1>4
<1>5. CASE run[a].tried # {} /\ run[c].st = "ready" /\ PassesOn(a, c)
  <2>1. run' \in [Agents -> Run] /\ PassStep(a, c)
    BY <1>2, <1>5, PassesOnEffect
  <2> QED  BY <1>1, <1>2, <1>5, <2>1 DEF PassesSome, GoesAt
<1>6. CASE /\ run[a].tried # {} /\ run[c].st = "held"
           /\ run' = [AsksAgain(c) EXCEPT ![a].firstYielded = TRUE]
  <2>1. c \in Subs(a) /\ c # a /\ c \in Agents
    BY <1>2, <1>6, NotItself
  <2> DEFINE mine == [run[a] EXCEPT !.firstYielded = TRUE]
  <2>2. /\ mine \in Run /\ mine.st = "asked" /\ mine.pos = run[a].pos
        /\ mine.tried = run[a].tried /\ mine.target = run[a].target
        /\ mine.iteration = run[a].iteration /\ mine.escalated = run[a].escalated
    <3>1. run[a] \in Run
      BY TreeRunFacts
    <3> QED  BY <3>1 DEF Run, Asked
  <2>3. run' = [run EXCEPT ![c].st = "asked", ![a] = mine]
    BY <1>6, <2>1 DEF AsksAgain, RunsOK
  <2>4. run' \in [Agents -> Run] /\ AskStep(a, c)
    <3> HIDE DEF mine
    <3> QED  BY <1>1, <1>6, <2>1, <2>2, <2>3, AsksEffect
  <2> QED  BY <1>1, <1>2, <1>6, <2>1, <2>4 DEF AsksSome, GoesAt
<1>7. ASSUME NEW how \in {"ended", "threw"}, run[a].tried # {}, run[c].st = how, Settles(a, how)
      PROVE  run' \in [Agents -> Run] /\ SettlesNow(a)
  <2>1. run' \in [Agents -> Run] /\ SettleStep(a) /\ run'[a].st = how
    BY <1>7, SettlesEffect
  <2> QED  BY <1>1, <1>7, <2>1 DEF SettlesNow, SettlesAt
<1>8. CASE run[a].tried # {} /\ run[c].st = "ended" /\ Settles(a, "ended")
  BY <1>7, <1>8
<1>9. CASE run[a].tried # {} /\ run[c].st = "threw" /\ Settles(a, "threw")
  BY <1>7, <1>9
<1>10. CASE run[a].tried # {} /\ run[c].st = "threw" /\ \E t \in Subs(a) \ run[a].tried : Routes(a, t)
  BY <1>3, <1>10
<1> HIDE DEF c
<1> QED  BY <1>4, <1>5, <1>6, <1>8, <1>9, <1>10 DEF Routed, c

\* What a step of the tree can be.
TreeMoves(a) == Composite(a) /\ (StartsSome(a) \/ PassesSome(a) \/ AsksSome(a) \/ SettlesNow(a))
Emits(b) ==
  /\ Asked(b) /\ run'[b].st = "ready" /\ run'[b].event.by = b /\ run'[b].event \in LeafEvent
  /\ \A x \in Agents \ {b} : run'[x] = run[x]
  /\ unheard' = [unheard EXCEPT ![b] = @ + 1] /\ runner' = runner
Finishes(b) == OnlyRuns({b}) /\ Asked(b) /\ run'[b].st \in {"ended", "threw"}
Takes ==
  /\ run[Root].st = "ready" /\ run'[Root].st = "held" /\ run'[Root].event = run[Root].event
  /\ KeepsPlace(Root) /\ KeepsFlags(Root)
  /\ \A x \in Agents \ {Root} : run'[x] = run[x]
  /\ unheard' = [unheard EXCEPT ![run[Root].event.by] = @ - 1]
  /\ runner = "asking" /\ runner' = "holding"
Asks ==
  /\ run'[Root].st = "asked" /\ KeepsPlace(Root) /\ KeepsFlags(Root)
  /\ \A x \in Agents \ {Root} : run'[x] = run[x]
  /\ unheard' = unheard /\ runner = "holding" /\ runner' = "asking"
Parts ==
  /\ run' = run /\ unheard' = unheard
  /\ runner' = runner \/ runner' = "gone" \/ (runner' = "done" /\ runner = "asking")

LEMMA StepKinds ==
  RunsOK /\ (\A a \in Agents : Places(a)) /\ [TreeNext]_treeVars =>
    /\ run' \in [Agents -> Run] /\ runner' \in {"asking", "holding", "gone", "done"}
    /\ \/ \E b \in Leaves : Emits(b) \/ Finishes(b)
       \/ \E a \in Agents \ Leaves : TreeMoves(a)
       \/ Takes \/ Asks \/ Parts
<1> DEFINE Sorts == \/ \E b \in Leaves : Emits(b) \/ Finishes(b)
                    \/ \E a \in Agents \ Leaves : TreeMoves(a)
                    \/ Takes \/ Asks \/ Parts
           Good == /\ run' \in [Agents -> Run] /\ runner' \in {"asking", "holding", "gone", "done"}
                   /\ Sorts
<1> SUFFICES ASSUME RunsOK, \A a \in Agents : Places(a), [TreeNext]_treeVars  PROVE Good
  OBVIOUS
<1>0. Root \in Agents /\ runner \in {"asking", "holding", "gone", "done"} /\ run \in [Agents -> Run]
  BY TreeAssumption DEF RunsOK
<1>1. ASSUME NEW b \in Leaves, Emit(b)  PROVE Good
  <2>1. PICK escalate \in BOOLEAN :
          run' = [run EXCEPT ![b].st = "ready", ![b].count = @ + 1,
                             ![b].event = [by |-> b, escalate |-> escalate]]
    BY <1>1 DEF Emit
  <2> DEFINE e == [by |-> b, escalate |-> escalate]
             r == [run[b] EXCEPT !.st = "ready", !.count = @ + 1]
  <2>2. b \in Agents /\ e \in LeafEvent /\ e.by = b
    BY LeavesBelow DEF LeafEvent
  <2>3. r \in Run /\ r.st = "ready"
    <3>1. run[b] \in Run
      BY <2>2, TreeRunFacts
    <3> DEFINE r0 == [run[b] EXCEPT !.st = "ready"]
    <3>2. r0 \in Run /\ r0.st = "ready" /\ r0.count = run[b].count /\ run[b].count + 1 \in Nat
      BY <3>1 DEF Run
    <3>3. r = [r0 EXCEPT !.count = run[b].count + 1]
      BY <3>2
    <3> HIDE DEF r0
    <3> QED  BY <3>2, <3>3 DEF Run
  <2>4. /\ run'[b] = [r EXCEPT !.event = e] /\ \A x \in Agents \ {b} : run'[x] = run[x]
        /\ run' = [x \in Agents |-> run'[x]]
    BY <2>1, <2>2 DEF RunsOK
  <2> HIDE DEF r, e
  <2>5. run'[b] \in Run /\ run'[b].event = e /\ run'[b].st = "ready"
    BY <2>2, <2>3, <2>4 DEF Run
  <2>6. run' \in [Agents -> Run]
    BY <1>0, <2>4, <2>5
  <2>7. Emits(b)
    BY <1>1, <2>2, <2>4, <2>5 DEF Emits, Emit
  <2> QED  BY <1>0, <1>1, <2>6, <2>7 DEF Emit
<1>2. ASSUME NEW b \in Leaves, Finish(b)  PROVE Good
  <2>1. PICK how \in {"ended", "threw"} : Settles(b, how) /\ Asked(b) /\ UNCHANGED <<runner, unheard>>
    BY <1>2 DEF Finish, Settles
  <2>2. run' \in [Agents -> Run] /\ SettleStep(b) /\ run'[b].st = how
    BY <2>1, SettlesEffect, LeavesBelow
  <2> QED  BY <1>0, <2>1, <2>2 DEF SettleStep, Finishes
<1>3. ASSUME NEW a \in Agents \ Leaves, Advance(a)  PROVE Good
  <2>1. Places(a) /\ Asked(a) /\ UNCHANGED <<runner, unheard>>
    BY <1>3 DEF Advance
  <2>2. run' \in [Agents -> Run] /\ (StartsSome(a) \/ PassesSome(a) \/ AsksSome(a) \/ SettlesNow(a))
    BY <1>3, <2>1, SequenceStep, LoopStep, ParallelStep, RoutedStep DEF Advance
  <2>3. Composite(a)
    BY <1>3 DEF Advance, Composite, Listed
  <2> QED  BY <1>0, <2>1, <2>2, <2>3 DEF TreeMoves
<1>4. ASSUME NEW how \in {"asked", "held"}, run' = [run EXCEPT ![Root].st = how]
      PROVE  /\ run' \in [Agents -> Run]
             /\ run'[Root].st = how /\ run'[Root].event = run[Root].event
             /\ KeepsPlace(Root) /\ KeepsFlags(Root)
             /\ \A x \in Agents \ {Root} : run'[x] = run[x]
  <2>1. /\ run'[Root] = [run[Root] EXCEPT !.st = how]
        /\ \A x \in Agents \ {Root} : run'[x] = run[x]
        /\ run' = [x \in Agents |-> run'[x]]
    BY <1>0, <1>4
  <2>2. run'[Root] \in Run
    <3>1. how \in {"off", "asked", "ready", "held", "ended", "threw"}
      OBVIOUS
    <3>2. [run[Root] EXCEPT !.st = how] \in Run
      BY <1>0, <3>1, SetsSt
    <3> QED  BY <2>1, <3>2
  <2> QED  BY <1>0, <2>1, <2>2, SetsSt DEF KeepsPlace, KeepsFlags
<1>5. CASE Take
  <2>1. run' = [run EXCEPT ![Root].st = "held"]
    BY <1>5 DEF Take
  <2>2. Takes
    BY <1>4, <1>5, <2>1 DEF Takes, Take
  <2> QED  BY <1>4, <1>5, <2>1, <2>2 DEF Take
<1>6. CASE AskForMore
  <2>1. run' = [run EXCEPT ![Root].st = "asked"]
    BY <1>6 DEF AskForMore, AsksAgain
  <2>2. Asks
    BY <1>4, <1>6, <2>1 DEF Asks, AskForMore
  <2> QED  BY <1>4, <1>6, <2>1, <2>2 DEF AskForMore
<1>7. CASE Leave
  BY <1>0, <1>7 DEF Leave, Parts
<1>8. CASE RootEnds
  BY <1>0, <1>8 DEF RootEnds, Parts
<1>9. CASE UNCHANGED treeVars
  BY <1>0, <1>9 DEF treeVars, Parts
<1> HIDE DEF Good
<1> QED  BY <1>1, <1>2, <1>3, <1>5, <1>6, <1>7, <1>8, <1>9 DEF TreeNext

\* Where it is started a sub-agent is idle, and nothing of an earlier run of it
\* is left that could go on.
LEMMA StartsFacts ==
  ASSUME OneRunAtATime, RunsOK, Shape, NEW a \in Agents, Composite(a),
         NEW C \in SUBSET Agents, StartStep(a, C), StartsAt(a, C), NEW c \in C
  PROVE  /\ Idle(c) /\ c \in Subs(a) /\ c # a
         /\ run[c].st # "off" => Again(a)
         /\ run[c].st = "threw" => ~HasParallel(c)
<1>1. c \in Subs(a) /\ c # a /\ c \in Agents
  BY NotItself DEF StartStep
<1>2. Places(a) /\ AtPlace(a) /\ Fresh(a) /\ Stuck(a)
  BY DEF Shape
<1>3. HasParallel(c) => HasParallel(a)
  <2>1. Below(c) \subseteq Below(a)
    BY <1>1, BelowFacts, BelowBelow
  <2> QED  BY <2>1 DEF HasParallel
<1>4. CASE Listed(a)
  <2>1. PICK i \in DOMAIN SubAgents[a] :
          /\ C = {SubAgents[a][i]}
          /\ \/ run[a].pos = 0 /\ i = 1
             \/ /\ run[a].pos > 0 /\ run[SubAt(a)].st = "ended"
                /\ i = run[a].pos + 1 \/ (i = 1 /\ run[a].pos = Len(SubAgents[a]) /\ Kind[a] = "loop")
    BY <1>4 DEF StartsAt
  <2>2. c = SubAgents[a][i] /\ run[a].pos \in Nat /\ i \in Nat
    BY <2>1, SubsFacts, TreeRunFacts
  <2>3. Idle(c)
    BY <1>2, <1>4, <2>1, <2>2 DEF AtPlace, Idle, SubAt
  <2>4. run[c].st = "threw" => ~HasParallel(c)
    BY <1>1, <1>2, <1>3, <1>4, <2>1, <2>2 DEF Stuck
  <2>5. CASE Kind[a] = "loop"
    BY <1>1, <2>3, <2>4, <2>5, BelowFacts DEF Again
  <2>6. CASE Kind[a] = "sequence"
    <3>1. i > run[a].pos
      BY <2>1, <2>2, <2>6
    <3>2. run[c].st # "off" => Again(a)
      BY <1>2, <2>2, <2>6, <3>1 DEF Fresh
    <3> QED  BY <1>1, <2>3, <2>4, <3>2
  <2> QED  BY <1>4, <2>5, <2>6 DEF Listed
<1>5. CASE Kind[a] = "parallel"
  <2>1. run[a].pos = 0
    BY <1>5 DEF StartsAt
  <2>2. HasParallel(a)
    BY <1>5, BelowFacts DEF HasParallel
  <2> QED  BY <1>1, <1>2, <1>5, <2>1, <2>2 DEF AtPlace, Fresh, Stuck
<1>6. CASE Kind[a] = "routed"
  <2>1. c \notin run[a].tried
    BY <1>6 DEF StartsAt
  <2>2. Idle(c)
    BY <1>1, <1>2, <1>6, <2>1 DEF AtPlace, Places
  <2>3. run[c].st # "off" => Again(a)
    BY <1>1, <1>2, <1>6, <2>1 DEF Fresh
  <2>4. Again(a) => ~HasParallel(a)
    BY <1>6 DEF Again, OneRunAtATime
  <2> QED  BY <1>1, <1>3, <2>2, <2>3, <2>4
<1> QED  BY <1>4, <1>5, <1>6 DEF Composite

\* A step that starts nothing leaves what is idle as it is.
Calm ==
  \A x \in Agents : /\ Idle(x) => run'[x] = run[x]
                    /\ ~Idle(x) => run'[x].st # "off"
                    /\ x \notin Leaves => KeepsPlace(x)

LEMMA CalmSteps ==
  ASSUME RunsOK, Holding,
         \/ \E b \in Leaves : Emits(b) \/ Finishes(b)
         \/ \E a \in Agents \ Leaves : PassesSome(a) \/ AsksSome(a) \/ SettlesNow(a)
         \/ Takes \/ Asks \/ Parts
  PROVE  Calm
<1>0. Root \in Agents
  BY TreeAssumption
<1>1. ASSUME NEW b \in Leaves, Emits(b) \/ Finishes(b)  PROVE Calm
  BY <1>1, LeavesBelow DEF Calm, Emits, Finishes, OnlyRuns, Asked, Idle, KeepsPlace
<1>2. ASSUME NEW a \in Agents, NEW c \in Agents, PassStep(a, c)  PROVE Calm
  BY <1>2, NotItself DEF Calm, PassStep, OnlyRuns, Asked, Idle, KeepsPlace
<1>3. ASSUME NEW a \in Agents, NEW c \in Agents, AskStep(a, c)  PROVE Calm
  BY <1>3, NotItself DEF Calm, AskStep, OnlyRuns, Asked, Idle, KeepsPlace
<1>4. ASSUME NEW a \in Agents, SettleStep(a)  PROVE Calm
  BY <1>4 DEF Calm, SettleStep, OnlyRuns, Asked, Idle, KeepsPlace
<1>5. CASE Takes
  BY <1>0, <1>5 DEF Calm, Takes, Idle, KeepsPlace
<1>6. CASE Asks
  BY <1>0, <1>6 DEF Calm, Asks, Idle, KeepsPlace, Holding
<1>7. CASE Parts
  BY <1>7 DEF Calm, Parts, Idle, KeepsPlace
<1> QED  BY <1>1, <1>2, <1>3, <1>4, <1>5, <1>6, <1>7 DEF PassesSome, AsksSome, SettlesNow

\* Who is affected by a start: the agent and the sub-agents it starts.
LEMMA StartsOnly ==
  ASSUME NEW a \in Agents, NEW C \in SUBSET Agents, StartStep(a, C),
         NEW p \in Agents, NEW d \in Subs(p)
  PROVE  /\ p \in C => run'[d] = run[d]
         /\ p = a /\ d \notin C => run'[d] = run[d]
         /\ p \notin C \cup {a} => run'[p] = run[p] /\ (d # a => run'[d] = run[d])
         /\ d \in C => p = a
         /\ d \in Agents
<1>1. d \in Agents /\ d # p
  BY NotItself
<1>2. d \in C => p = a
  BY OneParent DEF StartStep
<1>3. p \in C => d # a /\ p # a
  <2>1. p \in C => p \in Subs(a)
    BY DEF StartStep
  <2>2. p \in C => a \notin Below(p)
    BY <2>1, NoCycle
  <2> QED  BY <2>1, <2>2, NotItself, BelowFacts
<1> QED  BY <1>1, <1>2, <1>3 DEF StartStep, OnlyRuns

LEMMA PlacesStep ==
  ASSUME RunsOK, \A a \in Agents : Places(a), [TreeNext]_treeVars
  PROVE  \A a \in Agents : Places(a)'
<1> SUFFICES ASSUME NEW p \in Agents  PROVE Places(p)'
  OBVIOUS
<1>0. Places(p) /\ Root \in Agents
  BY TreeAssumption
<1>1. ASSUME KeepsPlace(p) \/ run'[p] = run[p] \/ p \in Leaves  PROVE Places(p)'
  <2>1. p \in Leaves => Kind[p] = "leaf"
    BY DEF Leaves
  <2> QED  BY <1>0, <1>1, <2>1 DEF Places, Listed, KeepsPlace
<1>2. ASSUME NEW b \in Leaves, Emits(b) \/ Finishes(b)  PROVE Places(p)'
  BY <1>1, <1>2 DEF Emits, Finishes, OnlyRuns
<1>3. ASSUME NEW a \in Agents, NEW c \in Agents, PassStep(a, c) \/ AskStep(a, c)  PROVE Places(p)'
  BY <1>1, <1>3 DEF PassStep, AskStep, OnlyRuns
<1>4. ASSUME NEW a \in Agents, SettleStep(a)  PROVE Places(p)'
  BY <1>1, <1>4 DEF SettleStep, OnlyRuns
<1>5. CASE Takes \/ Asks \/ Parts
  BY <1>1, <1>5 DEF Takes, Asks, Parts
<1>6. ASSUME NEW a \in Agents, NEW C \in SUBSET Agents, Composite(a), StartStep(a, C), StartsAt(a, C)
      PROVE  Places(p)'
  <2>1. CASE p = a
    <3>1. CASE Listed(p)
      <4>1. Kind[p] # "parallel" /\ Kind[p] # "routed"
        BY <3>1 DEF Listed
      <4> QED  BY <1>6, <2>1, <3>1, <4>1, SubsFacts DEF StartsAt, Places
    <3>2. CASE Kind[p] = "parallel"
      BY <1>6, <2>1, <3>2 DEF StartsAt, Places, Listed
    <3>3. CASE Kind[p] = "routed"
      BY <1>0, <1>6, <2>1, <3>3 DEF StartsAt, Places, Listed
    <3> QED  BY <1>6, <2>1, <3>1, <3>2, <3>3 DEF Composite
  <2>2. CASE p \in C
    <3>1. run'[p].pos = 0 /\ run'[p].tried = {} /\ Len(SubAgents[p]) \in Nat
      BY <1>6, <2>2, StartedFacts, SubsFacts DEF StartStep
    <3> QED  BY <3>1 DEF Places
  <2>3. CASE p # a /\ p \notin C
    BY <1>1, <1>6, <2>3 DEF StartStep, OnlyRuns
  <2> QED  BY <2>1, <2>2, <2>3
<1>7. ASSUME NEW a \in Agents, TreeMoves(a)  PROVE Places(p)'
  BY <1>3, <1>4, <1>6, <1>7 DEF TreeMoves, StartsSome, PassesSome, AsksSome, SettlesNow
<1> QED  BY <1>2, <1>5, <1>7, StepKinds

LEMMA AtPlaceStays ==
  ASSUME OneRunAtATime, RunsOK, Shape, NEW p \in Agents,
         \/ Calm
         \/ \E a \in Agents : \E C \in SUBSET Agents :
              Composite(a) /\ StartStep(a, C) /\ StartsAt(a, C)
  PROVE  AtPlace(p)'
<1>1. /\ Places(p) /\ AtPlace(p) /\ LeavesIdle(p)
      /\ run[p].pos \in Nat
  BY TreeRunFacts DEF Shape
<1>2. /\ Len(SubAgents[p]) \in Nat /\ DOMAIN SubAgents[p] = 1..Len(SubAgents[p])
      /\ \A i \in DOMAIN SubAgents[p] : SubAgents[p][i] \in Subs(p)
      /\ \A i, j \in DOMAIN SubAgents[p] : SubAgents[p][i] = SubAgents[p][j] => i = j
  BY SubsFacts
<1>3. CASE Calm
  <2>1. CASE p \in Leaves
    <3>1. Kind[p] = "leaf"
      BY <2>1 DEF Leaves
    <3> QED  BY <3>1 DEF AtPlace, Listed
  <2>2. CASE p \notin Leaves
    <3>1. KeepsPlace(p)
      BY <1>3, <2>2 DEF Calm
    <3>2. \A c \in Subs(p) : Idle(c) => Idle(c)'
      BY <1>3, NotItself DEF Calm, Idle
    <3> QED  BY <1>1, <1>2, <3>1, <3>2 DEF AtPlace, KeepsPlace
  <2> QED  BY <2>1, <2>2
<1>4. ASSUME NEW a \in Agents, NEW C \in SUBSET Agents, Composite(a), StartStep(a, C), StartsAt(a, C)
      PROVE  AtPlace(p)'
  <2>1. CASE p = a
    <3>0. \A d \in Subs(p) \ C : run'[d] = run[d]
      BY <1>4, <2>1, StartsOnly
    <3>1. CASE Listed(p)
      <4>1. PICK i \in DOMAIN SubAgents[p] :
              /\ C = {SubAgents[p][i]} /\ run'[p].pos = i
              /\ run[p].pos = 0 \/ (run[p].pos > 0 /\ run[SubAt(p)].st = "ended")
        BY <1>4, <2>1, <3>1 DEF StartsAt
      <4>2. ASSUME NEW j \in DOMAIN SubAgents[p], j # i  PROVE Idle(SubAgents[p][j])'
        <5>1. SubAgents[p][j] \in Subs(p) \ C
          BY <1>2, <4>1, <4>2
        <5>2. Idle(SubAgents[p][j])
          BY <1>1, <1>2, <3>1, <4>1 DEF AtPlace, Idle, SubAt
        <5> QED  BY <3>0, <5>1, <5>2 DEF Idle
      <4>3. Kind[p] # "parallel" /\ Kind[p] # "routed"
        BY <3>1 DEF Listed
      <4> QED  BY <4>1, <4>2, <4>3 DEF AtPlace
    <3>2. CASE Kind[p] = "parallel"
      BY <1>4, <2>1, <3>2 DEF StartsAt, AtPlace, Listed
    <3>3. CASE Kind[p] = "routed"
      <4>1. PICK t \in Subs(p) \ run[p].tried :
              /\ C = {t} /\ run'[p].target = t /\ run'[p].tried = run[p].tried \cup {t}
              /\ run[p].tried # {} => run[run[p].target].st = "threw"
        BY <1>4, <2>1, <3>3 DEF StartsAt
      <4>2. ASSUME NEW d \in Subs(p), d # t  PROVE Idle(d)'
        <5>1. Idle(d)
          BY <1>1, <3>3, <4>1 DEF AtPlace, Idle
        <5> QED  BY <3>0, <4>1, <4>2, <5>1 DEF Idle
      <4>3. Kind[p] # "parallel" /\ ~Listed(p)
        BY <3>3 DEF Listed
      <4> QED  BY <4>1, <4>2, <4>3 DEF AtPlace
    <3> QED  BY <1>4, <2>1, <3>1, <3>2, <3>3 DEF Composite
  <2>2. CASE p \in C
    <3>1. Idle(p) /\ (run[p].st = "threw" => ~HasParallel(p))
      BY <1>4, <2>2, StartsFacts
    <3>2. Kind[p] = "parallel" => HasParallel(p)
      BY BelowFacts DEF HasParallel
    <3>3. \A d \in Subs(p) : Idle(d)
      BY <1>1, <3>1, <3>2 DEF LeavesIdle
    <3>4. \A d \in Subs(p) : Idle(d)'
      BY <1>4, <2>2, <3>3, StartsOnly DEF Idle
    <3>5. run'[p].pos = 0 /\ run'[p].tried = {}
      BY <1>4, <2>2, StartedFacts DEF StartStep
    <3> QED  BY <1>2, <3>4, <3>5 DEF AtPlace
  <2>3. CASE p # a /\ p \notin C
    <3>1. run'[p] = run[p]
      BY <1>4, <2>3 DEF StartStep, OnlyRuns
    <3>2. \A d \in Subs(p) : Idle(d) => Idle(d)'
      <4>1. ~Idle(a)
        BY <1>4 DEF StartStep, Asked, Idle
      <4> QED  BY <1>4, <2>3, <4>1, StartsOnly DEF Idle
    <3> QED  BY <1>1, <1>2, <3>1, <3>2 DEF AtPlace
  <2> QED  BY <2>1, <2>2, <2>3
<1> QED  BY <1>3, <1>4

LEMMA FreshStays ==
  ASSUME OneRunAtATime, RunsOK, Shape, NEW p \in Agents,
         \/ Calm
         \/ \E a \in Agents : \E C \in SUBSET Agents :
              Composite(a) /\ StartStep(a, C) /\ StartsAt(a, C)
  PROVE  Fresh(p)'
<1>1. Fresh(p) /\ run[p].pos \in Nat
  BY TreeRunFacts DEF Shape
<1>2. /\ Len(SubAgents[p]) \in Nat /\ DOMAIN SubAgents[p] = 1..Len(SubAgents[p])
      /\ \A i \in DOMAIN SubAgents[p] : SubAgents[p][i] \in Subs(p)
      /\ \A i, j \in DOMAIN SubAgents[p] : SubAgents[p][i] = SubAgents[p][j] => i = j
  BY SubsFacts
<1>3. CASE Calm
  <2>1. \A c \in Subs(p) : run[c].st = "off" => run'[c].st = "off"
    BY <1>3, NotItself DEF Calm, Idle
  <2>2. run'[p].st = "off" => run[p].st = "off"
    BY <1>3 DEF Calm, Idle
  <2>3. CASE p \in Leaves
    BY <2>3, LeavesBelow, <1>2 DEF Fresh
  <2>4. CASE p \notin Leaves
    <3>1. KeepsPlace(p)
      BY <1>3, <2>4 DEF Calm
    <3> QED  BY <1>1, <1>2, <2>1, <2>2, <3>1 DEF Fresh, KeepsPlace
  <2> QED  BY <2>3, <2>4
<1>4. ASSUME NEW a \in Agents, NEW C \in SUBSET Agents, Composite(a), StartStep(a, C), StartsAt(a, C)
      PROVE  Fresh(p)'
  <2>1. CASE p = a
    <3>0. \A d \in Subs(p) \ C : run'[d] = run[d]
      BY <1>4, <2>1, StartsOnly
    <3>1. run'[p].st # "off"
      BY <1>4, <2>1 DEF StartStep
    <3>2. CASE ~Again(p) /\ Kind[p] = "sequence"
      <4>1. PICK i \in DOMAIN SubAgents[p] :
              /\ C = {SubAgents[p][i]} /\ run'[p].pos = i /\ i > run[p].pos
        BY <1>1, <1>4, <2>1, <3>2 DEF StartsAt, Listed
      <4>2. \A j \in DOMAIN SubAgents[p] : j > i => run'[SubAgents[p][j]].st = "off"
        <5> SUFFICES ASSUME NEW j \in DOMAIN SubAgents[p], j > i
                     PROVE  run'[SubAgents[p][j]].st = "off"
          OBVIOUS
        <5>1. run[SubAgents[p][j]].st = "off"
          BY <1>1, <1>2, <3>2, <4>1 DEF Fresh
        <5>2. SubAgents[p][j] \in Subs(p) \ C
          BY <1>2, <4>1
        <5> QED  BY <3>0, <5>1, <5>2
      <4> QED  BY <3>1, <3>2, <4>1, <4>2 DEF Fresh
    <3>3. CASE Kind[p] = "parallel"
      BY <1>4, <2>1, <3>1, <3>3 DEF StartsAt, Fresh
    <3>4. CASE ~Again(p) /\ Kind[p] = "routed"
      BY <1>1, <1>4, <2>1, <3>0, <3>1, <3>4 DEF StartsAt, Fresh
    <3> QED  BY <3>1, <3>2, <3>3, <3>4 DEF Fresh
  <2>2. CASE p \in C
    <3>1. run[p].st # "off" => Again(a)
      BY <1>4, <2>2, StartsFacts
    <3>2. Again(a) => Again(p)
      <4>1. p \in Subs(a)
        BY <1>4, <2>2 DEF StartStep
      <4> QED  BY <4>1, BelowFacts DEF Again
    <3>3. run'[p].st # "off"
      BY <1>4, <2>2, StartedFacts DEF StartStep
    <3>4. ~Again(p) => \A d \in Subs(p) : run'[d].st = "off"
      BY <1>1, <1>4, <2>2, <3>1, <3>2, StartsOnly DEF Fresh
    <3> QED  BY <1>2, <3>3, <3>4 DEF Fresh
  <2>3. CASE p # a /\ p \notin C
    <3>1. run'[p] = run[p]
      BY <1>4, <2>3 DEF StartStep, OnlyRuns
    <3>2. \A d \in Subs(p) : run[d].st = "off" => run'[d].st = "off"
      <4>1. run[a].st # "off"
        BY <1>4 DEF StartStep, Asked
      <4> QED  BY <1>4, <2>3, <4>1, StartsOnly
    <3> QED  BY <1>1, <1>2, <3>1, <3>2 DEF Fresh
  <2> QED  BY <2>1, <2>2, <2>3
<1> QED  BY <1>3, <1>4

\* A step in which nothing starts and nothing ends.
Steady == Calm /\ \A x \in Agents : ~Idle(x) => ~Idle(x)'

LEMMA SteadySteps ==
  ASSUME RunsOK, Holding,
         \/ \E b \in Leaves : Emits(b)
         \/ \E a \in Agents \ Leaves : PassesSome(a) \/ AsksSome(a)
         \/ Takes \/ Asks \/ Parts
  PROVE  Steady
<1>0. Root \in Agents
  BY TreeAssumption
<1>1. Calm
  BY CalmSteps
<1>2. ASSUME NEW b \in Leaves, Emits(b)  PROVE \A x \in Agents : ~Idle(x) => ~Idle(x)'
  BY <1>2, LeavesBelow DEF Emits, Idle
<1>3. ASSUME NEW a \in Agents, NEW c \in Agents, PassStep(a, c)
      PROVE  \A x \in Agents : ~Idle(x) => ~Idle(x)'
  BY <1>3, NotItself DEF PassStep, OnlyRuns, Idle
<1>4. ASSUME NEW a \in Agents, NEW c \in Agents, AskStep(a, c)
      PROVE  \A x \in Agents : ~Idle(x) => ~Idle(x)'
  BY <1>4, NotItself DEF AskStep, OnlyRuns, Idle
<1>5. Takes \/ Asks \/ Parts => \A x \in Agents : ~Idle(x) => ~Idle(x)'
  BY <1>0 DEF Takes, Asks, Parts, Idle
<1> QED  BY <1>1, <1>2, <1>3, <1>4, <1>5 DEF PassesSome, AsksSome, Steady

LEMMA ComingToAnEnd ==
  ASSUME RunsOK, Shape, NEW a \in Agents, Composite(a), SettlesNow(a)
  PROVE  /\ (Kind[a] = "parallel" => run'[a].st # "threw") => \A c \in Subs(a) : Idle(c)
         /\ run'[a].st = "ended" /\ (Listed(a) \/ Kind[a] = "parallel") /\ HasParallel(a)
              => \A c \in Subs(a) : run[c].st # "threw"
<1>1. Places(a) /\ AtPlace(a) /\ Stuck(a) /\ run[a].pos \in Nat
  BY TreeRunFacts DEF Shape
<1>2. /\ \A i \in DOMAIN SubAgents[a] : SubAgents[a][i] \in Subs(a)
      /\ \A c \in Subs(a) : \E i \in DOMAIN SubAgents[a] : c = SubAgents[a][i]
  BY SubsFacts
<1>3. SettlesAt(a) /\ run'[a].st \in {"ended", "threw"}
  BY DEF SettlesNow, SettleStep
<1>4. CASE Listed(a)
  <2>1. \A c \in Subs(a) : Idle(c)
    <3> SUFFICES ASSUME NEW i \in DOMAIN SubAgents[a]  PROVE Idle(SubAgents[a][i])
      BY <1>2
    <3>1. CASE i # run[a].pos
      BY <1>1, <1>4, <3>1 DEF AtPlace
    <3>2. CASE i = run[a].pos
      <4>1. run[a].pos > 0
        BY <3>2, SubsFacts
      <4>2. run[SubAgents[a][i]].st = run'[a].st
        BY <1>3, <1>4, <3>2, <4>1 DEF SettlesAt, SubAt
      <4> QED  BY <1>3, <4>2 DEF Idle
    <3> QED  BY <3>1, <3>2
  <2>2. run'[a].st = "ended" /\ HasParallel(a) => \A c \in Subs(a) : run[c].st # "threw"
    BY <1>1, <1>3, <1>4 DEF Stuck, SettlesAt
  <2> QED  BY <2>1, <2>2
<1>5. CASE Kind[a] = "parallel"
  BY <1>3, <1>5 DEF SettlesAt, AllEnded, Idle
<1>6. CASE Kind[a] = "routed"
  <2>1. ~Listed(a) /\ Kind[a] # "parallel"
    BY <1>6 DEF Listed
  <2>2. \A c \in Subs(a) : Idle(c)
    BY <1>1, <1>3, <1>6 DEF SettlesAt, AtPlace, Places, Idle
  <2> QED  BY <2>1, <2>2
<1> QED  BY <1>4, <1>5, <1>6 DEF Composite

LEMMA IdleStays ==
  ASSUME OneRunAtATime, RunsOK, Shape, NEW p \in Agents,
         \/ Steady
         \/ \E b \in Leaves : Finishes(b)
         \/ \E a \in Agents : Composite(a) /\ SettlesNow(a)
         \/ \E a \in Agents : \E C \in SUBSET Agents :
              Composite(a) /\ StartStep(a, C) /\ StartsAt(a, C)
  PROVE  LeavesIdle(p)' /\ Stuck(p)'
<1>1. LeavesIdle(p) /\ Stuck(p) /\ AtPlace(p) /\ Places(p) /\ run[p].pos \in Nat
  BY TreeRunFacts DEF Shape
<1>2. \A c \in Subs(p) : c # p /\ c \in Agents
  BY NotItself
<1>3. CASE Steady
  <2>1. \A x \in Agents : Idle(x)' => run'[x] = run[x] /\ Idle(x)
    BY <1>3 DEF Steady, Calm
  <2>2. \A x \in Agents : Idle(x) => Idle(x)' /\ run'[x] = run[x]
    BY <1>3 DEF Steady, Calm, Idle
  <2>3. LeavesIdle(p)'
    BY <1>1, <1>2, <2>1, <2>2 DEF LeavesIdle
  <2>4. Stuck(p)'
    <3> SUFFICES ASSUME Listed(p) \/ Kind[p] = "parallel", HasParallel(p),
                        NEW c \in Subs(p), run'[c].st = "threw"
                 PROVE  run'[p].st \notin {"off", "ended"} /\ run'[p].pos > 0 /\ (Listed(p) => c = SubAt(p)')
      BY DEF Stuck, Listed, HasParallel
    <3>1. run[c].st = "threw"
      BY <1>2, <2>1 DEF Idle
    <3>2. run[p].st \notin {"off", "ended"} /\ run[p].pos > 0 /\ (Listed(p) => c = SubAt(p))
      BY <1>1, <3>1 DEF Stuck
    <3>3. run'[p].st \notin {"off", "ended"}
      BY <2>1, <3>2 DEF Idle
    <3>4. run'[p].pos = run[p].pos
      <4>1. p \notin Leaves
        BY LeavesBelow
      <4> QED  BY <1>3, <4>1 DEF Steady, Calm, KeepsPlace
    <3> QED  BY <3>2, <3>3, <3>4 DEF SubAt
  <2> QED  BY <2>3, <2>4
<1>4. ASSUME NEW x \in Agents, Asked(x), run'[x].st \in {"ended", "threw"}, OnlyRuns({x}),
             KeepsPlace(x) \/ x \in Leaves,
             /\ (Kind[x] = "parallel" => run'[x].st # "threw") => \A c \in Subs(x) : Idle(c)
             /\ run'[x].st = "ended" /\ (Listed(x) \/ Kind[x] = "parallel") /\ HasParallel(x)
                  => \A c \in Subs(x) : run[c].st # "threw"
      PROVE  LeavesIdle(p)' /\ Stuck(p)'
  <2>1. \A y \in Agents \ {x} : run'[y] = run[y]
    BY <1>4 DEF OnlyRuns
  <2>2. ~Idle(x)
    BY <1>4 DEF Asked, Idle
  <2>3. LeavesIdle(p)'
    <3>1. CASE p = x
      BY <1>2, <1>4, <2>1, <3>1 DEF LeavesIdle, Idle
    <3>2. CASE p # x
      BY <1>1, <1>2, <1>4, <2>1, <2>2, <3>2 DEF LeavesIdle, Idle
    <3> QED  BY <3>1, <3>2
  <2>4. Stuck(p)'
    <3> SUFFICES ASSUME Listed(p) \/ Kind[p] = "parallel", HasParallel(p),
                        NEW c \in Subs(p), run'[c].st = "threw"
                 PROVE  run'[p].st \notin {"off", "ended"} /\ run'[p].pos > 0 /\ (Listed(p) => c = SubAt(p)')
      BY DEF Stuck, Listed, HasParallel
    <3>0. p \notin Leaves
      BY LeavesBelow
    <3>1. run'[p].pos = run[p].pos
      BY <1>4, <2>1, <3>0 DEF KeepsPlace
    <3>2. CASE c # x
      <4>1. run[c].st = "threw"
        BY <1>2, <2>1, <3>2
      <4>2. run[p].st \notin {"off", "ended"} /\ run[p].pos > 0 /\ (Listed(p) => c = SubAt(p))
        BY <1>1, <4>1 DEF Stuck
      <4>3. run'[p].st \notin {"off", "ended"}
        BY <1>4, <2>1, <4>1, <4>2
      <4> QED  BY <3>1, <4>2, <4>3 DEF SubAt
    <3>3. CASE c = x
      <4>1. run'[p] = run[p] /\ ~Idle(c)
        BY <1>2, <2>1, <2>2, <3>3
      <4>2. run[p].st \notin {"off", "ended"}
        BY <1>1, <4>1 DEF LeavesIdle, Idle
      <4>3. CASE Listed(p)
        <5>1. PICK i \in DOMAIN SubAgents[p] : c = SubAgents[p][i]
          BY SubsFacts
        <5>2. i = run[p].pos /\ i > 0
          BY <1>1, <4>1, <4>3, <5>1, SubsFacts DEF AtPlace
        <5> QED  BY <4>1, <4>2, <5>1, <5>2 DEF SubAt
      <4>4. CASE Kind[p] = "parallel"
        BY <1>1, <4>1, <4>2, <4>4 DEF AtPlace, Places, Listed
      <4> QED  BY <4>3, <4>4
    <3> QED  BY <3>2, <3>3
  <2> QED  BY <2>3, <2>4
<1>5. ASSUME NEW b \in Leaves, Finishes(b)  PROVE LeavesIdle(p)' /\ Stuck(p)'
  <2>1. b \in Agents /\ Subs(b) = {}
    BY LeavesBelow
  <2> QED  BY <1>4, <1>5, <2>1 DEF Finishes
<1>6. ASSUME NEW a \in Agents, Composite(a), SettlesNow(a)  PROVE LeavesIdle(p)' /\ Stuck(p)'
  <2>1. Asked(a) /\ run'[a].st \in {"ended", "threw"} /\ OnlyRuns({a}) /\ KeepsPlace(a)
    BY <1>6 DEF SettlesNow, SettleStep
  <2> QED  BY <1>4, <1>6, <2>1, ComingToAnEnd
<1>7. ASSUME NEW a \in Agents, NEW C \in SUBSET Agents, Composite(a), StartStep(a, C), StartsAt(a, C)
      PROVE  LeavesIdle(p)' /\ Stuck(p)'
  <2>0. ~Idle(a) /\ run'[a].st = "asked" /\ \A c \in C : run'[c].st = "asked" /\ c \in Agents
    BY <1>7, StartedFacts DEF StartStep, Asked, Idle
  <2>1. LeavesIdle(p)'
    <3> SUFFICES ASSUME Idle(p)', Kind[p] = "parallel" => run'[p].st # "threw", NEW d \in Subs(p)
                 PROVE  Idle(d)'
      BY DEF LeavesIdle
    <3>1. p # a /\ p \notin C
      BY <2>0 DEF Idle
    <3>2. run'[p] = run[p]
      BY <1>7, <3>1, StartsOnly
    <3>3. Idle(d)
      BY <1>1, <3>2 DEF LeavesIdle, Idle
    <3>4. run'[d] = run[d]
      BY <1>7, <2>0, <3>1, <3>3, StartsOnly
    <3> QED  BY <3>3, <3>4 DEF Idle
  <2>2. Stuck(p)'
    <3> SUFFICES ASSUME Listed(p) \/ Kind[p] = "parallel", HasParallel(p),
                        NEW d \in Subs(p), run'[d].st = "threw"
                 PROVE  run'[p].st \notin {"off", "ended"} /\ run'[p].pos > 0 /\ (Listed(p) => d = SubAt(p)')
      BY DEF Stuck, Listed, HasParallel
    <3>1. d \notin C /\ d # a
      BY <2>0
    <3>2. run'[d] = run[d]
      BY <1>2, <1>7, <3>1 DEF StartStep, OnlyRuns
    <3>3. run[p].st \notin {"off", "ended"} /\ run[p].pos > 0 /\ (Listed(p) => d = SubAt(p))
      BY <1>1, <3>2 DEF Stuck
    <3>4. p # a
      <4>1. ASSUME p = a  PROVE FALSE
        <5>1. run[SubAt(a)].st # "ended" \/ ~Listed(a)
          BY <3>2, <3>3, <4>1
        <5> QED  BY <1>7, <3>3, <4>1, <5>1 DEF StartsAt
      <4> QED  BY <4>1
    <3>5. p \notin C
      BY <1>7, <3>3, StartsFacts DEF Idle
    <3>6. run'[p] = run[p]
      BY <1>7, <3>4, <3>5, StartsOnly
    <3> QED  BY <3>3, <3>6 DEF SubAt
  <2> QED  BY <2>1, <2>2
<1> QED  BY <1>3, <1>5, <1>6, <1>7

LEMMA HoldingStays ==
  ASSUME RunsOK, Holding,
         \/ \E b \in Leaves : Emits(b) \/ Finishes(b)
         \/ \E a \in Agents \ Leaves : TreeMoves(a)
         \/ Takes \/ Asks \/ Parts
  PROVE  /\ Holding'
         /\ runner = "holding" /\ runner' = "holding" => run'[Root] = run[Root]
<1>0. Root \in Agents /\ \A a \in Agents : Root \notin Subs(a)
  BY TreeAssumption, SubsFacts
<1>1. ASSUME runner = "holding", runner' = "holding"  PROVE run'[Root] = run[Root]
  <2>1. run[Root].st = "held"
    BY <1>1 DEF Holding
  <2>2. ASSUME NEW b \in Leaves, Emits(b) \/ Finishes(b)  PROVE run'[Root] = run[Root]
    BY <1>0, <2>1, <2>2 DEF Emits, Finishes, Asked, OnlyRuns
  <2>3. ASSUME NEW a \in Agents, TreeMoves(a)  PROVE run'[Root] = run[Root]
    BY <1>0, <2>1, <2>3 DEF TreeMoves, StartsSome, PassesSome, AsksSome, SettlesNow,
                            StartStep, PassStep, AskStep, SettleStep, Asked, OnlyRuns
  <2>4. Takes \/ Asks \/ Parts => run'[Root] = run[Root]
    BY <1>1 DEF Takes, Asks, Parts
  <2> QED  BY <2>2, <2>3, <2>4
<1>2. Takes => run'[Root].st = "held"
  BY DEF Takes
<1>3. ~Takes /\ runner' = "holding" => runner = "holding"
  BY DEF Emits, Finishes, OnlyRuns, TreeMoves, StartsSome, PassesSome, AsksSome, SettlesNow,
         StartStep, PassStep, AskStep, SettleStep, Asks, Parts
<1> QED  BY <1>1, <1>2, <1>3 DEF Holding

LEMMA ShapeStep ==
  ASSUME OneRunAtATime, RunsOK, Shape, [TreeNext]_treeVars
  PROVE  Shape'
<1>1. Holding /\ \A a \in Agents : Places(a)
  BY DEF Shape
<1>2. \/ \E b \in Leaves : Emits(b) \/ Finishes(b)
      \/ \E a \in Agents \ Leaves : TreeMoves(a)
      \/ Takes \/ Asks \/ Parts
  BY <1>1, StepKinds
<1>3. Holding'
  BY <1>1, <1>2, HoldingStays
<1>9. \A a \in Agents : Places(a)'
  BY <1>1, PlacesStep
<1>4. ASSUME Calm, \/ Steady
                   \/ \E b \in Leaves : Finishes(b)
                   \/ \E a \in Agents : Composite(a) /\ SettlesNow(a)
      PROVE  Shape'
  BY <1>3, <1>4, <1>9, AtPlaceStays, FreshStays, IdleStays DEF Shape
<1>5. CASE \/ \E b \in Leaves : Emits(b)
           \/ \E a \in Agents \ Leaves : PassesSome(a) \/ AsksSome(a)
           \/ Takes \/ Asks \/ Parts
  BY <1>1, <1>4, <1>5, CalmSteps, SteadySteps
<1>6. CASE \E b \in Leaves : Finishes(b)
  BY <1>1, <1>4, <1>6, CalmSteps
<1>7. CASE \E a \in Agents \ Leaves : Composite(a) /\ SettlesNow(a)
  BY <1>1, <1>4, <1>7, CalmSteps
<1>8. CASE \E a \in Agents \ Leaves : Composite(a) /\ StartsSome(a)
  <2>1. PICK a \in Agents, C \in SUBSET Agents : Composite(a) /\ StartStep(a, C) /\ StartsAt(a, C)
    BY <1>8 DEF StartsSome
  <2> QED  BY <1>3, <1>9, <2>1, AtPlaceStays, FreshStays, IdleStays DEF Shape
<1> QED  BY <1>2, <1>5, <1>6, <1>7, <1>8 DEF TreeMoves

---------------------------------------------------------------------------
(* The way of an event                                                     *)

\* What an agent has at its yield is held by everyone on the way to the leaf.
Along(x) ==
  /\ run[x].event \in LeafEvent /\ run[x].event.by \in Below(x)
  /\ \A y \in Below(x) \ {x} : run[x].event.by \in Below(y) =>
       run[y].st = "held" /\ run[y].event.by = run[x].event.by
Path == \A x \in Agents : Yielded(x) => Along(x)

LEMMA PathKeeps ==
  ASSUME Path, NEW x \in Agents, Yielded(x), run'[x].event = run[x].event,
         \A y \in Agents : run[y].st = "held" =>
           \/ run'[y].st = "held" /\ run'[y].event = run[y].event
           \/ \E p \in Agents : Asked(p) /\ y \in Subs(p)
           \/ y = Root
  PROVE  Along(x)'
<1>1. Along(x) /\ run[x].st # "asked"
  BY DEF Path, Yielded
<1>2. ASSUME NEW y \in Below(x) \ {x}, run[x].event.by \in Below(y)
      PROVE  run'[y].st = "held" /\ run'[y].event.by = run[x].event.by
  <2>1. run[y].st = "held" /\ run[y].event.by = run[x].event.by /\ y \in Agents
    BY <1>1, <1>2, BelowFacts DEF Along
  <2>2. y # Root
    BY <1>2, NoCycle
  <2>3. ASSUME NEW p \in Agents, Asked(p), y \in Subs(p)  PROVE FALSE
    <3>1. p \in Below(x)
      BY <1>2, <2>3, ParentBelow
    <3>2. Below(y) \subseteq Below(p)
      BY <2>3, BelowFacts, BelowBelow
    <3> QED  BY <1>1, <1>2, <2>3, <3>1, <3>2 DEF Along, Asked
  <2> QED  BY <2>1, <2>2, <2>3
<1> QED  BY <1>1, <1>2 DEF Along

LEMMA PathStep ==
  ASSUME OneRunAtATime, RunsOK, Shape, Path, [TreeNext]_treeVars
  PROVE  Path'
<1>0. Holding /\ Root \in Agents /\ \A a \in Agents : Places(a)
  BY TreeAssumption DEF Shape
<1> DEFINE Remains(y) == run[y].st = "held" =>
                        \/ run'[y].st = "held" /\ run'[y].event = run[y].event
                        \/ \E p \in Agents : Asked(p) /\ y \in Subs(p)
                        \/ y = Root
           New(x) == Yielded(x)' => Along(x)' \/ (Yielded(x) /\ run'[x].event = run[x].event)
<1>1. SUFFICES \A x \in Agents : Remains(x) /\ New(x)
  <2> SUFFICES ASSUME NEW x \in Agents, Yielded(x)'  PROVE Along(x)'
    BY DEF Path, Yielded
  <2>1. \A y \in Agents : Remains(y)
    BY <1>1
  <2>2. Along(x)' \/ (Yielded(x) /\ run'[x].event = run[x].event)
    BY <1>1
  <2> QED  BY <2>1, <2>2, PathKeeps
<1>2. ASSUME NEW b \in Leaves, Emits(b)  PROVE \A x \in Agents : Remains(x) /\ New(x)
  <2>1. Along(b)'
    BY <1>2, LeavesBelow DEF Along, Emits
  <2> QED  BY <1>2, <2>1, LeavesBelow DEF Emits, Asked, Yielded
<1>3. ASSUME NEW b \in Leaves, Finishes(b)  PROVE \A x \in Agents : Remains(x) /\ New(x)
  BY <1>3, LeavesBelow DEF Finishes, OnlyRuns, Asked, Yielded
<1>4. ASSUME NEW a \in Agents, NEW C \in SUBSET Agents, Composite(a), StartStep(a, C), StartsAt(a, C)
      PROVE  \A x \in Agents : Remains(x) /\ New(x)
  <2>1. \A c \in C : Idle(c) /\ run'[c].st = "asked"
    BY <1>4, StartsFacts, StartedFacts DEF StartStep
  <2> QED  BY <1>4, <2>1 DEF StartStep, OnlyRuns, Asked, Yielded, Idle
<1>5. ASSUME NEW a \in Agents, NEW c \in Agents, PassStep(a, c)
      PROVE  \A x \in Agents : Remains(x) /\ New(x)
  <2>0. c \in Subs(a) /\ c # a /\ run[c].st = "ready" /\ Asked(a)
    BY <1>5, NotItself DEF PassStep
  <2>1. /\ run'[a].st = "ready" /\ run'[a].event = run[c].event
        /\ run'[c].st = "held" /\ run'[c].event = run[c].event
        /\ \A x \in Agents \ {a, c} : run'[x] = run[x]
    BY <1>5 DEF PassStep, OnlyRuns
  <2> DEFINE b == run[c].event.by
  <2>2. Along(c)
    BY <2>0 DEF Path, Yielded
  <2>3. run[c].event \in LeafEvent /\ b \in Below(c) /\ b \in Below(a)
    <3>1. Below(c) \subseteq Below(a)
      BY <2>0, BelowFacts, BelowBelow
    <3> QED  BY <2>2, <3>1 DEF Along
  <2>4. ASSUME NEW y \in Below(a) \ {a}, b \in Below(y)
        PROVE  run'[y].st = "held" /\ run'[y].event.by = b
    <3>1. PICK d \in Subs(a) : y \in Below(d)
      BY <2>4, BelowChild
    <3>2. d \in Agents /\ b \in Below(d) /\ y \in Agents
      BY <2>4, <3>1, NotItself, BelowFacts, BelowBelow
    <3>3. d = c
      BY <2>0, <2>3, <3>2, SiblingsApart
    <3>4. CASE y = c
      BY <2>1, <3>4
    <3>5. CASE y # c
      <4>1. run[y].st = "held" /\ run[y].event.by = b
        BY <2>2, <2>4, <3>1, <3>3, <3>5 DEF Along
      <4> QED  BY <2>1, <2>4, <3>2, <3>5, <4>1
    <3> QED  BY <3>4, <3>5
  <2>5. Along(a)'
    BY <2>1, <2>3, <2>4 DEF Along
  <2> QED  BY <2>0, <2>1, <2>5 DEF Asked, Yielded
<1>6. ASSUME NEW a \in Agents, NEW c \in Agents, AskStep(a, c)
      PROVE  \A x \in Agents : Remains(x) /\ New(x)
  BY <1>6, NotItself DEF AskStep, OnlyRuns, Asked, Yielded
<1>7. ASSUME NEW a \in Agents, SettleStep(a)  PROVE \A x \in Agents : Remains(x) /\ New(x)
  BY <1>7 DEF SettleStep, OnlyRuns, Asked, Yielded
<1>8. CASE Takes
  BY <1>0, <1>8 DEF Takes, Yielded
<1>9. CASE Asks
  BY <1>0, <1>9 DEF Asks, Yielded
<1>10. CASE Parts
  BY <1>10 DEF Parts, Yielded
<1> HIDE DEF Remains, New
<1>11. \/ \E b \in Leaves : Emits(b) \/ Finishes(b)
       \/ \E a \in Agents \ Leaves : TreeMoves(a)
       \/ Takes \/ Asks \/ Parts
  BY <1>0, StepKinds
<1>12. ASSUME NEW a \in Agents \ Leaves, TreeMoves(a)  PROVE \A x \in Agents : Remains(x) /\ New(x)
  <2>1. CASE StartsSome(a)
    BY <1>4, <1>12, <2>1 DEF StartsSome, TreeMoves
  <2>2. CASE PassesSome(a)
    BY <1>5, <2>2 DEF PassesSome
  <2>3. CASE AsksSome(a)
    BY <1>6, <2>3 DEF AsksSome
  <2>4. CASE SettlesNow(a)
    BY <1>7, <2>4 DEF SettlesNow
  <2> QED  BY <1>12, <2>1, <2>2, <2>3, <2>4 DEF TreeMoves
<1> QED  BY <1>2, <1>3, <1>8, <1>9, <1>10, <1>11, <1>12

---------------------------------------------------------------------------
(* What the runner has heard                                               *)

\* A leaf has one event at most that the runner was not given, and is at its
\* yield while it has.
HeardLeaf(b) == unheard[b] \in {0, 1} /\ (~Yielded(b) => unheard[b] = 0)
HeardAt(x) == run[x].st = "ready" => unheard[run[x].event.by] = 1
HeardBelow(p) ==
  \A c \in Subs(p) : run[c].st = "held" =>
    /\ ~Idle(p)
    /\ run[p].st = "asked" => unheard[run[c].event.by] = 0
    /\ Yielded(p) => run[c].event.by = run[p].event.by
HeardAbove == runner = "holding" => unheard[run[Root].event.by] = 0
Heard ==
  /\ \A b \in Leaves : HeardLeaf(b)
  /\ \A x \in Agents : HeardAt(x) /\ HeardBelow(x)
  /\ HeardAbove

\* The leaf of an event that somebody has at its yield is at its own.
LEMMA ByFacts ==
  ASSUME Path, NEW x \in Agents, Yielded(x)
  PROVE  /\ run[x].event.by \in Leaves /\ run[x].event.by \in Below(x) /\ Yielded(run[x].event.by)
         /\ run[x].event.by # x => run[run[x].event.by].st = "held"
<1>1. Along(x)
  BY DEF Path
<1>2. run[x].event.by \in Leaves
  BY <1>1 DEF Along, LeafEvent
<1>3. run[x].event.by \in Agents /\ run[x].event.by \in Below(run[x].event.by)
  BY <1>2, LeavesBelow
<1> QED  BY <1>1, <1>2, <1>3 DEF Along, Yielded

LEMMA HeardEmits ==
  ASSUME TreeTypeOK, Shape, Path, Heard, NEW b \in Leaves, Emits(b)
  PROVE  Heard' /\ unheard' \in [Leaves -> Nat]
<1>0. b \in Agents /\ Subs(b) = {} /\ Root \in Agents /\ unheard \in [Leaves -> Nat]
  BY LeavesBelow, TreeAssumption DEF TreeTypeOK
<1>1. /\ run[b].st = "asked" /\ run'[b].st = "ready" /\ run'[b].event.by = b
      /\ \A x \in Agents \ {b} : run'[x] = run[x]
      /\ runner' = runner
  BY DEF Emits, Asked
<1>2. unheard[b] = 0
  BY <1>1 DEF Heard, HeardLeaf, Yielded
<1>3. unheard'[b] = 1 /\ (\A l \in Leaves \ {b} : unheard'[l] = unheard[l]) /\ unheard' \in [Leaves -> Nat]
  BY <1>0, <1>2 DEF Emits
<1>4. \A x \in Agents : Yielded(x) => run[x].event.by # b /\ run[x].event.by \in Leaves
  BY <1>1, ByFacts DEF Yielded
<1>5. \A l \in Leaves : HeardLeaf(l)'
  BY <1>1, <1>3, LeavesBelow DEF Heard, HeardLeaf, Yielded
<1>6. \A x \in Agents : HeardAt(x)'
  BY <1>1, <1>3, <1>4 DEF Heard, HeardAt, Yielded
<1>7. \A x \in Agents : HeardBelow(x)'
  <2> SUFFICES ASSUME NEW p \in Agents, NEW c \in Subs(p), run'[c].st = "held"
               PROVE /\ ~Idle(p)'
                     /\ run'[p].st = "asked" => unheard'[run'[c].event.by] = 0
                     /\ Yielded(p)' => run'[c].event.by = run'[p].event.by
    BY DEF HeardBelow
  <2>1. p # b /\ c # b /\ c \in Agents
    BY <1>0, <1>1, NotItself
  <2>2. run'[p] = run[p] /\ run'[c] = run[c]
    BY <1>1, <2>1
  <2>3. run[c].st = "held" /\ run[c].event.by # b /\ run[c].event.by \in Leaves
    BY <1>4, <2>1, <2>2 DEF Yielded
  <2>4. unheard'[run'[c].event.by] = unheard[run[c].event.by]
    BY <1>3, <2>2, <2>3
  <2> QED  BY <2>2, <2>3, <2>4 DEF Heard, HeardBelow, Idle, Yielded
<1>8. HeardAbove'
  <2>1. runner = "holding" => Yielded(Root) /\ run[Root].st = "held"
    BY DEF Shape, Holding, Yielded
  <2> QED  BY <1>0, <1>1, <1>3, <1>4, <2>1 DEF Heard, HeardAbove
<1> QED  BY <1>3, <1>5, <1>6, <1>7, <1>8 DEF Heard

LEMMA HeardFinishes ==
  ASSUME RunsOK, Shape, Path, Heard,
         NEW a \in Agents, Asked(a), run'[a].st \in {"ended", "threw"}, OnlyRuns({a}), Alone(a)
  PROVE  Heard'
<1>0. Root \in Agents
  BY TreeAssumption
<1>1. /\ run[a].st = "asked" /\ run'[a].st \in {"ended", "threw"}
      /\ \A x \in Agents \ {a} : run'[x] = run[x]
      /\ runner' = runner /\ unheard' = unheard
  BY DEF Asked, OnlyRuns
<1>2. \A l \in Leaves : HeardLeaf(l)'
  BY <1>1, LeavesBelow DEF Heard, HeardLeaf, Yielded
<1>3. \A x \in Agents : HeardAt(x)'
  BY <1>1 DEF Heard, HeardAt
<1>4. \A x \in Agents : HeardBelow(x)'
  <2> SUFFICES ASSUME NEW p \in Agents, NEW c \in Subs(p), run'[c].st = "held"
               PROVE /\ ~Idle(p)'
                     /\ run'[p].st = "asked" => unheard'[run'[c].event.by] = 0
                     /\ Yielded(p)' => run'[c].event.by = run'[p].event.by
    BY DEF HeardBelow
  <2>1. c # a /\ c \in Agents
    BY <1>1, NotItself
  <2>2. p # a
    BY <1>1, <2>1 DEF Alone
  <2> QED  BY <1>1, <2>1, <2>2 DEF Heard, HeardBelow, Idle, Yielded
<1>5. HeardAbove'
  <2>1. runner = "holding" => run[Root].st = "held"
    BY DEF Shape, Holding
  <2> QED  BY <1>0, <1>1, <2>1 DEF Heard, HeardAbove
<1> QED  BY <1>2, <1>3, <1>4, <1>5 DEF Heard

LEMMA HeardStarts ==
  ASSUME OneRunAtATime, RunsOK, Shape, Path, Heard,
         NEW a \in Agents, NEW C \in SUBSET Agents, Composite(a), StartStep(a, C), StartsAt(a, C)
  PROVE  Heard'
<1>0. Root \in Agents /\ Root \notin C
  BY TreeAssumption, SubsFacts DEF StartStep
<1>1. /\ run[a].st = "asked" /\ run'[a].st = "asked"
      /\ \A c \in C : run'[c].st = "asked" /\ Idle(c)
      /\ \A x \in Agents \ (C \cup {a}) : run'[x] = run[x]
      /\ runner' = runner /\ unheard' = unheard
  BY StartsFacts, StartedFacts DEF StartStep, OnlyRuns, Asked
<1>2. \A l \in Leaves : HeardLeaf(l)'
  <2> SUFFICES ASSUME NEW l \in Leaves  PROVE HeardLeaf(l)'
    OBVIOUS
  <2>0. l \in Agents /\ HeardLeaf(l)
    BY LeavesBelow DEF Heard
  <2>1. CASE l \in C \cup {a}
    BY <1>1, <2>0, <2>1 DEF HeardLeaf, Yielded, Idle
  <2>2. CASE l \notin C \cup {a}
    BY <1>1, <2>0, <2>2 DEF HeardLeaf, Yielded
  <2> QED  BY <2>1, <2>2
<1>3. \A x \in Agents : HeardAt(x)'
  BY <1>1 DEF Heard, HeardAt
<1>4. \A x \in Agents : HeardBelow(x)'
  <2> SUFFICES ASSUME NEW p \in Agents, NEW d \in Subs(p), run'[d].st = "held"
               PROVE /\ ~Idle(p)'
                     /\ run'[p].st = "asked" => unheard'[run'[d].event.by] = 0
                     /\ Yielded(p)' => run'[d].event.by = run'[p].event.by
    BY DEF HeardBelow
  <2>1. d \in Agents /\ d \notin C \cup {a}
    BY <1>1, NotItself
  <2>2. run'[d] = run[d] /\ run[d].st = "held"
    BY <1>1, <2>1
  <2>3. /\ ~Idle(p)
        /\ run[p].st = "asked" => unheard[run[d].event.by] = 0
        /\ Yielded(p) => run[d].event.by = run[p].event.by
    BY <2>2 DEF Heard, HeardBelow
  <2>4. p \notin C
    BY <1>1, <2>3
  <2>5. CASE p = a
    BY <1>1, <2>2, <2>3, <2>5 DEF Idle, Yielded
  <2>6. CASE p # a
    BY <1>1, <2>2, <2>3, <2>4, <2>6 DEF Idle, Yielded
  <2> QED  BY <2>5, <2>6
<1>5. HeardAbove'
  <2>1. runner = "holding" => run[Root].st = "held"
    BY DEF Shape, Holding
  <2> QED  BY <1>0, <1>1, <2>1 DEF Heard, HeardAbove
<1> QED  BY <1>2, <1>3, <1>4, <1>5 DEF Heard

\* Where an agent asks or takes, no other sub-agent of it is held.
LEMMA OnlyOneHeld ==
  ASSUME RunsOK, Shape, NEW a \in Agents, Composite(a), PassesSome(a),
         NEW c \in Agents, PassStep(a, c), GoesAt(a, c), NEW d \in Subs(a), run[d].st = "held",
         Kind[a] = "parallel" => Alone(a)
  PROVE  FALSE
<1>1. AtPlace(a) /\ ~Idle(d) /\ run[c].st = "ready" /\ c # d
  BY DEF Shape, Idle, PassStep
<1>2. CASE Listed(a)
  <2>1. PICK i \in DOMAIN SubAgents[a] : d = SubAgents[a][i]
    BY SubsFacts
  <2>2. i = run[a].pos
    BY <1>1, <1>2, <2>1 DEF AtPlace
  <2> QED  BY <1>1, <1>2, <2>1, <2>2 DEF GoesAt, SubAt
<1>3. CASE Kind[a] = "parallel"
  BY <1>3 DEF Alone
<1>4. CASE Kind[a] = "routed"
  BY <1>1, <1>4 DEF AtPlace, GoesAt
<1> QED  BY <1>2, <1>3, <1>4 DEF Composite

LEMMA HeardPasses ==
  ASSUME RunsOK, Shape, Path, Heard, NEW a \in Agents \ Leaves,
         NEW c \in Agents, PassStep(a, c), \A d \in Subs(a) : run[d].st # "held"
  PROVE  Heard'
<1>0. Root \in Agents /\ Root # c
  BY TreeAssumption, SubsFacts DEF PassStep
<1>1. /\ c \in Subs(a) /\ c # a /\ run[a].st = "asked" /\ run[c].st = "ready"
      /\ run'[a].st = "ready" /\ run'[a].event = run[c].event
      /\ run'[c].st = "held" /\ run'[c].event = run[c].event
      /\ \A x \in Agents \ {a, c} : run'[x] = run[x]
      /\ runner' = runner /\ unheard' = unheard
  BY NotItself DEF PassStep, OnlyRuns, Asked
<1>2. \A l \in Leaves : HeardLeaf(l)'
  <2> SUFFICES ASSUME NEW l \in Leaves  PROVE HeardLeaf(l)'
    OBVIOUS
  <2>0. l \in Agents /\ HeardLeaf(l) /\ l # a
    BY LeavesBelow DEF Heard
  <2> QED  BY <1>1, <2>0 DEF HeardLeaf, Yielded
<1>3. \A x \in Agents : HeardAt(x)'
  <2>1. unheard[run[c].event.by] = 1
    BY <1>1 DEF Heard, HeardAt
  <2> QED  BY <1>1, <2>1 DEF Heard, HeardAt
<1>4. \A x \in Agents : HeardBelow(x)'
  <2> SUFFICES ASSUME NEW p \in Agents, NEW d \in Subs(p), run'[d].st = "held"
               PROVE /\ ~Idle(p)'
                     /\ run'[p].st = "asked" => unheard'[run'[d].event.by] = 0
                     /\ Yielded(p)' => run'[d].event.by = run'[p].event.by
    BY DEF HeardBelow
  <2>0. d \in Agents /\ d # p /\ d # a
    BY <1>1, NotItself
  <2>1. CASE d = c
    <3>1. p = a
      BY <1>1, <2>1, OneParent
    <3> QED  BY <1>1, <2>1, <3>1 DEF Idle, Yielded
  <2>2. CASE d # c
    <3>1. run'[d] = run[d] /\ run[d].st = "held" /\ p # a
      BY <1>1, <2>0, <2>2
    <3>2. /\ ~Idle(p)
          /\ run[p].st = "asked" => unheard[run[d].event.by] = 0
          /\ Yielded(p) => run[d].event.by = run[p].event.by
      BY <3>1 DEF Heard, HeardBelow
    <3>3. CASE p = c
      BY <1>1, <3>1, <3>2, <3>3 DEF Idle, Yielded
    <3>4. CASE p # c
      BY <1>1, <3>1, <3>2, <3>4 DEF Idle, Yielded
    <3> QED  BY <3>3, <3>4
  <2> QED  BY <2>1, <2>2
<1>5. HeardAbove'
  <2>1. runner = "holding" => run[Root].st = "held"
    BY DEF Shape, Holding
  <2> QED  BY <1>0, <1>1, <2>1 DEF Heard, HeardAbove
<1> QED  BY <1>2, <1>3, <1>4, <1>5 DEF Heard

LEMMA HeardAsks ==
  ASSUME RunsOK, Shape, Path, Heard, NEW a \in Agents \ Leaves, NEW c \in Agents, AskStep(a, c)
  PROVE  Heard'
<1>0. Root \in Agents /\ Root # c
  BY TreeAssumption, SubsFacts DEF AskStep
<1>1. /\ c \in Subs(a) /\ c # a /\ run[a].st = "asked" /\ run[c].st = "held"
      /\ run'[a].st = "asked" /\ run'[c].st = "asked"
      /\ \A x \in Agents \ {a, c} : run'[x] = run[x]
      /\ runner' = runner /\ unheard' = unheard
  BY NotItself DEF AskStep, OnlyRuns, Asked
<1>2. unheard[run[c].event.by] = 0
  BY <1>1 DEF Heard, HeardBelow
<1>3. \A l \in Leaves : HeardLeaf(l)'
  <2> SUFFICES ASSUME NEW l \in Leaves  PROVE HeardLeaf(l)'
    OBVIOUS
  <2>0. l \in Agents /\ HeardLeaf(l) /\ l # a
    BY LeavesBelow DEF Heard
  <2>1. CASE l = c
    <3>1. run[c].event.by = c
      BY <1>1, <2>1, ByFacts, LeavesBelow DEF Yielded
    <3> QED  BY <1>1, <1>2, <2>1, <3>1 DEF HeardLeaf, Yielded
  <2> QED  BY <1>1, <2>0, <2>1 DEF HeardLeaf, Yielded
<1>4. \A x \in Agents : HeardAt(x)'
  BY <1>1 DEF Heard, HeardAt
<1>5. \A x \in Agents : HeardBelow(x)'
  <2> SUFFICES ASSUME NEW p \in Agents, NEW d \in Subs(p), run'[d].st = "held"
               PROVE /\ ~Idle(p)'
                     /\ run'[p].st = "asked" => unheard'[run'[d].event.by] = 0
                     /\ Yielded(p)' => run'[d].event.by = run'[p].event.by
    BY DEF HeardBelow
  <2>0. d \in Agents /\ d # p /\ d # a /\ d # c
    BY <1>1, NotItself
  <2>1. run'[d] = run[d] /\ run[d].st = "held"
    BY <1>1, <2>0
  <2>2. /\ ~Idle(p)
        /\ run[p].st = "asked" => unheard[run[d].event.by] = 0
        /\ Yielded(p) => run[d].event.by = run[p].event.by
    BY <2>1 DEF Heard, HeardBelow
  <2>3. CASE p = c
    BY <1>1, <1>2, <2>1, <2>2, <2>3 DEF Idle, Yielded
  <2>4. CASE p = a
    BY <1>1, <2>1, <2>2, <2>4 DEF Idle, Yielded
  <2>5. CASE p # c /\ p # a
    BY <1>1, <2>1, <2>2, <2>5 DEF Idle, Yielded
  <2> QED  BY <2>3, <2>4, <2>5
<1>6. HeardAbove'
  <2>1. runner = "holding" => run[Root].st = "held"
    BY DEF Shape, Holding
  <2> QED  BY <1>0, <1>1, <2>1 DEF Heard, HeardAbove
<1> QED  BY <1>3, <1>4, <1>5, <1>6 DEF Heard

LEMMA HeardTakes ==
  ASSUME TreeTypeOK, Shape, Path, Heard, Takes
  PROVE  Heard' /\ unheard' \in [Leaves -> Nat]
<1> DEFINE b == run[Root].event.by
<1>0. Root \in Agents /\ Below(Root) = Agents /\ unheard \in [Leaves -> Nat]
  BY TreeAssumption DEF TreeTypeOK
<1>1. /\ run[Root].st = "ready" /\ run'[Root].st = "held" /\ run'[Root].event = run[Root].event
      /\ \A x \in Agents \ {Root} : run'[x] = run[x]
  BY DEF Takes
<1>2. b \in Leaves /\ unheard[b] = 1 /\ Yielded(b)
  BY <1>0, <1>1, ByFacts DEF Heard, HeardAt, Yielded
<1>3. unheard'[b] = 0 /\ (\A l \in Leaves \ {b} : unheard'[l] = unheard[l]) /\ unheard' \in [Leaves -> Nat]
  BY <1>0, <1>2 DEF Takes
<1>4. \A l \in Leaves : HeardLeaf(l)'
  <2> SUFFICES ASSUME NEW l \in Leaves  PROVE HeardLeaf(l)'
    OBVIOUS
  <2>1. l \in Agents /\ HeardLeaf(l)
    BY LeavesBelow DEF Heard
  <2>2. Yielded(l)' <=> Yielded(l)
    BY <1>1, <2>1 DEF Yielded
  <2> QED  BY <1>2, <1>3, <2>1, <2>2 DEF HeardLeaf
<1>5. \A x \in Agents : HeardAt(x)'
  <2> SUFFICES ASSUME NEW x \in Agents, run'[x].st = "ready"
               PROVE  unheard'[run'[x].event.by] = 1
    BY DEF HeardAt
  <2>1. x # Root /\ run'[x] = run[x]
    BY <1>1
  <2>2. run[x].event.by \in Leaves /\ run[x].event.by \in Below(x) /\ unheard[run[x].event.by] = 1
    BY <2>1, ByFacts DEF Heard, HeardAt, Yielded
  <2>3. run[x].event.by # b
    BY <1>0, <1>1, <2>1, <2>2 DEF Path, Along, Yielded
  <2> QED  BY <1>3, <2>1, <2>2, <2>3
<1>6. \A x \in Agents : HeardBelow(x)'
  <2> SUFFICES ASSUME NEW p \in Agents, NEW d \in Subs(p), run'[d].st = "held"
               PROVE /\ ~Idle(p)'
                     /\ run'[p].st = "asked" => unheard'[run'[d].event.by] = 0
                     /\ Yielded(p)' => run'[d].event.by = run'[p].event.by
    BY DEF HeardBelow
  <2>0. d \in Agents /\ d # Root
    BY SubsFacts
  <2>1. run'[d] = run[d] /\ run[d].st = "held"
    BY <1>1, <2>0
  <2>2. /\ ~Idle(p)
        /\ run[p].st = "asked" => unheard[run[d].event.by] = 0
        /\ Yielded(p) => run[d].event.by = run[p].event.by
    BY <2>1 DEF Heard, HeardBelow
  <2>3. run[d].event.by \in Leaves
    BY <2>0, <2>1, ByFacts DEF Yielded
  <2>4. CASE p = Root
    BY <1>1, <2>1, <2>2, <2>4 DEF Idle, Yielded
  <2>5. CASE p # Root
    BY <1>1, <1>3, <2>1, <2>2, <2>3, <2>5 DEF Idle, Yielded
  <2> QED  BY <2>4, <2>5
<1>7. HeardAbove'
  BY <1>1, <1>3 DEF HeardAbove
<1> QED  BY <1>3, <1>4, <1>5, <1>6, <1>7 DEF Heard

LEMMA HeardWhenAsked ==
  ASSUME RunsOK, Shape, Path, Heard, Asks
  PROVE  Heard'
<1>0. Root \in Agents
  BY TreeAssumption
<1>1. /\ run[Root].st = "held" /\ run'[Root].st = "asked"
      /\ \A x \in Agents \ {Root} : run'[x] = run[x]
      /\ unheard' = unheard /\ runner' = "asking"
      /\ unheard[run[Root].event.by] = 0
  BY DEF Asks, Shape, Holding, Heard, HeardAbove
<1>2. \A l \in Leaves : HeardLeaf(l)'
  <2> SUFFICES ASSUME NEW l \in Leaves  PROVE HeardLeaf(l)'
    OBVIOUS
  <2>0. l \in Agents /\ HeardLeaf(l)
    BY LeavesBelow DEF Heard
  <2>1. CASE l = Root
    <3>1. run[Root].event.by = Root
      BY <1>0, <1>1, <2>1, ByFacts, LeavesBelow DEF Yielded
    <3> QED  BY <1>1, <2>1, <3>1 DEF HeardLeaf, Yielded
  <2> QED  BY <1>1, <2>0, <2>1 DEF HeardLeaf, Yielded
<1>3. \A x \in Agents : HeardAt(x)'
  BY <1>1 DEF Heard, HeardAt
<1>4. \A x \in Agents : HeardBelow(x)'
  <2> SUFFICES ASSUME NEW p \in Agents, NEW d \in Subs(p), run'[d].st = "held"
               PROVE /\ ~Idle(p)'
                     /\ run'[p].st = "asked" => unheard'[run'[d].event.by] = 0
                     /\ Yielded(p)' => run'[d].event.by = run'[p].event.by
    BY DEF HeardBelow
  <2>0. d \in Agents /\ d # Root
    BY SubsFacts
  <2>1. run'[d] = run[d] /\ run[d].st = "held"
    BY <1>1, <2>0
  <2>2. /\ ~Idle(p)
        /\ run[p].st = "asked" => unheard[run[d].event.by] = 0
        /\ Yielded(p) => run[d].event.by = run[p].event.by
    BY <2>1 DEF Heard, HeardBelow
  <2>3. CASE p = Root
    BY <1>1, <2>1, <2>2, <2>3 DEF Idle, Yielded
  <2>4. CASE p # Root
    BY <1>1, <2>1, <2>2, <2>4 DEF Idle, Yielded
  <2> QED  BY <2>3, <2>4
<1>5. HeardAbove'
  BY <1>1 DEF HeardAbove
<1> QED  BY <1>2, <1>3, <1>4, <1>5 DEF Heard

LEMMA HeardStep ==
  ASSUME OneRunAtATime, TreeTypeOK, Shape, Path, Heard, [TreeNext]_treeVars
  PROVE  Heard' /\ TreeTypeOK'
<1>0. RunsOK
  BY DEF TreeTypeOK, RunsOK
<1>1. /\ run' \in [Agents -> Run] /\ runner' \in {"asking", "holding", "gone", "done"}
      /\ \/ \E b \in Leaves : Emits(b) \/ Finishes(b)
         \/ \E a \in Agents \ Leaves : TreeMoves(a)
         \/ Takes \/ Asks \/ Parts
  BY <1>0, StepKinds DEF Shape
<1>2. SUFFICES Heard' /\ unheard' \in [Leaves -> Nat]
  BY <1>1, <1>2 DEF TreeTypeOK
<1>3. unheard' = unheard => unheard' \in [Leaves -> Nat]
  BY DEF TreeTypeOK
<1>4. ASSUME NEW b \in Leaves, Emits(b)  PROVE Heard' /\ unheard' \in [Leaves -> Nat]
  BY <1>4, HeardEmits
<1>5. ASSUME NEW b \in Leaves, Finishes(b)  PROVE Heard' /\ unheard' \in [Leaves -> Nat]
  <2>1. b \in Agents /\ Alone(b)
    BY LeavesBelow DEF Alone
  <2> QED  BY <1>3, <1>5, <2>1, <1>0, HeardFinishes DEF Finishes, OnlyRuns
<1>6. ASSUME NEW a \in Agents \ Leaves, TreeMoves(a)  PROVE Heard' /\ unheard' \in [Leaves -> Nat]
  <2>0. Composite(a)
    BY <1>6 DEF TreeMoves
  <2>1. CASE StartsSome(a)
    <3>1. PICK C \in SUBSET Agents : StartStep(a, C) /\ StartsAt(a, C)
      BY <2>1 DEF StartsSome
    <3> QED  BY <1>3, <2>0, <3>1, <1>0, HeardStarts DEF StartStep, OnlyRuns
  <2>2. CASE PassesSome(a)
    <3>1. PICK c \in Agents : PassStep(a, c) /\ GoesAt(a, c) /\ (Kind[a] = "parallel" => Alone(a))
      BY <2>2 DEF PassesSome
    <3>2. \A d \in Subs(a) : run[d].st # "held"
      BY <2>0, <2>2, <3>1, <1>0, OnlyOneHeld
    <3> QED  BY <1>3, <3>1, <3>2, <1>0, HeardPasses DEF PassStep, OnlyRuns
  <2>3. CASE AsksSome(a)
    <3>1. PICK c \in Agents : AskStep(a, c)
      BY <2>3 DEF AsksSome
    <3> QED  BY <1>3, <3>1, <1>0, HeardAsks DEF AskStep, OnlyRuns
  <2>4. CASE SettlesNow(a)
    <3>1. Asked(a) /\ run'[a].st \in {"ended", "threw"} /\ OnlyRuns({a}) /\ SettlesAt(a)
      BY <2>4 DEF SettlesNow, SettleStep
    <3>2. Alone(a)
      <4>1. CASE Kind[a] = "parallel" => run'[a].st # "threw"
        BY <2>0, <2>4, <4>1, <1>0, ComingToAnEnd DEF Alone, Idle
      <4>2. CASE Kind[a] = "parallel" /\ run'[a].st = "threw"
        BY <3>1, <4>2 DEF SettlesAt
      <4> QED  BY <4>1, <4>2
    <3> QED  BY <1>3, <3>1, <3>2, <1>0, HeardFinishes DEF OnlyRuns
  <2> QED  BY <1>6, <2>1, <2>2, <2>3, <2>4 DEF TreeMoves
<1>7. CASE Takes
  BY <1>7, HeardTakes
<1>8. CASE Asks
  BY <1>3, <1>8, <1>0, HeardWhenAsked DEF Asks
<1>9. CASE Parts
  <2>1. run' = run /\ unheard' = unheard /\ (runner' = "holding" => runner = "holding")
    BY <1>9 DEF Parts
  <2>2. Heard'
    BY <2>1 DEF Heard, HeardLeaf, HeardAt, HeardBelow, HeardAbove, Yielded, Idle
  <2> QED  BY <1>3, <2>1, <2>2
<1> QED  BY <1>1, <1>4, <1>5, <1>6, <1>7, <1>8, <1>9

---------------------------------------------------------------------------
(* What an agent that has ended leaves                                     *)

Off(x) == run[x].st = "off" => \A y \in Below(x) : run[y].st = "off"
Quiet(x) == Idle(x) /\ ~HasParallel(x) => \A y \in Below(x) : Idle(y)
Deep == \A x \in Agents : Off(x) /\ Quiet(x)
\* Below a target that another one took the place of.
Lost == UNION {Below(t) : t \in Replaced}
AllOver == \A x \in Agents : run[x].st = "ended" => \A y \in Below(x) : Idle(y) \/ y \in Lost

LEMMA LostFacts ==
  /\ \A y : y \in Lost <=> \E r \in Agents : \E t \in run[r].tried \ {run[r].target} :
                             Kind[r] = "routed" /\ y \in Below(t)
  /\ \A y : y \in Lost' <=> \E r \in Agents : \E t \in run'[r].tried \ {run'[r].target} :
                              Kind[r] = "routed" /\ y \in Below(t)
<1>1. \A t : t \in Replaced <=> \E r \in Agents : Kind[r] = "routed" /\ t \in run[r].tried \ {run[r].target}
  BY DEF Replaced
<1>2. \A t : t \in Replaced' <=> \E r \in Agents : Kind[r] = "routed" /\ t \in run'[r].tried \ {run'[r].target}
  BY DEF Replaced
<1>3. \A y : y \in Lost <=> \E t \in Replaced : y \in Below(t)
  BY DEF Lost
<1>4. \A y : y \in Lost' <=> \E t \in Replaced' : y \in Below(t)
  BY DEF Lost
<1> QED  BY <1>1, <1>2, <1>3, <1>4

LEMMA DeepStep ==
  ASSUME OneRunAtATime, RunsOK, Shape, Deep, [TreeNext]_treeVars
  PROVE  Deep'
<1>1. /\ Holding
      /\ \/ \E b \in Leaves : Emits(b) \/ Finishes(b)
         \/ \E a \in Agents \ Leaves : TreeMoves(a)
         \/ Takes \/ Asks \/ Parts
  BY StepKinds DEF Shape
<1>2. CASE Steady
  BY <1>2, BelowFacts DEF Steady, Calm, Deep, Off, Quiet, Idle, HasParallel
<1>3. ASSUME NEW a \in Agents, Asked(a), run'[a].st \in {"ended", "threw"}, OnlyRuns({a}),
             ~HasParallel(a) => \A c \in Subs(a) : Idle(c)
      PROVE  Deep'
  <2>0. ~Idle(a) /\ Idle(a)' /\ run'[a].st # "off" /\ \A y \in Agents \ {a} : run'[y] = run[y]
    BY <1>3 DEF Asked, Idle, OnlyRuns
  <2>1. ASSUME NEW x \in Agents, x # a  PROVE Off(x)' /\ Quiet(x)'
    BY <2>0, <2>1, BelowFacts DEF Deep, Off, Quiet, Idle, HasParallel
  <2>2. Off(a)'
    BY <2>0 DEF Off
  <2>3. Quiet(a)'
    <3> SUFFICES ASSUME ~HasParallel(a), NEW y \in Below(a)  PROVE Idle(y)'
      BY DEF Quiet, HasParallel
    <3>1. CASE y = a
      BY <2>0, <3>1
    <3>2. CASE y # a
      <4>1. PICK c \in Subs(a) : y \in Below(c)
        BY <3>2, BelowChild
      <4>2. c \in Agents /\ ~HasParallel(c) /\ y \in Agents
        BY <4>1, NotItself, BelowFacts, BelowBelow DEF HasParallel
      <4>3. Idle(y)
        BY <1>3, <4>1, <4>2 DEF Deep, Quiet
      <4> QED  BY <2>0, <4>2, <4>3 DEF Idle
    <3> QED  BY <3>1, <3>2
  <2> QED  BY <2>1, <2>2, <2>3 DEF Deep
<1>4. ASSUME NEW a \in Agents, NEW C \in SUBSET Agents, StartStep(a, C)  PROVE Deep'
  <2>0. /\ ~Idle(a) /\ ~Idle(a)' /\ \A c \in C : ~Idle(c)' /\ c \in Subs(a)
        /\ \A x \in Agents \ (C \cup {a}) : run'[x] = run[x]
    BY <1>4, StartedFacts DEF StartStep, Asked, Idle, OnlyRuns
  <2>1. ASSUME NEW x \in Agents, Idle(x)'  PROVE Off(x)' /\ Quiet(x)'
    <3>1. x \notin C \cup {a} /\ run'[x] = run[x] /\ Idle(x)
      BY <2>0, <2>1 DEF Idle
    <3>2. ASSUME NEW y \in Below(x), Idle(a) \/ a \notin Below(x)  PROVE run'[y] = run[y]
      <4>1. y \in Agents /\ y # a
        BY <2>0, <3>2, BelowFacts
      <4>2. y \notin C
        BY <2>0, <3>1, <3>2, ParentBelow
      <4> QED  BY <2>0, <4>1, <4>2
    <3>3. Off(x)'
      BY <2>0, <3>1, <3>2 DEF Deep, Off, Idle
    <3>4. Quiet(x)'
      BY <2>0, <3>1, <3>2 DEF Deep, Quiet, Idle, HasParallel
    <3> QED  BY <3>3, <3>4
  <2> QED  BY <2>1 DEF Deep, Off, Quiet, Idle
<1>5. ASSUME NEW b \in Leaves, Finishes(b)  PROVE Deep'
  <2>1. b \in Agents /\ Subs(b) = {}
    BY LeavesBelow
  <2> QED  BY <1>3, <1>5, <2>1 DEF Finishes
<1>6. ASSUME NEW a \in Agents, Composite(a), SettlesNow(a)  PROVE Deep'
  <2>1. Kind[a] = "parallel" => HasParallel(a)
    BY BelowFacts DEF HasParallel
  <2> QED  BY <1>3, <1>6, <2>1, ComingToAnEnd DEF SettlesNow, SettleStep
<1> QED  BY <1>1, <1>2, <1>4, <1>5, <1>6, SteadySteps DEF TreeMoves, StartsSome

LEMMA LostStays ==
  ASSUME OneRunAtATime, RunsOK, Shape, Deep,
         NEW a \in Agents, NEW C \in SUBSET Agents, Composite(a), StartStep(a, C), StartsAt(a, C),
         NEW z \in Lost
  PROVE  z \in Lost' \/ Idle(z)'
<1>0. PICK r \in Agents : \E t \in run[r].tried \ {run[r].target} : Kind[r] = "routed" /\ z \in Below(t)
  BY LostFacts
<1>1. PICK t \in run[r].tried \ {run[r].target} : Kind[r] = "routed" /\ z \in Below(t)
  BY <1>0
<1>2. CASE r = a
  <2>1. ~Listed(a) /\ Kind[a] # "parallel"
    BY <1>1, <1>2 DEF Listed
  <2>2. t \in run'[r].tried \ {run'[r].target}
    BY <1>1, <1>2 DEF StartsAt
  <2> QED  BY <1>1, <2>2, LostFacts
<1>3. CASE r \in C
  <2>1. t \in Subs(r) /\ t \in Agents /\ r \in Subs(a)
    BY <1>1, <1>3, NotItself DEF Shape, Places, StartStep
  <2>2. z \in Below(r) /\ z # r /\ z # a /\ z \in Agents
    BY <1>1, <2>1, BelowFacts, BelowBelow, NoCycle
  <2>3. Idle(z)
    <3>1. Idle(r) /\ (run[r].st # "off" => Again(a))
      BY <1>3, StartsFacts
    <3>2. Again(a) => Again(r)
      BY <2>1, BelowFacts DEF Again
    <3>3. Again(r) => ~HasParallel(r)
      BY <1>1 DEF Again, OneRunAtATime
    <3> QED  BY <2>2, <3>1, <3>2, <3>3 DEF Deep, Off, Quiet, Idle
  <2>4. z \notin C
    <3>1. ASSUME z \in C  PROVE FALSE
      <4>1. z \in Subs(a)
        BY <3>1 DEF StartStep
      <4> QED  BY <2>1, <2>2, <4>1, SiblingsApart, BelowFacts
    <3> QED  BY <3>1
  <2> QED  BY <2>2, <2>3, <2>4 DEF StartStep, OnlyRuns, Idle
<1>4. CASE r # a /\ r \notin C
  <2>1. run'[r] = run[r]
    BY <1>4 DEF StartStep, OnlyRuns
  <2> QED  BY <1>1, <2>1, LostFacts
<1> QED  BY <1>2, <1>3, <1>4

LEMMA CalmLosesNothing ==
  ASSUME Calm, NEW z
  PROVE  z \in Lost <=> z \in Lost'
<1>1. \A r \in Agents : Kind[r] = "routed" => run'[r].tried = run[r].tried /\ run'[r].target = run[r].target
  BY DEF Calm, KeepsPlace, Leaves
<1> QED  BY <1>1, LostFacts

LEMMA AllOverStep ==
  ASSUME OneRunAtATime, RunsOK, Shape, Deep, AllOver, [TreeNext]_treeVars
  PROVE  AllOver'
<1>1. /\ Holding
      /\ \/ \E b \in Leaves : Emits(b) \/ Finishes(b)
         \/ \E a \in Agents \ Leaves : TreeMoves(a)
         \/ Takes \/ Asks \/ Parts
  BY StepKinds DEF Shape
<1>2. CASE Steady
  <2>1. Calm
    BY <1>2 DEF Steady
  <2>2. \A x \in Agents : (Idle(x)' => run'[x] = run[x] /\ Idle(x)) /\ (Idle(x) => Idle(x)')
    BY <1>2 DEF Steady, Calm, Idle
  <2>3. \A x \in Agents : run'[x].st = "ended" => run[x].st = "ended"
    BY <2>2 DEF Idle
  <2> QED  BY <2>1, <2>2, <2>3, CalmLosesNothing, BelowFacts DEF AllOver
<1>3. ASSUME NEW a \in Agents, OnlyRuns({a}), Asked(a), Calm, Idle(a)',
             run'[a].st = "ended" => \A y \in Below(a) : y = a \/ Idle(y) \/ y \in Lost
      PROVE  AllOver'
  <2>1. \A x \in Agents \ {a} : run'[x] = run[x]
    BY <1>3 DEF OnlyRuns
  <2>2. \A x \in Agents : Idle(x) => Idle(x)'
    BY <1>3, <2>1 DEF Asked, Idle
  <2> QED  BY <1>3, <2>1, <2>2, CalmLosesNothing, BelowFacts DEF AllOver
<1>4. ASSUME NEW b \in Leaves, Finishes(b)  PROVE AllOver'
  <2>1. Calm /\ b \in Agents /\ Below(b) = {b} /\ Idle(b)'
    BY <1>1, <1>4, CalmSteps, LeavesBelow DEF Finishes, Idle
  <2> QED  BY <1>3, <1>4, <2>1 DEF Finishes
<1>5. ASSUME NEW a \in Agents \ Leaves, Composite(a), SettlesNow(a)  PROVE AllOver'
  <2>1. Calm /\ OnlyRuns({a}) /\ Asked(a) /\ Idle(a)'
    BY <1>1, <1>5, CalmSteps DEF SettlesNow, SettleStep, Idle
  <2>2. ASSUME run'[a].st = "ended", NEW y \in Below(a), y # a  PROVE Idle(y) \/ y \in Lost
    <3>1. PICK c \in Subs(a) : y \in Below(c)
      BY <2>2, BelowChild
    <3>2. c \in Agents /\ Idle(c)
      BY <1>5, <2>2, NotItself, ComingToAnEnd
    <3>3. HasParallel(c) => HasParallel(a)
      BY <3>2, BelowFacts, BelowBelow DEF HasParallel
    <3>4. CASE run[c].st = "off"
      BY <3>1, <3>2, <3>4 DEF Deep, Off, Idle
    <3>5. CASE run[c].st = "ended"
      BY <3>1, <3>2, <3>5 DEF AllOver
    <3>6. CASE run[c].st = "threw" /\ ~HasParallel(c)
      BY <3>1, <3>2, <3>6 DEF Deep, Quiet
    <3>7. CASE run[c].st = "threw" /\ HasParallel(c)
      <4>1. Kind[a] = "routed"
        BY <1>5, <2>2, <3>3, <3>7, ComingToAnEnd DEF Composite
      <4>2. ~Again(a)
        BY <3>3, <3>7, <4>1 DEF Again, OneRunAtATime
      <4>3. c \in run[a].tried
        BY <3>2, <3>7, <4>1, <4>2 DEF Shape, Fresh
      <4>4. run[run[a].target].st = "ended"
        BY <1>5, <2>2, <4>1 DEF SettlesNow, SettlesAt
      <4>5. c # run[a].target
        BY <3>7, <4>4
      <4> QED  BY <3>1, <4>1, <4>3, <4>5, LostFacts
    <3> QED  BY <3>2, <3>4, <3>5, <3>6, <3>7 DEF Idle
  <2> QED  BY <1>3, <2>1, <2>2
<1>6. ASSUME NEW a \in Agents, NEW C \in SUBSET Agents, Composite(a), StartStep(a, C), StartsAt(a, C)
      PROVE  AllOver'
  <2> SUFFICES ASSUME NEW x \in Agents, run'[x].st = "ended", NEW y \in Below(x)
               PROVE  Idle(y)' \/ y \in Lost'
    BY DEF AllOver
  <2>1. /\ ~Idle(a) /\ run'[a].st = "asked"
        /\ \A c \in C : run'[c].st = "asked" /\ c \in Subs(a)
        /\ \A v \in Agents \ (C \cup {a}) : run'[v] = run[v]
    BY <1>6, StartedFacts DEF StartStep, Asked, Idle, OnlyRuns
  <2>2. run[x].st = "ended" /\ x \notin C /\ y \in Agents
    BY <2>1, BelowFacts
  <2>3. Idle(y) \/ y \in Lost
    BY <2>2 DEF AllOver
  <2>4. CASE y \in Lost
    BY <1>6, <2>4, LostStays
  <2>5. CASE Idle(y) /\ y \notin C
    BY <2>1, <2>2, <2>5 DEF Idle
  <2>6. CASE y \in C
    <3>1. a \in Below(x)
      BY <2>1, <2>2, <2>6, ParentBelow
    <3>2. a \in Lost
      BY <2>1, <2>2, <3>1 DEF AllOver
    <3>3. y \in Lost
      <4>0. PICK r \in Agents : \E t \in run[r].tried \ {run[r].target} : Kind[r] = "routed" /\ a \in Below(t)
        BY <3>2, LostFacts
      <4>1. PICK t \in run[r].tried \ {run[r].target} : Kind[r] = "routed" /\ a \in Below(t)
        BY <4>0
      <4>2. t \in Agents
        BY <4>1, NotItself DEF Shape, Places
      <4>3. y \in Below(t)
        BY <2>1, <2>6, <4>1, <4>2, BelowFacts
      <4> QED  BY <4>1, <4>3, LostFacts
    <3>4. ~Idle(y)'
      BY <2>1, <2>6 DEF Idle
    <3> QED  BY <1>6, <3>3, <3>4, LostStays
  <2> QED  BY <2>3, <2>4, <2>5, <2>6
<1> QED  BY <1>1, <1>2, <1>4, <1>5, <1>6, SteadySteps DEF TreeMoves, StartsSome

---------------------------------------------------------------------------
(* Escalation                                                              *)

\* A loop that passed on an event that escalates is at the sub-agent that
\* yielded it, or has noted that it shall end.
Leaving(a) ==
  Kind[a] = "loop" /\ run[a].escalated =>
    /\ run[a].pos > 0
    /\ run[a].shouldExit \/ (run[SubAt(a)].st = "held" /\ run[SubAt(a)].event.escalate)

LEMMA LoopPlace ==
  ASSUME RunsOK, NEW a \in Agents, Places(a), Kind[a] = "loop", run[a].pos > 0
  PROVE  SubAt(a) \in Subs(a) /\ SubAt(a) # a /\ SubAt(a) # Root /\ SubAt(a) \in Agents
         /\ a \notin Leaves
<1>1. run[a].pos \in DOMAIN SubAgents[a]
  BY TreeRunFacts, SubsFacts DEF Places, Listed
<1>2. SubAt(a) \in Subs(a)
  BY <1>1, SubsFacts DEF SubAt
<1> QED  BY <1>2, SubsFacts, NotItself DEF Leaves

\* Such a loop does not start anything.
LEMMA NothingStarts ==
  ASSUME NEW a \in Agents, Leaving(a), Kind[a] = "loop", NEW C, StartsAt(a, C)
  PROVE  ~run[a].escalated
BY DEF Leaving, StartsAt, Listed

LEMMA LeavingStep ==
  ASSUME RunsOK, Holding, \A a \in Agents : Places(a) /\ Leaving(a), [TreeNext]_treeVars,
         NEW a \in Agents, Kind[a] = "loop"
  PROVE  /\ Leaving(a)'
         /\ run[a].escalated /\ run'[a].escalated =>
              run'[a].pos = run[a].pos /\ run'[a].iteration = run[a].iteration
<1> DEFINE Stays == run[a].escalated /\ run'[a].escalated =>
                      run'[a].pos = run[a].pos /\ run'[a].iteration = run[a].iteration
           Good == Leaving(a)' /\ Stays
<1> SUFFICES Good
  OBVIOUS
<1>0. a \notin Leaves /\ Root \in Agents /\ Leaving(a) /\ Places(a) /\ run[a].pos \in Nat
      /\ run[a].escalated \in BOOLEAN
  BY TreeRunFacts, TreeAssumption DEF Leaves
<1>1. ASSUME KeepsPlace(a), KeepsFlags(a),
             run[a].escalated /\ run[a].pos > 0 /\ run[SubAt(a)].st = "held" =>
               run'[SubAt(a)].st = "held" /\ run'[SubAt(a)].event = run[SubAt(a)].event
      PROVE  Good
  <2>1. SubAt(a)' = SubAt(a)
    BY <1>1 DEF SubAt, KeepsPlace
  <2> QED  BY <1>0, <1>1, <2>1 DEF Leaving, KeepsPlace, KeepsFlags
<1>2. ASSUME NEW x \in Agents, NEW y \in Agents, \A z \in Agents \ {x, y} : run'[z] = run[z],
             a # x, a # y \/ (KeepsPlace(a) /\ KeepsFlags(a)),
             Asked(x), run[y].st # "held" \/ y \notin Subs(a)
      PROVE  Good
  <2>1. KeepsPlace(a) /\ KeepsFlags(a)
    BY <1>2 DEF KeepsPlace, KeepsFlags
  <2>2. ASSUME run[a].pos > 0, run[SubAt(a)].st = "held"  PROVE run'[SubAt(a)] = run[SubAt(a)]
    <3>1. SubAt(a) \in Subs(a) /\ SubAt(a) \in Agents
      BY <1>0, <2>2, LoopPlace
    <3>2. SubAt(a) # x /\ SubAt(a) # y
      BY <1>2, <2>2, <3>1 DEF Asked
    <3> QED  BY <1>2, <3>1, <3>2
  <2> QED  BY <1>1, <2>1, <2>2
<1>3. ASSUME NEW b \in Leaves, Emits(b) \/ Finishes(b)  PROVE Good
  <2>1. b \in Agents /\ a # b /\ Asked(b) /\ run[b].st # "held" /\ \A z \in Agents \ {b} : run'[z] = run[z]
    BY <1>0, <1>3, LeavesBelow DEF Emits, Finishes, OnlyRuns, Asked
  <2> HIDE DEF Good
  <2> QED  BY <1>2, <2>1
<1>4. ASSUME NEW p \in Agents, NEW C \in SUBSET Agents, StartStep(p, C), StartsAt(p, C)  PROVE Good
  <2>1. CASE a = p
    <3>1. ~run[a].escalated
      BY <1>0, <1>4, <2>1, NothingStarts
    <3> QED  BY <1>4, <2>1, <3>1 DEF Leaving, StartStep
  <2>2. CASE a \in C
    BY <1>4, <2>2, StartedFacts DEF Leaving, StartStep
  <2>3. CASE a # p /\ a \notin C
    <3>1. run'[a] = run[a]
      BY <1>4, <2>3 DEF StartStep, OnlyRuns
    <3>2. ASSUME run[a].pos > 0, run[SubAt(a)].st = "held"  PROVE run'[SubAt(a)] = run[SubAt(a)]
      <4>1. SubAt(a) \in Subs(a)
        BY <1>0, <3>2, LoopPlace
      <4>2. SubAt(a) # p
        BY <1>4, <3>2 DEF StartStep, Asked
      <4> QED  BY <1>4, <2>3, <4>1, <4>2, StartsOnly
    <3> QED  BY <1>1, <3>1, <3>2 DEF KeepsPlace, KeepsFlags
  <2> QED  BY <2>1, <2>2, <2>3
<1>5. ASSUME NEW p \in Agents, NEW c \in Agents, PassStep(p, c), GoesAt(p, c)  PROVE Good
  <2>0. c \in Subs(p) /\ c # p /\ \A z \in Agents \ {p, c} : run'[z] = run[z]
    BY <1>5, NotItself DEF PassStep, OnlyRuns
  <2>1. CASE a = p
    <3>1. run[a].pos > 0 /\ c = SubAt(a) /\ SubAt(a)' = SubAt(a)
      BY <1>5, <2>1 DEF GoesAt, Listed, PassStep, KeepsPlace, SubAt
    <3>2. run[c].st = "ready" /\ run'[c].st = "held" /\ run'[c].event = run[c].event
          /\ run'[a].escalated = (run[a].escalated \/ run[c].event.escalate)
          /\ run'[a].shouldExit = run[a].shouldExit /\ run'[a].pos = run[a].pos
          /\ run'[a].iteration = run[a].iteration
      BY <1>5, <2>1 DEF PassStep, KeepsPlace
    <3> QED  BY <1>0, <3>1, <3>2 DEF Leaving
  <2>2. CASE a # p
    <3>1. Asked(p) /\ run[c].st # "held" /\ (a = c => KeepsPlace(a) /\ KeepsFlags(a))
      BY <1>5 DEF PassStep
    <3> HIDE DEF Good
    <3> QED  BY <1>2, <2>0, <2>2, <3>1
  <2> QED  BY <2>1, <2>2
<1>6. ASSUME NEW p \in Agents, NEW c \in Agents, AskStep(p, c), GoesAt(p, c)  PROVE Good
  <2>0. c \in Subs(p) /\ c # p /\ \A z \in Agents \ {p, c} : run'[z] = run[z]
    BY <1>6, NotItself DEF AskStep, OnlyRuns
  <2>1. CASE a = p
    <3>1. run[a].pos > 0 /\ c = SubAt(a)
      BY <1>6, <2>1 DEF GoesAt, Listed
    <3>2. run'[a].escalated = run[a].escalated /\ run'[a].pos = run[a].pos
          /\ run'[a].iteration = run[a].iteration
          /\ run'[a].shouldExit = (run[a].shouldExit \/ run[c].event.escalate)
      BY <1>6, <2>1 DEF AskStep, KeepsPlace
    <3> QED  BY <1>0, <3>1, <3>2 DEF Leaving
  <2>2. CASE a # p
    <3>1. Asked(p) /\ c \notin Subs(a) /\ (a = c => KeepsPlace(a) /\ KeepsFlags(a))
      BY <1>6, <2>0, <2>2, OneParent DEF AskStep
    <3> HIDE DEF Good
    <3> QED  BY <1>2, <2>0, <2>2, <3>1
  <2> QED  BY <2>1, <2>2
<1>7. ASSUME NEW p \in Agents, SettleStep(p)  PROVE Good
  <2>0. Asked(p) /\ KeepsPlace(p) /\ KeepsFlags(p) /\ \A z \in Agents \ {p} : run'[z] = run[z]
    BY <1>7 DEF SettleStep, OnlyRuns
  <2>1. CASE a = p
    <3>1. ASSUME run[a].pos > 0  PROVE run'[SubAt(a)] = run[SubAt(a)]
      <4>1. SubAt(a) \in Agents /\ SubAt(a) # a
        BY <1>0, <3>1, LoopPlace
      <4> QED  BY <2>0, <2>1, <4>1
    <3> HIDE DEF Good
    <3> QED  BY <1>1, <2>0, <2>1, <3>1
  <2>2. CASE a # p
    <3> HIDE DEF Good
    <3> QED  BY <1>2, <2>0, <2>2 DEF Asked
  <2> QED  BY <2>1, <2>2
<1>8. CASE Takes \/ Asks \/ Parts
  <2>1. KeepsPlace(a) /\ KeepsFlags(a)
    BY <1>8 DEF Takes, Asks, Parts, KeepsPlace, KeepsFlags
  <2>2. ASSUME run[a].pos > 0  PROVE run'[SubAt(a)] = run[SubAt(a)]
    <3>1. SubAt(a) \in Agents /\ SubAt(a) # Root
      BY <1>0, <2>2, LoopPlace
    <3> QED  BY <1>8, <3>1 DEF Takes, Asks, Parts
  <2> HIDE DEF Good
  <2> QED  BY <1>1, <2>1, <2>2
<1> HIDE DEF Good
<1>9. ASSUME NEW p \in Agents \ Leaves, TreeMoves(p)  PROVE Good
  BY <1>4, <1>5, <1>6, <1>7, <1>9 DEF TreeMoves, StartsSome, PassesSome, AsksSome, SettlesNow
<1> QED  BY <1>3, <1>8, <1>9, StepKinds

---------------------------------------------------------------------------
(* The theorems about the tree                                             *)

TreeIInv == TreeTypeOK /\ Shape /\ Path /\ Heard /\ Deep /\ AllOver
LoopIInv == RunsOK /\ Holding /\ \A a \in Agents : Places(a) /\ Leaving(a)

LEMMA TreeStarts == TreeInit => TreeIInv /\ LoopIInv
<1> SUFFICES ASSUME TreeInit  PROVE TreeIInv /\ LoopIInv
  OBVIOUS
<1>0. /\ Root \in Agents /\ Below(Root) = Agents /\ \A a \in Agents : Root \notin Subs(a)
      /\ runner = "asking" /\ unheard = [a \in Leaves |-> 0]
  BY TreeAssumption, SubsFacts DEF TreeInit
<1>1. \A a \in Agents : [Started(a) EXCEPT !.st = "off"] \in Run /\ Started(a) \in Run
  BY DEF Started, Run
<1>2. run \in [Agents -> Run]
  BY <1>0, <1>1 DEF TreeInit
<1>3. \A a \in Agents : /\ run[a].st = (IF a = Root THEN "asked" ELSE "off")
                        /\ run[a].pos = 0 /\ run[a].tried = {} /\ ~run[a].escalated
                        /\ run[a].target = a
  BY <1>0 DEF TreeInit, Started
<1>4. TreeTypeOK /\ RunsOK
  BY <1>0, <1>2 DEF TreeTypeOK, RunsOK
<1>5. Holding
  BY <1>0 DEF Holding
<1>6. \A a \in Agents : /\ Subs(a) \subseteq Agents \ {Root} /\ Len(SubAgents[a]) \in Nat
                        /\ \A i \in DOMAIN SubAgents[a] : SubAgents[a][i] \in Subs(a)
  BY <1>0, SubsFacts, NotItself
<1>7. \A a \in Agents : \A c \in Subs(a) : Idle(c) /\ run[c].st = "off"
  BY <1>3, <1>6 DEF Idle
<1>8. ASSUME NEW a \in Agents  PROVE Places(a) /\ AtPlace(a) /\ LeavesIdle(a) /\ Fresh(a) /\ Stuck(a)
  <2>1. Places(a)
    BY <1>3, <1>6 DEF Places
  <2>2. AtPlace(a) /\ LeavesIdle(a) /\ Stuck(a)
    BY <1>6, <1>7 DEF AtPlace, LeavesIdle, Stuck
  <2>3. Fresh(a)
    BY <1>6, <1>7 DEF Fresh
  <2> QED  BY <2>1, <2>2, <2>3
<1>9. Path /\ Heard
  <2>1. \A a \in Agents : run[a].st \in {"asked", "off"}
    BY <1>3
  <2>2. \A b \in Leaves : unheard[b] = 0
    BY <1>0
  <2> QED  BY <1>0, <1>7, <2>1, <2>2
           DEF Path, Heard, Yielded, HeardLeaf, HeardAt, HeardBelow, HeardAbove
<1>10. Deep /\ AllOver
  <2>1. \A x \in Agents : Idle(x) => x # Root
    BY <1>3 DEF Idle
  <2>2. \A x \in Agents : run[x].st \in {"asked", "off"}
    BY <1>3
  <2>3. \A x \in Agents : \A y \in Below(x) : x # Root => y # Root /\ y \in Agents
    <3> SUFFICES ASSUME NEW x \in Agents, x # Root, Root \in Below(x)  PROVE FALSE
      BY BelowFacts
    <3>1. PICK p \in Agents : x \in Subs(p)
      BY TreeAssumption
    <3>2. p \in Below(x)
      BY <1>0, <3>1, BelowBelow
    <3> QED  BY <3>1, <3>2, NoCycle
  <2>4. \A x \in Agents : x # Root => \A y \in Below(x) : run[y].st = "off" /\ Idle(y)
    BY <1>3, <2>3 DEF Idle
  <2> QED  BY <1>3, <2>1, <2>2, <2>4 DEF Deep, Off, Quiet, AllOver
<1>11. \A a \in Agents : Leaving(a)
  BY <1>3 DEF Leaving
<1> QED  BY <1>4, <1>5, <1>8, <1>9, <1>10, <1>11 DEF TreeIInv, LoopIInv, Shape

LEMMA TreeSteps ==
  ASSUME OneRunAtATime, TreeIInv, [TreeNext]_treeVars
  PROVE  TreeIInv'
<1>1. RunsOK
  BY DEF TreeIInv, TreeTypeOK, RunsOK
<1>2. Shape'
  BY <1>1, ShapeStep DEF TreeIInv
<1>3. Path'
  BY <1>1, PathStep DEF TreeIInv
<1>4. Heard' /\ TreeTypeOK'
  BY HeardStep DEF TreeIInv
<1>5. Deep' /\ AllOver'
  BY <1>1, DeepStep, AllOverStep DEF TreeIInv
<1> QED  BY <1>2, <1>3, <1>4, <1>5 DEF TreeIInv

LEMMA LoopSteps ==
  ASSUME LoopIInv, [TreeNext]_treeVars
  PROVE  LoopIInv'
<1>1. RunsOK /\ Holding /\ \A a \in Agents : Places(a) /\ Leaving(a)
  BY DEF LoopIInv
<1>2. /\ run' \in [Agents -> Run] /\ runner' \in {"asking", "holding", "gone", "done"}
      /\ \/ \E b \in Leaves : Emits(b) \/ Finishes(b)
         \/ \E a \in Agents \ Leaves : TreeMoves(a)
         \/ Takes \/ Asks \/ Parts
  BY <1>1, StepKinds
<1>3. RunsOK' /\ Holding'
  BY <1>1, <1>2, HoldingStays DEF RunsOK
<1>4. \A a \in Agents : Places(a)'
  BY <1>1, PlacesStep
<1>5. ASSUME NEW a \in Agents  PROVE Leaving(a)'
  <2>1. CASE Kind[a] = "loop"
    BY <1>1, <2>1, LeavingStep
  <2>2. CASE Kind[a] # "loop"
    BY <2>2 DEF Leaving
  <2> QED  BY <2>1, <2>2
<1> QED  BY <1>3, <1>4, <1>5 DEF LoopIInv

LEMMA TreeInvariant == TreeSpec => [](OneRunAtATime => TreeIInv)
<1>1. TreeInit => (OneRunAtATime => TreeIInv)
  BY TreeStarts
<1>2. (OneRunAtATime => TreeIInv) /\ [TreeNext]_treeVars => (OneRunAtATime => TreeIInv)'
  BY TreeSteps DEF OneRunAtATime, HasParallel
<1> QED  BY <1>1, <1>2, PTL DEF TreeSpec

LEMMA LoopInvariant == TreeSpec => []LoopIInv
BY TreeStarts, LoopSteps, PTL DEF TreeSpec

\* The generators keep their types whatever the tree: in particular no event
\* is counted as given to the runner that no leaf yielded to it.
THEOREM TreeTypeCorrect == TreeSpec => [](OneRunAtATime => TreeTypeOK)
<1>1. TreeIInv => TreeTypeOK
  BY DEF TreeIInv
<1> QED  BY <1>1, TreeInvariant, PTL

\* runAsync of BaseAgent and of the composite agents: a leaf is asked again
\* only when the runner is done with the last event the leaf yielded.
THEOREM NobodyRunsAhead == TreeSpec => [](OneRunAtATime => NoRunAhead)
<1>1. TreeIInv => NoRunAhead
  <2> SUFFICES ASSUME TreeIInv, NEW a \in Leaves, Asked(a)
               PROVE  unheard[a] = 0 /\ ~(runner = "holding" /\ run[Root].event.by = a)
    BY DEF NoRunAhead
  <2>1. unheard[a] = 0
    BY DEF TreeIInv, Heard, HeardLeaf, Yielded, Asked
  <2>2. ASSUME runner = "holding", run[Root].event.by = a  PROVE FALSE
    <3>1. Root \in Agents /\ Yielded(Root)
      BY <2>2, TreeAssumption DEF TreeIInv, Shape, Holding, Yielded
    <3>2. Yielded(a)
      BY <2>2, <3>1, ByFacts DEF TreeIInv
    <3> QED  BY <3>2 DEF Yielded, Asked
  <2> QED  BY <2>1, <2>2
<1> QED  BY <1>1, TreeInvariant, PTL

\* The merge of ParallelAgent, and the routing of RoutedAgent: when the root has
\* ended, no event a leaf yielded is waiting for the runner, except below a
\* target that another one took the place of.
THEOREM EveryEventIsHeard == TreeSpec => [](OneRunAtATime => NothingIsLost)
<1>1. TreeIInv => NothingIsLost
  <2> SUFFICES ASSUME TreeIInv, run[Root].st = "ended", NEW a \in Leaves
               PROVE  unheard[a] = 0 \/ \E t \in Replaced : a \in Below(t)
    BY DEF NothingIsLost
  <2>1. Root \in Agents /\ a \in Below(Root)
    BY TreeAssumption, LeavesBelow
  <2>2. Idle(a) \/ a \in Lost
    BY <2>1 DEF TreeIInv, AllOver
  <2>3. Idle(a) => unheard[a] = 0
    BY DEF TreeIInv, Heard, HeardLeaf, Yielded, Idle
  <2> QED  BY <2>2, <2>3 DEF Lost
<1> QED  BY <1>1, TreeInvariant, PTL

\* runAsyncImpl of LoopAgent: an event that escalates ends the run of the loop
\* that passes it on, whatever tree the loop is in.
THEOREM EscalationEndsTheLoop == TreeSpec => EscalationLeavesTheLoop
<1> DEFINE A == \A a \in Agents :
                  Kind[a] = "loop" /\ run[a].escalated /\ run'[a].escalated
                    => /\ run'[a].pos = run[a].pos
                       /\ run'[a].iteration = run[a].iteration
<1>1. LoopIInv /\ [TreeNext]_treeVars => [A]_treeVars
  BY LeavingStep DEF LoopIInv
<1> QED  BY <1>1, LoopInvariant, PTL DEF TreeSpec, EscalationLeavesTheLoop
=============================================================================
