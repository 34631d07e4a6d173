-------------------------- MODULE DynamicNodesProofs --------------------------
(***************************************************************************)
(* Why a worker over the items of its input does each of them once: while  *)
(* a turn lasts, what the session has of an item agrees with how its run   *)
(* stands, and the pool has claimed every item up to the next.             *)
(*                                                                         *)
(* The theorems about what is asked hold of a client that answers all the  *)
(* open questions at once; with one that does not, an item that is still   *)
(* asked is executed again, by design.                                     *)
(***************************************************************************)
EXTENDS DynamicNodes, TLAPS, FiniteSetTheorems

\* The pool only works while the worker runs, on items it has claimed.
Pooled ==
  /\ phase # "running" => busy = {}
  /\ \A i \in busy : i < next /\ runs[i].is # "none"

\* What the session has of an item, and how its run stands, is of the run in
\* progress.
OfThisRun ==
  /\ origin <= input
  /\ phase # "off" => 0 < input
  /\ \A i \in Item : /\ out[i] # 0 => out[i] \in origin..input
                     /\ runs[i].is # "none" => runs[i].of \in origin..input
                     /\ runs[i].is = "task" => runs[i].of = input
  /\ (\E i \in Item : asked[i] > 0) => 0 < input

AccountedFor(i) ==
  \/ runs[i].is \in {"completed", "booked"} /\ results[i] \in {i} \X (origin..input)
  \/ runs[i].is = "asked" /\ <<i, asked[i]>> \in reported
  \/ runs[i].is = "failed" /\ failed
\* Every item the pool is done with has its result, failed or asked.
Collected ==
  phase = "running" =>
    /\ \A i \in Item : i < next /\ i \notin busy => AccountedFor(i)
    /\ reported \subseteq {<<i, asked[i]>> : i \in {j \in Item : runs[j].is = "asked"}}
    /\ next <= Items => busy # {} \/ failed \/ reported # {} \/ aborted
    /\ \A i \in Item : runs[i].is \in {"asked", "failed"} => i < next

\* The worker came to its end as its items did.
Concluded ==
  /\ phase \in {"triggered", "list"} =>
       \A i \in Item : runs[i].is \in {"none", "completed", "booked"}
  /\ phase = "list" => \A i \in Item : results[i] \in {i} \X (origin..input)
  /\ phase = "asked" => /\ \A i \in Item : runs[i].is # "failed"
                        /\ reported = {<<i, asked[i]>> : i \in {j \in Item : runs[j].is = "asked"}}

Worked == TypeOK /\ Pooled /\ OfThisRun /\ Collected /\ Concluded

\* A client that answers every question leaves none open but those of the turn.
Asking(i) == runs[i].is = "asked"
Answering ==
  /\ cut => aborted
  /\ \A i \in Item : answered[i] \subseteq 1..asked[i]
  /\ phase # "off" =>
       \A i \in Item :
         /\ \/ AllAnswered(i)
            \/ Asking(i) /\ asked[i] > 0 /\ answered[i] = 1..(asked[i] - 1)
         /\ ~cut /\ Asking(i) => ~AllAnswered(i)
\* An item is executed when the session has nothing of it to go on.
Executed ==
  \A i \in Item :
    /\ out[i] = 0 <=> made[i] = 0
    /\ made[i] <= 1
    /\ runs[i].is = "task" => out[i] = 0 /\ (~rerun => asked[i] = 0)

---------------------------------------------------------------------------
(* The pool                                                                *)

\* The first claims are the first items, as many as the pool is wide.
LEMMA ClaimFacts ==
  /\ FirstClaims \subseteq Item /\ IsFiniteSet(FirstClaims)
  /\ Cardinality(FirstClaims) \in Nat /\ Cardinality(FirstClaims) <= Pool
  /\ \A i \in Item : i \in FirstClaims <=> i < Cardinality(FirstClaims) + 1
  /\ Cardinality(FirstClaims) + 1 <= Items => FirstClaims # {}
<1> DEFINE n == IF Items <= Pool THEN Items ELSE Pool
<1>1. n \in Nat /\ n <= Pool /\ FirstClaims = 1..n
  BY DynamicNodesAssumption DEF FirstClaims, Item
<1> HIDE DEF n
<1>2. IsFiniteSet(1..n) /\ Cardinality(1..n) = n BY <1>1, FS_Interval
<1>3. n + 1 <= Items => n # 0 BY DynamicNodesAssumption DEF n
<1>4. FirstClaims \subseteq Item BY DEF FirstClaims
<1>5. \A i \in Item : i \in FirstClaims <=> i < n + 1
  BY <1>1, DynamicNodesAssumption DEF Item
<1>6. Cardinality(FirstClaims) = n BY <1>1, <1>2
<1>7. n + 1 <= Items => 1 \in FirstClaims BY <1>1, <1>3
<1> QED BY <1>1, <1>2, <1>4, <1>5, <1>6, <1>7

\* Taking an item off the pool and putting another in its place.
LEMMA BusyFacts ==
  ASSUME TypeOK, NEW i \in busy
  PROVE  /\ Cardinality(busy \ {i}) <= Pool
         /\ \A j : Cardinality((busy \ {i}) \cup {j}) <= Pool
<1>1. IsFiniteSet(Item)
  BY FS_Interval, DynamicNodesAssumption DEF Item
<1>2. IsFiniteSet(busy) /\ Cardinality(busy) <= Pool BY <1>1, FS_Subset DEF TypeOK
<1>3. IsFiniteSet(busy \ {i}) /\ Cardinality(busy \ {i}) = Cardinality(busy) - 1
  BY <1>2, FS_RemoveElement
<1>4. Cardinality(busy) \in Nat /\ Cardinality(busy \ {i}) \in Nat
  BY <1>2, <1>3, FS_CardinalityType
<1>5. ASSUME NEW j PROVE Cardinality((busy \ {i}) \cup {j}) <= Pool
  <2>1. Cardinality((busy \ {i}) \cup {j}) =
          IF j \in busy \ {i} THEN Cardinality(busy \ {i}) ELSE Cardinality(busy \ {i}) + 1
    BY <1>3, FS_AddElement
  <2> QED BY <1>2, <1>3, <1>4, <2>1, DynamicNodesAssumption
<1> QED BY <1>2, <1>3, <1>4, <1>5, DynamicNodesAssumption

\* An item that is scheduled joins its run, or is booked, or is executed on the
\* input at hand.
LEMMA ScheduledFacts ==
  ASSUME TypeOK, OfThisRun, NEW i \in Item, runs[i].is # "task"
  PROVE  /\ Scheduled(i) \in Run /\ Scheduled(i).is # "none"
         /\ Scheduled(i).of \in origin..input
         /\ Scheduled(i).is = "task" =>
              /\ Scheduled(i).of = input /\ runs[i].is = "none"
              /\ ~FastForwardable(i) /\ ~HandedOver(i)
         /\ Scheduled(i).is \in {"asked", "failed"} => runs[i].is = Scheduled(i).is
         /\ runs[i].is # "none" => Scheduled(i) = runs[i]
<1>1. /\ runs[i] \in Run /\ out[i] \in Nat /\ input \in Nat /\ origin \in Nat
      /\ origin <= input /\ input \in origin..input
  BY DynamicNodesAssumption DEF TypeOK, OfThisRun
<1>2. CASE runs[i].is # "none" BY <1>1, <1>2 DEF Scheduled, OfThisRun
<1>3. CASE runs[i].is = "none" /\ FastForwardable(i)
  <2>1. Scheduled(i) = [is |-> "booked", of |-> out[i]] BY <1>3 DEF Scheduled
  <2>2. out[i] \in origin..input BY <1>3 DEF FastForwardable, OfThisRun
  <2> QED BY <1>1, <1>3, <2>1, <2>2 DEF Run
<1>4. CASE runs[i].is = "none" /\ ~FastForwardable(i) /\ HandedOver(i)
  <2>1. Scheduled(i) = [is |-> "booked", of |-> input] BY <1>4 DEF Scheduled
  <2> QED BY <1>1, <1>4, <2>1 DEF Run
<1>5. CASE runs[i].is = "none" /\ ~FastForwardable(i) /\ ~HandedOver(i)
  <2>1. Scheduled(i) = [is |-> "task", of |-> input] BY <1>5 DEF Scheduled
  <2> QED BY <1>1, <1>5, <2>1 DEF Run
<1> QED BY <1>2, <1>3, <1>4, <1>5

---------------------------------------------------------------------------
(* What the pool is done with is accounted for                             *)

LEMMA ActivateWorked == ASSUME Worked, Activate PROVE Worked'
<1>1. /\ phase = "triggered" /\ phase' = "running"
      /\ busy' = IF aborted THEN {} ELSE FirstClaims
      /\ next' = Cardinality(busy') + 1
      /\ runs' = [i \in Item |-> IF i \in busy' THEN Scheduled(i) ELSE runs[i]]
      /\ results' = [i \in Item |-> Hole] /\ failed' = FALSE /\ reported' = {}
      /\ UNCHANGED <<turnVars, aborted, cut, sessionVars>>
  BY DEF Activate, Schedule
<1>2. /\ busy' \subseteq Item /\ IsFiniteSet(busy') /\ Cardinality(busy') \in Nat
      /\ Cardinality(busy') <= Pool
      /\ \A i \in Item : i \in busy' <=> i < next'
      /\ next' <= Items => busy' # {} \/ aborted
  <2>1. CASE aborted
    <3>1. busy' = {} /\ Cardinality(busy') = 0 /\ next' = 1 BY <1>1, <2>1, FS_EmptySet
    <3> QED BY <2>1, <3>1, FS_EmptySet, DynamicNodesAssumption DEF Item
  <2>2. CASE ~aborted BY <1>1, <2>2, ClaimFacts
  <2> QED BY <2>1, <2>2
<1>3. \A i \in Item : runs[i].is \in {"none", "completed", "booked"}
  BY <1>1 DEF Worked, Concluded
<1>4. /\ runs' \in [Item -> Run]
      /\ \A i \in Item : /\ runs'[i].is \notin {"asked", "failed"}
                         /\ i \in busy' => runs'[i].is # "none"
                         /\ runs'[i].is = "task" => i \in busy' /\ runs'[i].of = input
                         /\ runs'[i].is # "none" => runs'[i].of \in origin..input
  <2>1. ASSUME NEW i \in Item
        PROVE  /\ runs'[i] \in Run /\ runs'[i].is \notin {"asked", "failed"}
               /\ i \in busy' => runs'[i].is # "none"
               /\ runs'[i].is = "task" => i \in busy' /\ runs'[i].of = input
               /\ runs'[i].is # "none" => runs'[i].of \in origin..input
    <3>1. CASE i \in busy' BY <1>1, <1>3, <3>1, ScheduledFacts DEF Worked
    <3>2. CASE i \notin busy' BY <1>1, <1>3, <3>2 DEF Worked, TypeOK, OfThisRun
    <3> QED BY <3>1, <3>2
  <2> QED BY <1>1, <2>1
<1>5. TypeOK'
  <2>1. results' \in [Item -> Nat \X Nat] BY <1>1 DEF Hole
  <2>2. next' \in Nat BY <1>1, <1>2
  <2> QED BY <1>1, <1>2, <1>4, <2>1, <2>2 DEF Worked, TypeOK, turnVars, sessionVars
<1>6. Pooled' BY <1>1, <1>2, <1>4 DEF Pooled
<1>7. OfThisRun' BY <1>1, <1>4 DEF Worked, OfThisRun, turnVars, sessionVars
<1>8. Collected'
  <2>1. \A i \in Item : i < next' => i \in busy' BY <1>2
  <2> QED BY <1>1, <1>2, <1>4, <2>1 DEF Collected
<1>9. Concluded' BY <1>1 DEF Concluded
<1> QED BY <1>5, <1>6, <1>7, <1>8, <1>9 DEF Worked

\* A body that ends is one the pool awaits.
LEMMA BodyWorked == ASSUME Worked, NEW i \in Item, Body(i) PROVE Worked'
<1>1. /\ runs[i].is = "task" /\ i \in busy /\ phase = "running" /\ runs[i] \in Run
      /\ runs[i].of = input /\ input \in Nat \ {0} /\ input \in origin..input
  BY DynamicNodesAssumption
  DEF Body, Produce, EndSilently, Ask, Throw, Worked, TypeOK, Pooled, OfThisRun
<1>2. PICK how \in {"completed", "asked", "failed"} : runs' = [runs EXCEPT ![i].is = how]
  BY DEF Body, Produce, EndSilently, Ask, Throw
<1>3. /\ runs' \in [Item -> Run]
      /\ runs'[i].is = how /\ runs'[i].of = input
      /\ \A j \in Item \ {i} : runs'[j] = runs[j]
  BY <1>1, <1>2 DEF Worked, TypeOK, Run
<1>4. /\ UNCHANGED <<turnVars, phase, aborted, cut, poolVars, answered, kept>>
      /\ spoke' \in BOOLEAN /\ raised' \in BOOLEAN
  BY DEF Body, Produce, EndSilently, Ask, Throw, sessionVars, Worked, TypeOK
<1>5. /\ out' \in [Item -> Nat] /\ made' \in [Item -> Nat] /\ asked' \in [Item -> Nat]
      /\ \A j \in Item : out'[j] \in {out[j], input}
      /\ \A j \in Item \ {i} : asked'[j] = asked[j]
  <2>1. out \in [Item -> Nat] /\ made \in [Item -> Nat] /\ asked \in [Item -> Nat]
    BY DEF Worked, TypeOK
  <2>2. CASE Produce(i) BY <1>1, <2>1, <2>2 DEF Produce
  <2>3. CASE Ask(i) BY <2>1, <2>3 DEF Ask
  <2>4. CASE EndSilently(i) \/ Throw(i) BY <2>1, <2>4 DEF EndSilently, Throw, sessionVars
  <2> QED BY <2>2, <2>3, <2>4 DEF Body
<1>6. TypeOK' BY <1>1, <1>3, <1>4, <1>5 DEF Worked, TypeOK, turnVars, poolVars
<1>7. Pooled' BY <1>1, <1>3, <1>4 DEF Worked, TypeOK, Pooled, turnVars, poolVars
<1>8. OfThisRun'
  BY <1>1, <1>3, <1>4, <1>5 DEF Worked, OfThisRun, turnVars
<1>9. Collected'
  <2>1. \A j \in Item : j < next /\ j \notin busy => j # i BY <1>1
  <2>2. {<<j, asked[j]>> : j \in {k \in Item : runs[k].is = "asked"}}
          \subseteq {<<j, asked'[j]>> : j \in {k \in Item : runs'[k].is = "asked"}}
    BY <1>1, <1>3, <1>5
  <2>3. i < next BY <1>1 DEF Worked, Pooled
  <2> QED BY <1>1, <1>3, <1>4, <1>5, <2>1, <2>2, <2>3
          DEF Worked, Collected, AccountedFor, turnVars, poolVars
<1>10. Concluded' BY <1>1, <1>4 DEF Concluded
<1> QED BY <1>6, <1>7, <1>8, <1>9, <1>10 DEF Worked

\* An item that ended is accounted for, and the next one is claimed unless
\* there is a reason to stop.
LEMMA ReturnWorked == ASSUME Worked, NEW i \in Item, Return(i) PROVE Worked'
<1>1. /\ i \in busy /\ i < next /\ phase = "running" /\ phase' = "running"
      /\ runs[i] \in Run /\ runs[i].is \in {"completed", "asked", "failed", "booked"}
      /\ results' = KeepResult(i) /\ reported' = Reports(i)
      /\ failed' = (failed \/ runs[i].is = "failed")
      /\ UNCHANGED <<turnVars, aborted, cut, sessionVars>>
  BY DEF Return, Worked, Pooled, TypeOK, Run
<1> DEFINE Stops == \/ failed' \/ reported' # {} \/ aborted \/ runs[i].is = "asked"
                    \/ next > Items
<1>2. /\ Stops => busy' = busy \ {i} /\ UNCHANGED <<runs, next>>
      /\ ~Stops => /\ busy' = (busy \ {i}) \cup {next}
                   /\ Schedule({next})
                   /\ next' = next + 1
  BY DEF Return
<1>3. next \in Nat /\ (~Stops => next \in Item /\ next \notin busy)
  <2>1. next \in Nat BY DEF Worked, TypeOK
  <2>2. \A k \in Item : k > 0 BY DynamicNodesAssumption DEF Item
  <2>3. next > 0 BY <1>1, <2>1, <2>2 DEF Item
  <2>4. next \notin busy BY <2>1 DEF Worked, Pooled
  <2> QED BY <2>1, <2>3, <2>4, DynamicNodesAssumption DEF Item
<1> HIDE DEF Stops
<1>4. /\ runs' \in [Item -> Run] /\ next' \in Nat /\ next <= next'
      /\ \A j \in Item : /\ j # next \/ Stops => runs'[j] = runs[j]
                         /\ ~Stops /\ j = next => runs'[j] = Scheduled(j)
  BY <1>2, <1>3, ScheduledFacts DEF Schedule, Worked, TypeOK, Pooled
<1>5. \A j \in Item : /\ runs'[j].is # "none" => runs'[j].of \in origin..input
                      /\ runs'[j].is = "task" => runs'[j].of = input /\ j \in busy'
                      /\ j \in busy' => j < next' /\ runs'[j].is # "none"
                      /\ runs[j].is # "none" => runs'[j] = runs[j]
                      /\ runs'[j].is \in {"asked", "failed"} => runs'[j] = runs[j]
  <2> SUFFICES ASSUME NEW j \in Item
               PROVE  /\ runs'[j].is # "none" => runs'[j].of \in origin..input
                      /\ runs'[j].is = "task" => runs'[j].of = input /\ j \in busy'
                      /\ j \in busy' => j < next' /\ runs'[j].is # "none"
                      /\ runs[j].is # "none" => runs'[j] = runs[j]
                      /\ runs'[j].is \in {"asked", "failed"} => runs'[j] = runs[j]
    OBVIOUS
  <2>1. CASE ~Stops /\ j = next
    <3>1. runs[j].is # "task" BY <1>3, <2>1 DEF Worked, TypeOK
    <3>2. runs[j] \in Run /\ Scheduled(j) \in Run BY <3>1, ScheduledFacts DEF Worked, TypeOK
    <3>3. runs'[j].is \in {"asked", "failed"} => runs'[j] = runs[j]
      BY <1>4, <2>1, <3>1, ScheduledFacts DEF Worked
    <3> QED BY <1>2, <1>3, <1>4, <2>1, <3>1, <3>3, ScheduledFacts DEF Worked
  <2>2. CASE j # next \/ Stops
    <3>1. runs'[j] = runs[j] BY <1>4, <2>2
    <3>2. j # i => (j \in busy' <=> j \in busy) BY <1>2, <2>2
    <3>3. j = i => j \notin busy' /\ runs[j].is # "task" BY <1>1, <1>2, <2>2
    <3>4. j \in busy => j < next BY DEF Worked, Pooled
    <3>5. j \in busy' => j < next' BY <1>3, <1>4, <3>2, <3>3, <3>4 DEF Item
    <3> QED BY <3>1, <3>2, <3>3, <3>5 DEF Worked, TypeOK, Pooled, OfThisRun
  <2> QED BY <2>1, <2>2
<1>6. /\ results' \in [Item -> Nat \X Nat] /\ reported' \in SUBSET (Item \X Nat)
      /\ failed' \in BOOLEAN
      /\ \A j \in Item \ {i} : results'[j] = results[j]
      /\ runs[i].is \in {"completed", "booked"} => results'[i] = <<i, runs[i].of>>
  <2>1. i \in Nat /\ runs[i].of \in Nat /\ asked[i] \in Nat
    BY <1>1 DEF Run, Item, Worked, TypeOK
  <2> QED BY <1>1, <2>1 DEF KeepResult, Reports, Worked, TypeOK
<1>7. TypeOK'
  <2>1. busy' \subseteq Item /\ Cardinality(busy') <= Pool
    BY <1>1, <1>2, <1>3, BusyFacts DEF Worked, TypeOK
  <2> QED BY <1>1, <1>4, <1>5, <1>6, <2>1 DEF Worked, TypeOK, turnVars, sessionVars
<1>8. Pooled' BY <1>1, <1>5, <1>7 DEF Pooled, TypeOK
<1>9. OfThisRun' BY <1>1, <1>5 DEF Worked, OfThisRun, turnVars, sessionVars
<1>10. Collected'
  <2>1. reported' = reported \cup (IF runs[i].is = "asked" THEN {<<i, asked[i]>>} ELSE {})
    BY <1>1 DEF Reports
  <2>2. ASSUME NEW j \in Item, j < next', j \notin busy'
        PROVE  AccountedFor(j)'
    <3>1. CASE j = i
      <4>1. runs'[i] = runs[i] BY <1>1, <1>5
      <4>2. runs[i].of \in origin..input BY <1>1 DEF Worked, OfThisRun
      <4>3. UNCHANGED <<asked, origin, input>> BY <1>1 DEF turnVars, sessionVars
      <4>4. CASE runs[i].is \in {"completed", "booked"}
        <5>1. results'[i] \in {i} \X (origin'..input') BY <1>6, <4>2, <4>3, <4>4
        <5> QED BY <3>1, <4>1, <4>4, <5>1 DEF AccountedFor
      <4>5. CASE runs[i].is = "asked"
        BY <2>1, <3>1, <4>1, <4>3, <4>5 DEF AccountedFor
      <4>6. CASE runs[i].is = "failed" BY <1>1, <3>1, <4>1, <4>6 DEF AccountedFor
      <4> QED BY <1>1, <4>4, <4>5, <4>6
    <3>2. CASE j # i
      <4>1. j < next /\ j \notin busy
        <5>1. CASE Stops BY <1>2, <2>2, <3>2, <5>1
        <5>2. CASE ~Stops BY <1>2, <1>3, <2>2, <3>2, <5>2 DEF Item
        <5> QED BY <5>1, <5>2
      <4>2. AccountedFor(j) BY <1>1, <4>1 DEF Worked, Collected
      <4>3. runs'[j] = runs[j] BY <1>5, <4>2 DEF AccountedFor
      <4> QED BY <1>1, <1>6, <2>1, <3>2, <4>2, <4>3 DEF AccountedFor, turnVars, sessionVars
    <3> QED BY <3>1, <3>2
  <2>3. reported' \subseteq {<<j, asked[j]>> : j \in {k \in Item : runs'[k].is = "asked"}}
    <3>1. reported \subseteq {<<j, asked[j]>> : j \in {k \in Item : runs[k].is = "asked"}}
      BY <1>1 DEF Worked, Collected
    <3>2. \A k \in Item : runs[k].is = "asked" => runs'[k].is = "asked" BY <1>5
    <3> QED BY <2>1, <3>1, <3>2
  <2>4. next' <= Items => busy' # {} \/ failed' \/ reported' # {} \/ aborted
    <3>1. CASE Stops
      <4>1. next' = next BY <1>2, <3>1
      <4>2. runs[i].is = "asked" => reported' # {} BY <2>1
      <4>3. aborted' = aborted BY <1>1
      <4>4. next' <= Items => ~(next > Items) BY <1>3, <4>1, DynamicNodesAssumption
      <4> QED BY <3>1, <4>2, <4>4 DEF Stops
    <3>2. CASE ~Stops BY <1>2, <3>2
    <3> QED BY <3>1, <3>2
  <2>5. \A j \in Item : runs'[j].is \in {"asked", "failed"} => j < next'
    BY <1>1, <1>3, <1>4, <1>5 DEF Worked, Collected, Item
  <2> QED BY <1>1, <2>2, <2>3, <2>4, <2>5 DEF Collected, turnVars, sessionVars
<1>11. Concluded' BY <1>1 DEF Concluded
<1> QED BY <1>7, <1>8, <1>9, <1>10, <1>11 DEF Worked

\* A worker ends when the pool does: having failed, asked, or a result of every
\* item.
LEMMA FinishWorked == ASSUME Worked, Finish PROVE Worked'
<1>1. /\ phase = "running" /\ busy = {} /\ phase' = Outcome
      /\ UNCHANGED <<turnVars, aborted, cut, runs, poolVars, out, asked, answered, raised, made>>
      /\ spoke' \in BOOLEAN /\ kept' \in BOOLEAN
      /\ Outcome \in {"asked", "failed", "list", "nothing"}
  BY DEF Finish, Outcome, Worked, TypeOK
<1>2. TypeOK' /\ Pooled' /\ Collected'
  BY <1>1 DEF Worked, TypeOK, Pooled, Collected, AccountedFor, turnVars, poolVars
<1>3. OfThisRun' BY <1>1 DEF Worked, OfThisRun, turnVars
<1>4. Concluded'
  <2>1. \A i \in Item : i < next => AccountedFor(i)
    BY <1>1 DEF Worked, Collected
  <2>2. CASE Outcome = "list"
    <3>1. ~failed /\ reported = {} /\ ~aborted BY <2>2 DEF Outcome
    <3>2. ~(next <= Items) BY <1>1, <3>1 DEF Worked, Collected
    <3>3. \A i \in Item : i < next
      BY <3>2, DynamicNodesAssumption DEF Item, Worked, TypeOK
    <3>4. \A i \in Item : /\ runs[i].is \in {"completed", "booked"}
                          /\ results[i] \in {i} \X (origin..input)
      BY <2>1, <3>1, <3>3 DEF AccountedFor
    <3> QED BY <1>1, <2>2, <3>4 DEF Concluded, turnVars, poolVars
  <2>3. CASE Outcome = "asked"
    <3>1. ~failed BY <2>3 DEF Outcome
    <3>2. \A i \in Item : runs[i].is \in {"asked", "failed"} => i < next
      BY <1>1 DEF Worked, Collected
    <3>3. \A i \in Item : runs[i].is # "failed" BY <2>1, <3>1, <3>2 DEF AccountedFor
    <3>4. \A i \in Item : runs[i].is = "asked" => <<i, asked[i]>> \in reported
      BY <2>1, <3>2 DEF AccountedFor
    <3>5. reported = {<<i, asked[i]>> : i \in {j \in Item : runs[j].is = "asked"}}
      BY <1>1, <3>4 DEF Worked, Collected
    <3> QED BY <1>1, <2>3, <3>3, <3>5 DEF Concluded, poolVars
  <2>4. CASE Outcome \in {"failed", "nothing"} BY <1>1, <2>4 DEF Concluded
  <2> QED BY <1>1, <2>2, <2>3, <2>4
<1> QED BY <1>2, <1>3, <1>4 DEF Worked

\* The signal, another trigger and the end of the turn.
LEMMA SignalWorked == ASSUME Worked, Abort \/ Reactivate \/ EndTurn PROVE Worked'
<1>1. CASE Abort
  BY <1>1 DEF Abort, Worked, TypeOK, Pooled, OfThisRun, Collected, AccountedFor, Concluded,
     turnVars, poolVars, sessionVars
<1>2. CASE Reactivate
  <2>1. /\ phase = "list" /\ phase' = "triggered" /\ input' = input + 1 /\ input < MaxInputs
        /\ UNCHANGED <<rerun, turn, origin, aborted, cut, runs, poolVars, sessionVars>>
    BY <1>2 DEF Reactivate
  <2>2. input \in Nat /\ origin \in Nat /\ origin <= input
    BY DynamicNodesAssumption DEF Worked, TypeOK, OfThisRun
  <2>3. TypeOK'
    <3>1. input' \in 0..MaxInputs BY <2>1, <2>2, DynamicNodesAssumption
    <3> QED BY <2>1, <3>1 DEF Worked, TypeOK, poolVars, sessionVars
  <2>4. \A k : k \in origin..input => k \in origin..input' BY <2>1, <2>2
  <2>5. \A i \in Item : runs[i].is # "task" BY <2>1 DEF Worked, Concluded
  <2>6. OfThisRun' BY <2>1, <2>2, <2>4, <2>5 DEF Worked, OfThisRun, sessionVars
  <2>7. Pooled' /\ Collected' /\ Concluded'
    BY <2>1 DEF Worked, Pooled, Collected, Concluded, poolVars
  <2> QED BY <2>3, <2>6, <2>7 DEF Worked
<1>3. CASE EndTurn
  BY <1>3 DEF EndTurn, Worked, TypeOK, Pooled, OfThisRun, Collected, AccountedFor, Concluded,
     turnVars, poolVars, sessionVars
<1> QED BY <1>1, <1>2, <1>3

\* A turn begins with no run in its table.
LEMMA TurnWorked == ASSUME Worked, Reply \/ FreshRun PROVE Worked'
<1>1. /\ NewTurn /\ phase = "off" /\ phase' = "triggered" /\ turn' \in 0..MaxTurns
      /\ runs' = [i \in Item |-> NoRun] /\ UNCHANGED <<rerun, poolVars>>
      /\ aborted' = FALSE /\ cut' = FALSE /\ spoke' = FALSE /\ raised' = FALSE
  BY DynamicNodesAssumption DEF Reply, FreshRun, NewTurn, Worked, TypeOK
<1>2. input \in Nat /\ origin \in Nat /\ origin <= input
  BY DynamicNodesAssumption DEF Worked, TypeOK, OfThisRun
<1>3. runs' \in [Item -> Run] /\ \A i \in Item : runs'[i].is = "none"
  BY <1>1 DEF NoRun, Run
<1>4. busy = {} /\ busy' = {} BY <1>1 DEF Worked, Pooled, poolVars
<1>5. /\ origin' \in Nat /\ origin' <= input' /\ 0 < input' /\ input' \in 0..MaxInputs
      /\ origin' \in 0..MaxInputs
      /\ kept' \in BOOLEAN /\ out' \in [Item -> Nat] /\ made' \in [Item -> Nat]
      /\ asked' \in [Item -> Nat] /\ answered' \in [Item -> SUBSET Nat]
      /\ \A i \in Item : out'[i] # 0 => out'[i] \in origin'..input'
  <2>1. CASE Reply
    <3>1. /\ input' = input \/ (input < MaxInputs /\ input' = input + 1)
          /\ UNCHANGED <<origin, out, asked, made, kept>>
      BY <2>1 DEF Reply
    <3>2. 0 < input BY <2>1 DEF Reply, InProgress, Worked, OfThisRun
    <3>3. answered' \in [Item -> SUBSET Nat]
      <4>1. \E S \in SUBSET OpenIds :
              answered' = [i \in Item |-> answered[i] \cup {n \in 1..asked[i] : <<i, n>> \in S}]
        BY <2>1 DEF Reply
      <4> QED BY <4>1 DEF Worked, TypeOK
    <3>4. \A k : k \in origin..input => k \in origin..input' BY <1>2, <3>1
    <3> QED BY <1>2, <3>1, <3>2, <3>3, <3>4, DynamicNodesAssumption DEF Worked, TypeOK, OfThisRun
  <2>2. CASE FreshRun
    <3>1. /\ input < MaxInputs /\ input' = input + 1 /\ origin' = input'
          /\ kept' = FALSE /\ answered' = [i \in Item |-> {}]
      BY <2>2 DEF FreshRun
    <3>2. /\ out' = [i \in Item |-> 0] /\ asked' = [i \in Item |-> 0]
          /\ made' = [i \in Item |-> 0]
      BY <2>2 DEF FreshRun
    <3>3. /\ origin' \in Nat /\ origin' <= input' /\ 0 < input'
          /\ input' \in 0..MaxInputs /\ origin' \in 0..MaxInputs
      BY <1>2, <3>1, DynamicNodesAssumption
    <3> QED BY <3>1, <3>2, <3>3
  <2> QED BY <2>1, <2>2
<1>6. TypeOK' BY <1>1, <1>3, <1>4, <1>5 DEF Worked, TypeOK, poolVars
<1>7. Pooled' BY <1>4 DEF Pooled
<1>8. OfThisRun' BY <1>3, <1>5 DEF OfThisRun
<1>9. Collected' /\ Concluded' BY <1>1, <1>3 DEF Collected, Concluded
<1> QED BY <1>6, <1>7, <1>8, <1>9 DEF Worked

---------------------------------------------------------------------------
LEMMA WorkedFirst == Init => Worked
<1> SUFFICES ASSUME Init PROVE Worked OBVIOUS
<1>1. busy = {} /\ Cardinality(busy) = 0 BY FS_EmptySet DEF Init
<1>2. runs \in [Item -> Run] /\ \A i \in Item : runs[i].is = "none"
  BY DEF Init, NoRun, Run
<1>3. results \in [Item -> Nat \X Nat] BY DEF Init, Hole
<1>4. /\ out \in [Item -> Nat] /\ asked \in [Item -> Nat] /\ made \in [Item -> Nat]
      /\ answered \in [Item -> SUBSET Nat]
  BY DEF Init
<1>5. /\ turn \in 0..MaxTurns /\ input \in 0..MaxInputs /\ origin \in 0..MaxInputs
      /\ Cardinality(busy) <= Pool /\ busy \subseteq Item
  BY <1>1, DynamicNodesAssumption DEF Init
<1>6. TypeOK BY <1>2, <1>3, <1>4, <1>5 DEF Init, TypeOK
<1>7. Pooled /\ OfThisRun /\ Collected /\ Concluded
  BY <1>1, <1>2 DEF Init, Pooled, OfThisRun, Collected, Concluded
<1> QED BY <1>6, <1>7 DEF Worked

LEMMA WorkedStep == Worked /\ [Next]_vars => Worked'
<1> SUFFICES ASSUME Worked, [Next]_vars PROVE Worked' OBVIOUS
<1>1. CASE Activate BY <1>1, ActivateWorked
<1>2. CASE \E i \in Item : Return(i) BY <1>2, ReturnWorked
<1>3. CASE Finish BY <1>3, FinishWorked
<1>4. CASE EndTurn \/ Abort \/ Reactivate BY <1>4, SignalWorked
<1>5. CASE Bodies BY <1>5, BodyWorked DEF Bodies
<1>6. CASE User BY <1>6, TurnWorked DEF User
<1>7. CASE UNCHANGED vars
  BY <1>7 DEF vars, Worked, TypeOK, Pooled, OfThisRun, Collected, AccountedFor, Concluded,
     turnVars, poolVars, sessionVars
<1>8. CASE Quiet BY <1>7, <1>8 DEF Quiet
<1> QED BY <1>1, <1>2, <1>3, <1>4, <1>5, <1>6, <1>7, <1>8 DEF Next, Engine

\* What the scheduler keeps of the items stands in every state of every turn.
LEMMA AlwaysWorked == Spec => []Worked
  BY WorkedFirst, WorkedStep, PTL DEF Spec

\* Types: the pool is never wider than maxParallelWorkers, and only what it
\* awaits is running.
THEOREM TypeCorrect == Spec => []TypeOK
<1>1. Worked => TypeOK BY DEF Worked
<1> QED BY <1>1, AlwaysWorked, PTL

\* The list a worker emits has at each place a result of that item, computed
\* in the run in progress, however the items end and however many there are.
THEOREM ListHasNoHole == Spec => []ListIsOfThisRun
<1>1. Worked => ListIsOfThisRun BY DEF Worked, Concluded, ListIsOfThisRun
<1> QED BY <1>1, AlwaysWorked, PTL

---------------------------------------------------------------------------
(* What was asked and answered                                             *)

\* A client that answers every question that is open leaves none.
LEMMA RepliesFacts ==
  ASSUME TypeOK, Answering,
         answered' = [i \in Item |-> answered[i] \cup {n \in 1..asked[i] : <<i, n>> \in OpenIds}]
  PROVE  \A i \in Item : answered'[i] = 1..asked[i]
<1> SUFFICES ASSUME NEW i \in Item PROVE answered'[i] = 1..asked[i] OBVIOUS
<1>1. answered[i] \subseteq 1..asked[i] BY DEF Answering
<1>2. \A n \in (1..asked[i]) \ answered[i] : <<i, n>> \in OpenIds BY DEF OpenIds
<1> QED BY <1>1, <1>2

LEMMA AnsweringFirst == Init => Answering /\ Executed
<1> SUFFICES ASSUME Init PROVE Answering /\ Executed OBVIOUS
<1>1. \A i \in Item : runs[i].is = "none" BY DEF Init, NoRun
<1> QED BY <1>1 DEF Init, Answering, Executed

LEMMA BodyAnswering ==
  ASSUME Worked, Answering, Executed, NEW i \in Item, Body(i)
  PROVE  Answering' /\ Executed'
<1>1. /\ runs[i].is = "task" /\ phase # "off" /\ runs[i] \in Run
      /\ runs[i].of \in Nat \ {0} /\ phase' = phase
      /\ answered' = answered /\ UNCHANGED <<cut, aborted, rerun>>
      /\ runs \in [Item -> Run] /\ cut \in BOOLEAN
  BY DynamicNodesAssumption
  DEF Body, Produce, EndSilently, Ask, Throw, Worked, TypeOK, Pooled, OfThisRun,
      turnVars, sessionVars
<1>2. /\ out[i] = 0 /\ made[i] = 0 /\ (~rerun => asked[i] = 0) /\ AllAnswered(i)
      /\ out \in [Item -> Nat] /\ made \in [Item -> Nat] /\ asked \in [Item -> Nat]
      /\ answered \in [Item -> SUBSET Nat]
  BY <1>1 DEF Worked, TypeOK, Executed, Answering, Asking
<1>3. CASE Produce(i)
  <2>1. /\ asked' = asked
        /\ runs' = [runs EXCEPT ![i].is = "completed"]
        /\ out' = [out EXCEPT ![i] = IF cut THEN @ ELSE runs[i].of]
        /\ made' = [made EXCEPT ![i] = IF cut THEN @ ELSE @ + 1]
    BY <1>3 DEF Produce
  <2>2. \A j \in Item \ {i} : runs'[j] = runs[j] /\ out'[j] = out[j] /\ made'[j] = made[j]
    BY <1>1, <1>2, <2>1
  <2>3. /\ runs'[i].is = "completed" /\ made'[i] \in {0, 1}
        /\ out'[i] = 0 <=> made'[i] = 0
    BY <1>1, <1>2, <2>1
  <2>4. Answering' BY <1>1, <1>2, <2>1, <2>2, <2>3 DEF Answering, AllAnswered, Asking
  <2>5. Executed' BY <1>1, <1>2, <2>1, <2>2, <2>3 DEF Executed
  <2> QED BY <2>4, <2>5
<1>4. CASE EndSilently(i) \/ Throw(i)
  <2>1. /\ UNCHANGED <<asked, out, made>>
        /\ \E how \in {"completed", "failed"} : runs' = [runs EXCEPT ![i].is = how]
    BY <1>4 DEF EndSilently, Throw, sessionVars
  <2>2. \A j \in Item \ {i} : runs'[j] = runs[j] BY <1>1, <2>1
  <2>3. runs'[i].is \in {"completed", "failed"} BY <1>1, <2>1
  <2>4. Answering' BY <1>1, <1>2, <2>1, <2>2, <2>3 DEF Answering, AllAnswered, Asking
  <2>5. Executed' BY <1>1, <1>2, <2>1, <2>2, <2>3 DEF Executed
  <2> QED BY <2>4, <2>5
<1>5. CASE Ask(i)
  <2>1. /\ out' = out /\ made' = made
        /\ rerun => answered[i] = {}
        /\ runs' = [runs EXCEPT ![i].is = "asked"]
        /\ asked' = [asked EXCEPT ![i] = IF cut THEN @ ELSE IF rerun THEN 1 ELSE @ + 1]
    BY <1>5 DEF Ask
  <2>2. asked[i] = 0 /\ answered[i] = {}
    <3>1. rerun => 1..asked[i] = {} BY <1>2, <2>1 DEF AllAnswered
    <3>2. asked[i] \in Nat BY <1>2
    <3>3. asked[i] = 0
      <4>1. CASE rerun
        <5>1. 1 \notin 1..asked[i] BY <3>1, <4>1
        <5> QED BY <3>2, <5>1
      <4>2. CASE ~rerun BY <1>2, <4>2
      <4> QED BY <4>1, <4>2
    <3> QED BY <1>2, <3>3 DEF AllAnswered
  <2>3. \A j \in Item \ {i} : runs'[j] = runs[j] /\ asked'[j] = asked[j]
    BY <1>1, <1>2, <2>1
  <2>4. /\ runs'[i].is = "asked" /\ asked'[i] = IF cut THEN 0 ELSE 1
    BY <1>1, <1>2, <2>1, <2>2
  <2>5. Answering'
    <3>1. \A j \in Item : answered'[j] \subseteq 1..asked'[j]
      BY <1>1, <2>2, <2>3, <2>4 DEF Answering
    <3>2. cut => AllAnswered(i)' BY <1>1, <2>2, <2>4 DEF AllAnswered
    <3>3. ~cut => asked'[i] = 1 /\ answered'[i] = 1..(asked'[i] - 1) /\ ~AllAnswered(i)'
      BY <1>1, <2>2, <2>4 DEF AllAnswered
    <3>4. \A j \in Item \ {i} : AllAnswered(j)' <=> AllAnswered(j)
      BY <1>1, <2>3 DEF AllAnswered
    <3>5. Asking(i)' /\ \A j \in Item \ {i} : Asking(j)' <=> Asking(j)
      BY <2>3, <2>4 DEF Asking
    <3> QED BY <1>1, <2>3, <3>1, <3>2, <3>3, <3>4, <3>5 DEF Answering
  <2>6. Executed' BY <1>1, <1>2, <2>1, <2>3, <2>4 DEF Executed
  <2> QED BY <2>5, <2>6
<1> QED BY <1>3, <1>4, <1>5 DEF Body

LEMMA PoolAnswering ==
  ASSUME Worked, Answering, Executed,
         Activate \/ Finish \/ EndTurn \/ Abort \/ Reactivate \/ (\E i \in Item : Return(i))
  PROVE  Answering' /\ Executed'
<1>1. /\ UNCHANGED <<rerun, out, made, asked, answered>>
      /\ phase' # "off" => phase # "off"
      /\ ~cut' => ~cut
      /\ cut' => aborted'
  BY DEF Activate, Finish, EndTurn, Abort, Reactivate, Return, turnVars, sessionVars, Answering
<1>2. \A i \in Item : runs'[i] \in {runs[i], Scheduled(i)}
  <2>1. CASE Activate BY <2>1 DEF Activate, Schedule
  <2>2. CASE Finish \/ EndTurn \/ Abort \/ Reactivate
    BY <2>2 DEF Finish, EndTurn, Abort, Reactivate
  <2>3. CASE \E j \in Item : Return(j)
    <3>1. UNCHANGED runs \/ Schedule({next}) BY <2>3 DEF Return
    <3> QED BY <3>1 DEF Schedule
  <2> QED BY <2>1, <2>2, <2>3
<1>3. ASSUME NEW i \in Item
      PROVE  /\ runs'[i].is = "asked" <=> runs[i].is = "asked"
             /\ runs'[i].is = "task" => out[i] = 0 /\ (~rerun => asked[i] = 0)
  <2>1. CASE runs'[i] = runs[i] BY <2>1 DEF Executed
  <2>2. CASE runs[i].is # "none" /\ runs'[i] = Scheduled(i) BY <2>2 DEF Scheduled, Executed
  <2>3. CASE runs[i].is = "none" /\ runs'[i] = Scheduled(i) /\ runs'[i] # runs[i]
    <3>1. runs'[i].is \in {"booked", "task"} BY <2>3 DEF Scheduled
    <3>2. phase # "off"
      BY <2>3 DEF Activate, Finish, EndTurn, Abort, Reactivate, Return, Worked, Pooled
    <3>3. AllAnswered(i) BY <2>3, <3>2 DEF Answering, Asking
    <3>4. runs'[i].is = "task" => ~FastForwardable(i) /\ ~HandedOver(i)
      BY <2>3 DEF Scheduled
    <3>5. out[i] \in Nat /\ asked[i] \in Nat BY DEF Worked, TypeOK
    <3> QED BY <2>3, <3>1, <3>3, <3>4, <3>5 DEF FastForwardable, HandedOver
  <2> QED BY <1>2, <2>1, <2>2, <2>3
<1>4. Answering'
  <2>1. \A i \in Item : /\ Asking(i)' <=> Asking(i)
                        /\ AllAnswered(i)' <=> AllAnswered(i)
    BY <1>1, <1>3 DEF Asking, AllAnswered
  <2> QED BY <1>1, <2>1 DEF Answering
<1>5. Executed' BY <1>1, <1>3 DEF Executed
<1> QED BY <1>4, <1>5

\* What a client that answers everything leaves is what the next turn needs.
LEMMA TurnAnswering ==
  ASSUME Worked, Answering, Executed, Careful, Reply \/ FreshRun
  PROVE  Answering' /\ Executed'
<1>1. /\ runs' = [i \in Item |-> NoRun] /\ rerun' = rerun /\ cut' = FALSE
  BY DEF Reply, FreshRun, NewTurn
<1>2. \A i \in Item : runs'[i].is = "none" BY <1>1 DEF NoRun
<1>3. /\ asked \in [Item -> Nat] /\ made \in [Item -> Nat] /\ out \in [Item -> Nat]
  BY DEF Worked, TypeOK
<1>4. CASE Reply
  <2>1. UNCHANGED <<out, asked, made>> BY <1>4 DEF Reply
  <2>2. answered' =
          [i \in Item |-> answered[i] \cup {n \in 1..asked[i] : <<i, n>> \in OpenIds}]
    BY <1>4 DEF Reply
  <2>3. \A i \in Item : answered'[i] = 1..asked[i] BY <2>2, RepliesFacts DEF Worked
  <2>4. Answering' BY <1>1, <1>2, <2>1, <2>3 DEF Answering, AllAnswered, Asking
  <2>5. Executed' BY <1>1, <1>2, <2>1 DEF Executed
  <2> QED BY <2>4, <2>5
<1>5. CASE FreshRun
  <2>1. /\ out' = [i \in Item |-> 0] /\ asked' = [i \in Item |-> 0]
        /\ made' = [i \in Item |-> 0] /\ answered' = [i \in Item |-> {}]
    BY <1>5 DEF FreshRun
  <2>2. \A i \in Item : AllAnswered(i)' BY <2>1 DEF AllAnswered
  <2>3. Answering' BY <1>1, <1>2, <2>1, <2>2 DEF Answering, Asking
  <2>4. Executed' BY <1>2, <2>1 DEF Executed
  <2> QED BY <2>3, <2>4
<1> QED BY <1>4, <1>5

LEMMA AnsweringStep ==
  ASSUME Careful PROVE Worked /\ Answering /\ Executed /\ [Next]_vars => (Answering /\ Executed)'
<1> SUFFICES ASSUME Worked, Answering, Executed, [Next]_vars PROVE Answering' /\ Executed'
  OBVIOUS
<1>1. CASE Engine \/ Abort \/ Reactivate BY <1>1, PoolAnswering DEF Engine
<1>2. CASE Bodies BY <1>2, BodyAnswering DEF Bodies
<1>3. CASE User BY <1>3, TurnAnswering DEF User
<1>4. CASE UNCHANGED vars
  BY <1>4 DEF vars, turnVars, sessionVars, Answering, Asking, AllAnswered, Executed
<1>5. CASE Quiet BY <1>4, <1>5 DEF Quiet
<1> QED BY <1>1, <1>2, <1>3, <1>4, <1>5 DEF Next

LEMMA AlwaysAnswering == ASSUME Careful PROVE Spec => [](Answering /\ Executed)
  BY AlwaysWorked, AnsweringFirst, AnsweringStep, PTL DEF Spec

\* An item commits one output in a run, however many turns it takes, for a
\* client that answers all the open questions at once (scheduleRun,
\* completeWithoutRunning).
THEOREM ItemsRunOnce == ASSUME Careful PROVE Spec => []RecordedItemsRunOnce
<1>1. Executed => RecordedItemsRunOnce BY DEF Executed, RecordedItemsRunOnce
<1> QED BY <1>1, AlwaysAnswering, PTL

\* A paused worker reports the open questions and nothing else, however many
\* items asked at once, and never hides a failure behind them (schedule, runImpl).
THEOREM PauseReportsTheOpen == ASSUME Careful PROVE Spec => []AsksWhatIsOpen
<1>1. Worked /\ Answering => AsksWhatIsOpen
  <2> SUFFICES ASSUME Worked, Answering PROVE AsksWhatIsOpen OBVIOUS
  <2>1. ASSUME phase = "asked", ~cut PROVE reported = OpenIds
    <3>1. reported = {<<i, asked[i]>> : i \in {j \in Item : Asking(j)}}
      BY <2>1 DEF Worked, Concluded, Asking
    <3>2. ASSUME NEW i \in Item
          PROVE  (1..asked[i]) \ answered[i] = IF Asking(i) THEN {asked[i]} ELSE {}
      <4>1. asked[i] \in Nat BY DEF Worked, TypeOK
      <4>2. CASE Asking(i)
        <5>1. asked[i] > 0 /\ answered[i] = 1..(asked[i] - 1) BY <2>1, <4>2 DEF Answering
        <5> QED BY <4>1, <4>2, <5>1
      <4>3. CASE ~Asking(i)
        <5>1. answered[i] = 1..asked[i] BY <2>1, <4>3 DEF Answering, AllAnswered
        <5> QED BY <4>3, <5>1
      <4> QED BY <4>2, <4>3
    <3>3. OpenIds = {<<i, asked[i]>> : i \in {j \in Item : Asking(j)}}
      <4>1. \A i \in Item : {<<i, n>> : n \in (1..asked[i]) \ answered[i]} =
                              IF Asking(i) THEN {<<i, asked[i]>>} ELSE {}
        BY <3>2
      <4> QED BY <4>1 DEF OpenIds
    <3> QED BY <3>1, <3>3
  <2>2. phase \in {"asked", "list"} => \A i \in Item : runs[i].is # "failed"
    BY DEF Worked, Concluded
  <2> QED BY <2>1, <2>2 DEF AsksWhatIsOpen
<1> QED BY <1>1, AlwaysWorked, AlwaysAnswering, PTL

\* An item whose questions were answered asks no more in that run
\* (resumeHandoff).
THEOREM NoQuestionTwice == ASSUME Careful PROVE Spec => AnsweredIsNotAskedAgain
<1>1. Worked /\ Answering /\ Executed /\ [Next]_vars =>
        [\A i \in Item : asked'[i] > asked[i] => asked[i] \notin answered[i]]_vars
  <2> SUFFICES ASSUME Worked, Answering, Executed, Next,
                      NEW i \in Item, asked'[i] > asked[i]
               PROVE  asked[i] \notin answered[i]
    OBVIOUS
  <2>1. asked \in [Item -> Nat] /\ answered[i] \subseteq 1..asked[i]
    BY DEF Worked, TypeOK, Answering
  <2>2. CASE asked' = asked BY <2>1, <2>2
  <2>3. CASE FreshRun BY <2>1, <2>3 DEF FreshRun
  <2>4. ASSUME NEW j \in Item, Ask(j) PROVE asked[i] \notin answered[i]
    <3>1. i = j BY <2>1, <2>4 DEF Ask
    <3>2. asked[i] = 0 \/ answered[i] = {} BY <2>4, <3>1 DEF Ask, Executed
    <3> QED BY <2>1, <3>2
  <2>5. asked' = asked \/ FreshRun \/ \E j \in Item : Ask(j)
    <3>1. Engine \/ Abort \/ Reactivate \/ Reply \/ Quiet => asked' = asked
      BY DEF Engine, Activate, Return, Finish, EndTurn, Abort, Reactivate, Reply, Quiet, vars,
         sessionVars
    <3>2. Bodies => asked' = asked \/ \E j \in Item : Ask(j)
      BY DEF Bodies, Body, Produce, EndSilently, Throw, sessionVars
    <3> QED BY <3>1, <3>2 DEF Next, User
  <2> QED BY <2>2, <2>3, <2>4, <2>5
<1> QED BY <1>1, AlwaysWorked, AlwaysAnswering, PTL DEF Spec, AnsweredIsNotAskedAgain
=============================================================================
