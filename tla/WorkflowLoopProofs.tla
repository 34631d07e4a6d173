------------------------- MODULE WorkflowLoopProofs -------------------------
(***************************************************************************)
(* Proofs about the orchestration loop, for every graph, every concurrency *)
(* limit, every behaviour of the bodies and every bound. About one turn:   *)
(* what it reports, that it loses no trigger it could still run, that a    *)
(* join gathers what leads to it, and that the loop implements the         *)
(* contract of Activations. About a session of any number of turns: that   *)
(* the next turn rebuilds from the events of those before what they did,   *)
(* so that no question is asked twice, no body runs twice and no recorded  *)
(* run is orphaned. The results about one turn need to know what the loop  *)
(* collected (Collected) and what became of every trigger and every body   *)
(* (Accounted); those about sessions, that a node leaves its events in one *)
(* turn of a run (RunInv) and that each turn retraces what the run has     *)
(* left (RetraceInv).                                                      *)
(***************************************************************************)
EXTENDS ResumeTurns, SequenceTheorems, FiniteSetTheorems,
        WellFoundedInduction, TLAPS

\* The keys of the buffer are the nodes with queued triggers, each once, and
\* what is left of a scheduling pass is some of them.
Buffered ==
  /\ IsInjective(keys)
  /\ \A n \in Node : In(n, keys) <=> buffer[n] # << >>
  /\ IsInjective(todo)
  /\ \A n \in Node : In(n, todo) => In(n, keys)
  /\ phase # "schedule" => todo = << >>

\* A pending node is running and pending once, and the race can only be won
\* by a pending node.
Tracked ==
  /\ IsInjective(pending)
  /\ \A n \in Node : In(n, pending) => status[n] = "RUNNING"
  /\ \A n \in first : In(n, pending)

\* The loop has collected exactly what the waiting nodes asked.
Collected ==
  /\ raised = UNION {interrupts[n] : n \in Node}
  /\ \A n \in Node : status[n] # "WAITING" => interrupts[n] = {}

IInv ==
  /\ TypeOK
  /\ Buffered
  /\ Tracked
  /\ Collected

---------------------------------------------------------------------------
(* Sequences without repetition                                            *)

\* Deleting a key of a map leaves the other keys, each once.
LEMMA WithoutFacts ==
  ASSUME NEW S, NEW s \in Seq(S), IsInjective(s), NEW n, In(n, s)
  PROVE  /\ Without(s, n) \in Seq(S)
         /\ IsInjective(Without(s, n))
         /\ Len(Without(s, n)) = Len(s) - 1
         /\ \A x : In(x, Without(s, n)) <=> In(x, s) /\ x # n
<1> DEFINE p == PositionOf(n, s)
           u == SubSeq(s, 1, p - 1)
           v == SubSeq(s, p + 1, Len(s))
           t == Without(s, n)
<1>1. p \in 1..Len(s) /\ s[p] = n
  BY DEF In, PositionOf
<1>2. t = u \o v
  BY DEF Without, RemoveAt
<1>3. /\ u \in Seq(S) /\ Len(u) = p - 1
      /\ \A i \in 1..(p - 1) : u[i] = s[i]
      /\ v \in Seq(S) /\ Len(v) = Len(s) - p
      /\ \A i \in 1..(Len(s) - p) : v[i] = s[p + i]
  BY <1>1
<1> HIDE DEF p, t, u, v
<1>4. /\ t \in Seq(S) /\ Len(t) = Len(s) - 1
      /\ \A i \in 1..(Len(s) - 1) : t[i] = IF i < p THEN s[i] ELSE s[i + 1]
  <2>1. t \in Seq(S) /\ Len(t) = Len(s) - 1
    <3>1. t \in Seq(S) /\ Len(t) = Len(u) + Len(v)
      BY <1>2, <1>3, ConcatProperties
    <3> QED BY <1>1, <1>3, <3>1
  <2>2. \A i \in 1..Len(t) : t[i] = IF i <= Len(u) THEN u[i] ELSE v[i - Len(u)]
    <3>1. u \in Seq(S) /\ v \in Seq(S) BY <1>3
    <3> QED BY <1>2, <3>1, ConcatProperties
  <2>3. ASSUME NEW i \in 1..(Len(s) - 1) PROVE t[i] = IF i < p THEN s[i] ELSE s[i + 1]
    <3>1. CASE i < p
      BY <1>1, <1>3, <2>1, <2>2, <3>1
    <3>2. CASE ~(i < p)
      <4>1. t[i] = v[i - (p - 1)]
        BY <1>1, <1>3, <2>1, <2>2, <3>2
      <4>2. i - (p - 1) \in 1..(Len(s) - p) /\ p + (i - (p - 1)) = i + 1
        BY <1>1, <3>2
      <4> QED BY <1>3, <3>2, <4>1, <4>2
    <3> QED BY <3>1, <3>2
  <2> QED BY <2>1, <2>3
<1>5. IsInjective(t)
  <2> SUFFICES ASSUME NEW i \in DOMAIN t, NEW k \in DOMAIN t, t[i] = t[k] PROVE i = k
    BY DEF IsInjective
  <2>2. i \in 1..(Len(s) - 1) /\ k \in 1..(Len(s) - 1)
    BY <1>4
  <2>3. PICK x \in 1..Len(s) : t[i] = s[x] /\ x = IF i < p THEN i ELSE i + 1
    BY <1>1, <1>4, <2>2
  <2>4. PICK y \in 1..Len(s) : t[k] = s[y] /\ y = IF k < p THEN k ELSE k + 1
    BY <1>1, <1>4, <2>2
  <2>5. x = y
    <3>1. x \in DOMAIN s /\ y \in DOMAIN s
      OBVIOUS
    <3>2. s[x] = s[y]
      BY <2>3, <2>4, Zenon
    <3> QED BY <3>1, <3>2 DEF IsInjective
  <2> QED BY <1>1, <2>2, <2>3, <2>4, <2>5
<1>6. ASSUME NEW x PROVE In(x, t) <=> In(x, s) /\ x # n
  <2>1. ASSUME NEW i \in DOMAIN t PROVE In(t[i], s) /\ t[i] # n
    <3>1. i \in 1..(Len(s) - 1) /\ i \in DOMAIN s /\ i + 1 \in DOMAIN s
      BY <1>4
    <3>2. CASE i < p
      <4>1. t[i] = s[i] /\ i # p BY <1>1, <1>4, <3>1, <3>2
      <4> QED BY <1>1, <3>1, <4>1 DEF In, IsInjective
    <3>3. CASE ~(i < p)
      <4>1. t[i] = s[i + 1] /\ i + 1 # p BY <1>1, <1>4, <3>1, <3>3
      <4> QED BY <1>1, <3>1, <4>1 DEF In, IsInjective
    <3> QED BY <3>2, <3>3
  <2>2. ASSUME NEW i \in DOMAIN s, s[i] # n PROVE In(s[i], t)
    <3>1. i # p /\ i \in 1..Len(s)
      BY <1>1, <2>2
    <3>2. CASE i < p
      <4>1. i \in DOMAIN t /\ t[i] = s[i]
        BY <1>1, <1>4, <3>1, <3>2
      <4> QED BY <4>1 DEF In
    <3>3. CASE i > p
      <4>1. i - 1 \in DOMAIN t /\ t[i - 1] = s[i]
        BY <1>1, <1>4, <3>1, <3>3
      <4> QED BY <4>1 DEF In
    <3> QED BY <1>1, <3>1, <3>2, <3>3
  <2> QED BY <2>1, <2>2 DEF In
<1> QED BY <1>4, <1>5, <1>6 DEF t

\* Appending a key that is not there keeps the keys distinct.
LEMMA AppendFacts ==
  ASSUME NEW S, NEW s \in Seq(S), NEW n \in S
  PROVE  /\ Append(s, n) \in Seq(S)
         /\ \A x : In(x, Append(s, n)) <=> In(x, s) \/ x = n
         /\ IsInjective(s) /\ ~In(n, s) => IsInjective(Append(s, n))
<1> DEFINE t == Append(s, n)
<1>1. /\ t \in Seq(S) /\ DOMAIN t = 1..(Len(s) + 1) /\ DOMAIN s = 1..Len(s)
      /\ \A i \in DOMAIN s : i \in DOMAIN t /\ t[i] = s[i]
      /\ Len(s) + 1 \in DOMAIN t /\ t[Len(s) + 1] = n
      /\ \A i \in DOMAIN t : i \in DOMAIN s \/ i = Len(s) + 1
  OBVIOUS
<1> HIDE DEF t
<1>2. \A x : In(x, t) <=> In(x, s) \/ x = n
  BY <1>1 DEF In
<1>3. IsInjective(s) /\ ~In(n, s) => IsInjective(t)
  BY <1>1 DEF In, IsInjective
<1> QED BY <1>1, <1>2, <1>3 DEF t

\* The tail of a sequence without repetition misses its head.
LEMMA TailFacts ==
  ASSUME NEW S, NEW s \in Seq(S), s # << >>
  PROVE  /\ Head(s) \in S /\ In(Head(s), s) /\ Tail(s) \in Seq(S)
         /\ \A x : In(x, Tail(s)) => In(x, s)
         /\ IsInjective(s) => IsInjective(Tail(s)) /\ ~In(Head(s), Tail(s))
<1>1. /\ Tail(s) \in Seq(S) /\ Len(Tail(s)) = Len(s) - 1
      /\ DOMAIN s = 1..Len(s) /\ 1 \in DOMAIN s /\ Head(s) = s[1]
      /\ \A i \in DOMAIN Tail(s) : i \in 1..(Len(s) - 1) /\ i + 1 \in DOMAIN s
                                   /\ Tail(s)[i] = s[i + 1] /\ i + 1 # 1
  OBVIOUS
<1>2. Head(s) \in S /\ In(Head(s), s)
  BY <1>1 DEF In
<1>3. \A x : In(x, Tail(s)) => In(x, s)
  BY <1>1 DEF In
<1>4. ASSUME IsInjective(s) PROVE IsInjective(Tail(s)) /\ ~In(Head(s), Tail(s))
  <2>1. \A i, k \in DOMAIN Tail(s) : i + 1 = k + 1 => i = k
    BY <1>1
  <2> QED BY <1>1, <1>4, <2>1 DEF In, IsInjective
<1> QED BY <1>1, <1>2, <1>3, <1>4
---------------------------------------------------------------------------
(* Scheduling                                                              *)

\* The head of the scheduling pass has a trigger to take.
LEMMA ReadyFacts ==
  ASSUME TypeOK, Buffered, NEW n \in Node, Ready(n)
  PROVE  /\ In(n, todo) /\ In(n, keys) /\ ~In(n, pending)
         /\ buffer[n] # << >> /\ Head(buffer[n]) \in Value
         /\ phase = "schedule" /\ todo # << >> /\ n = Head(todo)
<1>1. todo \in Seq(Node) /\ todo # << >> /\ n = Head(todo) /\ phase = "schedule"
  BY DEF Ready, TypeOK
<1>2. In(n, todo)
  BY <1>1, TailFacts
<1>3. In(n, keys) /\ buffer[n] # << >>
  BY <1>2 DEF Buffered
<1>4. buffer[n] \in Seq(Value)
  BY DEF TypeOK
<1>5. Head(buffer[n]) \in Value
  BY <1>3, <1>4
<1> QED BY <1>1, <1>2, <1>3, <1>5 DEF Ready, Held

\* popTrigger keeps the buffer and its keys in step.
LEMMA PopTriggerFacts ==
  ASSUME TypeOK, Buffered, NEW n \in Node, In(n, keys), buffer[n] # << >>,
         PopTrigger(n)
  PROVE  /\ keys' \in Seq(Node) /\ IsInjective(keys')
         /\ buffer' \in [Node -> Seq(Value)]
         /\ \A m \in Node : In(m, keys') <=> buffer'[m] # << >>
         /\ \A m \in Node : In(m, keys) /\ m # n => In(m, keys')
<1>1. /\ buffer[n] \in Seq(Value) /\ Tail(buffer[n]) \in Seq(Value)
      /\ Tail(buffer[n]) = << >> <=> Len(buffer[n]) = 1
  <2>1. buffer[n] \in Seq(Value)
    BY DEF TypeOK
  <2>2. Tail(buffer[n]) \in Seq(Value) /\ Len(Tail(buffer[n])) = Len(buffer[n]) - 1
    BY <2>1
  <2>3. Tail(buffer[n]) = << >> <=> Len(Tail(buffer[n])) = 0
    BY <2>2, EmptySeq
  <2> QED BY <2>1, <2>2, <2>3
<1>2. /\ buffer' \in [Node -> Seq(Value)] /\ buffer'[n] = Tail(buffer[n])
      /\ \A m \in Node : m # n => buffer'[m] = buffer[m]
  BY <1>1 DEF TypeOK, PopTrigger
<1>3. keys \in Seq(Node) /\ IsInjective(keys)
  BY DEF TypeOK, Buffered
<1>4. CASE Len(buffer[n]) = 1
  <2>1. keys' = Without(keys, n)
    BY <1>4 DEF PopTrigger
  <2> QED BY <1>1, <1>2, <1>3, <1>4, <2>1, WithoutFacts DEF Buffered
<1>5. CASE Len(buffer[n]) # 1
  <2>1. keys' = keys
    BY <1>5 DEF PopTrigger
  <2> QED BY <1>1, <1>2, <1>3, <1>5, <2>1 DEF Buffered
<1> QED BY <1>4, <1>5

\* Starting an activation, whatever it does with the node's history.
LEMMA TakeTriggerFacts ==
  ASSUME IInv, NEW n \in Node, Ready(n), TakeTrigger(n)
  PROVE  /\ todo' \in Seq(Node) /\ keys' \in Seq(Node) /\ pending' \in Seq(Node)
         /\ buffer' \in [Node -> Seq(Value)]
         /\ status' \in [Node -> {"NONE", "RUNNING", "WAITING", "COMPLETED", "FAILED"}]
         /\ interrupts' \in [Node -> SUBSET Interrupt]
         /\ activated' \subseteq Node
         /\ rehydrated' \in [Node -> Seq(Prior)]
         /\ Buffered' /\ Tracked' /\ Collected'
<1> USE DEF IInv
<1>1. /\ In(n, keys) /\ ~In(n, pending) /\ buffer[n] # << >>
      /\ phase = "schedule" /\ todo # << >> /\ n = Head(todo)
  BY ReadyFacts
<1>2. /\ keys' \in Seq(Node) /\ IsInjective(keys')
      /\ buffer' \in [Node -> Seq(Value)]
      /\ \A m \in Node : In(m, keys') <=> buffer'[m] # << >>
      /\ \A m \in Node : In(m, keys) /\ m # n => In(m, keys')
  BY <1>1, PopTriggerFacts DEF TakeTrigger
<1>3. /\ todo \in Seq(Node) /\ pending \in Seq(Node)
      /\ IsInjective(todo) /\ IsInjective(pending)
      /\ todo' = Tail(todo) /\ pending' = Append(pending, n) /\ phase' = phase
      /\ first' = first
  BY DEF TypeOK, Buffered, Tracked, TakeTrigger
<1>4. /\ todo' \in Seq(Node) /\ IsInjective(todo') /\ ~In(n, todo')
      /\ \A x : In(x, todo') => In(x, todo)
  BY <1>1, <1>3, TailFacts
<1>5. /\ pending' \in Seq(Node) /\ IsInjective(pending')
      /\ \A x : In(x, pending') <=> In(x, pending) \/ x = n
  BY <1>1, <1>3, AppendFacts
<1>6. /\ status' \in [Node -> {"NONE", "RUNNING", "WAITING", "COMPLETED", "FAILED"}]
      /\ \A m \in Node : status'[m] = IF m = n THEN "RUNNING" ELSE status[m]
  BY DEF TypeOK, TakeTrigger
<1>7. /\ interrupts' \in [Node -> SUBSET Interrupt]
      /\ \A m \in Node : interrupts'[m] = IF m = n THEN {} ELSE interrupts[m]
  BY DEF TypeOK, TakeTrigger
<1>8. interrupts[n] = {}
  BY DEF Ready, Held, Collected, TypeOK
<1>9. rehydrated' \in [Node -> Seq(Prior)]
  <2>1. rehydrated[n] \in Seq(Prior)
    BY DEF TypeOK
  <2>2. (IF rehydrated[n] = << >> THEN rehydrated[n] ELSE Tail(rehydrated[n])) \in Seq(Prior)
    BY <2>1
  <2> QED BY <2>2 DEF TypeOK, TakeTrigger
<1>10. Buffered'
  BY <1>1, <1>2, <1>3, <1>4 DEF Buffered
<1>11. Tracked'
  BY <1>3, <1>5, <1>6, <1>1 DEF Tracked, TypeOK
<1>12. Collected'
  <2>1. \A m \in Node : interrupts'[m] = interrupts[m]
    BY <1>7, <1>8
  <2>2. raised' = raised
    BY DEF TakeTrigger, doneVars
  <2>3. UNION {interrupts'[m] : m \in Node} = UNION {interrupts[m] : m \in Node}
    BY <2>1
  <2> QED BY <1>6, <1>7, <1>8, <2>2, <2>3 DEF Collected
<1>13. activated' \subseteq Node
  BY DEF TakeTrigger, TypeOK
<1> QED BY <1>2, <1>4, <1>5, <1>6, <1>7, <1>9, <1>10, <1>11, <1>12, <1>13
\* A run answered from the session.
LEMMA FastForwardStep ==
  ASSUME IInv, NEW n \in Node, FastForward(n) PROVE IInv'
<1>1. Ready(n) /\ TakeTrigger(n) /\ HasPrior(n)
  BY DEF FastForward, CanFastForward
<1>2. Head(buffer[n]) \in Value
  BY <1>1, ReadyFacts DEF IInv
<1>3. ThePrior(n).out \in Value /\ ThePrior(n).routes \in SUBSET Route
  <2>1. rehydrated[n] \in Seq(Prior) /\ rehydrated[n] # << >>
    BY <1>1 DEF IInv, TypeOK, HasPrior
  <2>2. Head(rehydrated[n]) \in Prior
    BY <2>1
  <2> QED BY <2>2 DEF ThePrior, Prior
<1>4. task' \in [Node -> Outcome]
  BY <1>3 DEF IInv, TypeOK, FastForward, Outcome
<1>5. input' \in [Node -> Value] /\ view' \in [Node -> SUBSET Interrupt]
  BY <1>2 DEF IInv, TypeOK, FastForward
<1>6. /\ UNCHANGED <<phase, downstream, relay, first, outputs, raised, resumeInputs, aborted>>
      /\ UNCHANGED <<reported, result, live, execs, runCounter>>
  BY <1>1 DEF FastForward, TakeTrigger, bodyVars, doneVars, endVars
<1>7. /\ todo' \in Seq(Node) /\ keys' \in Seq(Node) /\ pending' \in Seq(Node)
      /\ buffer' \in [Node -> Seq(Value)]
      /\ status' \in [Node -> {"NONE", "RUNNING", "WAITING", "COMPLETED", "FAILED"}]
      /\ interrupts' \in [Node -> SUBSET Interrupt] /\ activated' \subseteq Node
      /\ rehydrated' \in [Node -> Seq(Prior)] /\ Buffered' /\ Tracked' /\ Collected'
  BY <1>1, TakeTriggerFacts
<1>8. TypeOK
  BY DEF IInv
<1>9. TypeOK'
  BY <1>4, <1>5, <1>6, <1>7, <1>8 DEF TypeOK
<1> QED BY <1>7, <1>9 DEF IInv

\* A run that only asked completes with the answers.
LEMMA HandOverStep ==
  ASSUME IInv, NEW n \in Node, HandOver(n) PROVE IInv'
<1>1. Ready(n) /\ TakeTrigger(n) /\ HasPrior(n)
  BY DEF HandOver, CanHandOver
<1>2. Head(buffer[n]) \in Value
  BY <1>1, ReadyFacts DEF IInv
<1>3. ThePrior(n).ids \in Value
  <2>1. rehydrated[n] \in Seq(Prior) /\ rehydrated[n] # << >>
    BY <1>1 DEF IInv, TypeOK, HasPrior
  <2>2. Head(rehydrated[n]) \in Prior
    BY <2>1
  <2> QED BY <2>2 DEF ThePrior, Prior, Value, Token
<1>4. task' \in [Node -> Outcome]
  BY <1>3 DEF IInv, TypeOK, HandOver, Outcome
<1>5. input' \in [Node -> Value] /\ view' \in [Node -> SUBSET Interrupt]
  BY <1>2 DEF IInv, TypeOK, HandOver
<1>6. /\ UNCHANGED <<phase, downstream, relay, first, outputs, raised, resumeInputs, aborted>>
      /\ UNCHANGED <<reported, result, live, execs, runCounter>>
  BY <1>1 DEF HandOver, TakeTrigger, bodyVars, doneVars, endVars
<1>7. /\ todo' \in Seq(Node) /\ keys' \in Seq(Node) /\ pending' \in Seq(Node)
      /\ buffer' \in [Node -> Seq(Value)]
      /\ status' \in [Node -> {"NONE", "RUNNING", "WAITING", "COMPLETED", "FAILED"}]
      /\ interrupts' \in [Node -> SUBSET Interrupt] /\ activated' \subseteq Node
      /\ rehydrated' \in [Node -> Seq(Prior)] /\ Buffered' /\ Tracked' /\ Collected'
  BY <1>1, TakeTriggerFacts
<1>8. TypeOK
  BY DEF IInv
<1>9. TypeOK'
  BY <1>4, <1>5, <1>6, <1>7, <1>8 DEF TypeOK
<1> QED BY <1>7, <1>9 DEF IInv

\* A body starts.
LEMMA StartBodyStep ==
  ASSUME IInv, NEW n \in Node, StartBody(n) PROVE IInv'
<1>1. Ready(n) /\ TakeTrigger(n)
  BY DEF StartBody
<1>2. Head(buffer[n]) \in Value
  BY <1>1, ReadyFacts DEF IInv
<1>3. Resuming(n) => ThePrior(n).input \in Value
  <2> SUFFICES ASSUME Resuming(n) PROVE ThePrior(n).input \in Value
    OBVIOUS
  <2>1. rehydrated[n] \in Seq(Prior) /\ rehydrated[n] # << >>
    BY DEF IInv, TypeOK, Resuming, HasPrior
  <2>2. Head(rehydrated[n]) \in Prior
    BY <2>1
  <2> QED BY <2>2 DEF ThePrior, Prior
<1>4. task' \in [Node -> Outcome]
  BY DEF IInv, TypeOK, StartBody, Outcome, Running, NoTask, Value
<1>5. input' \in [Node -> Value] /\ view' \in [Node -> SUBSET Interrupt]
  BY <1>2, <1>3 DEF IInv, TypeOK, StartBody
<1>6. /\ execs' \in [Node -> Nat] /\ live' \subseteq Node \X Nat
      /\ runCounter' \in [Node -> Nat]
  <2>1. execs \in [Node -> Nat] /\ runCounter \in [Node -> Nat]
    BY DEF IInv, TypeOK
  <2>2. execs[n] + 1 \in Nat /\ runCounter[n] + 1 \in Nat
    BY <2>1
  <2>3. live' = live \cup {<<n, execs[n] + 1>>}
    BY DEF StartBody
  <2>4. live' \subseteq Node \X Nat
    BY <2>2, <2>3 DEF IInv, TypeOK
  <2> QED BY <2>1, <2>2, <2>4 DEF StartBody
<1>7. /\ UNCHANGED <<phase, downstream, relay, first, outputs, raised, resumeInputs, aborted>>
      /\ UNCHANGED <<reported, result>>
  BY <1>1 DEF TakeTrigger, doneVars, endVars
<1>8. /\ todo' \in Seq(Node) /\ keys' \in Seq(Node) /\ pending' \in Seq(Node)
      /\ buffer' \in [Node -> Seq(Value)]
      /\ status' \in [Node -> {"NONE", "RUNNING", "WAITING", "COMPLETED", "FAILED"}]
      /\ interrupts' \in [Node -> SUBSET Interrupt] /\ activated' \subseteq Node
      /\ rehydrated' \in [Node -> Seq(Prior)] /\ Buffered' /\ Tracked' /\ Collected'
  BY <1>1, TakeTriggerFacts
<1>9. TypeOK
  BY DEF IInv
<1>10. TypeOK'
  BY <1>4, <1>5, <1>6, <1>7, <1>8, <1>9 DEF TypeOK
<1> QED BY <1>8, <1>10 DEF IInv

\* The steps of a scheduling pass that start nothing.
LEMMA PassStep ==
  ASSUME IInv, SkipHeld \/ StopAtLimit \/ Race PROVE IInv'
<1>1. CASE SkipHeld
  <2>1. todo \in Seq(Node) /\ todo # << >> /\ todo' = Tail(todo) /\ phase = "schedule"
    BY <1>1 DEF SkipHeld, IInv, TypeOK
  <2>2. todo' \in Seq(Node) /\ (\A x : In(x, todo') => In(x, todo)) /\ IsInjective(todo')
    BY <2>1, TailFacts DEF IInv, Buffered
  <2>3. TypeOK'
    BY <1>1, <2>2 DEF SkipHeld, IInv, TypeOK, bufVars, taskVars, bodyVars, nodeVars,
                      runVars, doneVars, endVars
  <2> QED BY <1>1, <2>1, <2>2, <2>3
          DEF SkipHeld, IInv, Buffered, Tracked, Collected, bufVars, taskVars, nodeVars,
              doneVars
<1>2. CASE StopAtLimit
  <2>1. todo' = << >> /\ todo' \in Seq(Node) /\ IsInjective(todo') /\ \A x : ~In(x, todo')
    BY <1>2 DEF StopAtLimit, IsInjective, In
  <2>2. TypeOK'
    BY <1>2, <2>1 DEF StopAtLimit, IInv, TypeOK, bufVars, taskVars, bodyVars, nodeVars,
                      runVars, doneVars, endVars
  <2> QED BY <1>2, <2>1, <2>2
          DEF StopAtLimit, IInv, Buffered, Tracked, Collected, bufVars, taskVars, nodeVars,
              doneVars
<1>3. CASE Race
  <2>1. \A n \in FirstSettled : n \in Node /\ In(n, pending)
    BY DEF FirstSettled, In, IInv, TypeOK
  <2>2. TypeOK'
    BY <1>3, <2>1 DEF Race, IInv, TypeOK, bufVars, taskVars, bodyVars, nodeVars,
                      runVars, doneVars, endVars
  <2> QED BY <1>3, <2>1, <2>2
          DEF Race, IInv, Buffered, Tracked, Collected, bufVars, taskVars, nodeVars,
              doneVars
<1> QED BY <1>1, <1>2, <1>3

---------------------------------------------------------------------------
(* Bodies                                                                  *)

\* A body ends, or the signal fires: only the race can change.
LEMMA BodyStepFacts ==
  ASSUME IInv,
         Abort \/ \E r \in live : \E e \in Endings(r[1]) : Settle(r[1], r[2], e)
  PROVE  IInv'
<1>1. CASE Abort
  <2>1. TypeOK'
    BY <1>1 DEF Abort, IInv, TypeOK, loopVars, bufVars, taskVars, bodyVars, nodeVars,
                runVars, doneVars, endVars
  <2>2. Buffered'
    BY <1>1 DEF Abort, IInv, Buffered, loopVars, bufVars
  <2>3. Tracked'
    BY <1>1 DEF Abort, IInv, Tracked, loopVars, taskVars, nodeVars
  <2>4. Collected'
    BY <1>1 DEF Abort, IInv, Collected, nodeVars, doneVars
  <2> QED BY <2>1, <2>2, <2>3, <2>4 DEF IInv
<1>2. ASSUME NEW r \in live, NEW e \in Endings(r[1]), Settle(r[1], r[2], e) PROVE IInv'
  <2>1. PICK n \in Node, k \in Nat : r = <<n, k>>
    BY DEF IInv, TypeOK
  <2>2. Settle(n, k, e) /\ e \in Ending
    BY <1>2, <2>1, BoundAssumption DEF Endings
  <2>3. task' \in [Node -> Outcome]
    <3>1. (IF e.yields THEN {<<n, k>>} ELSE {}) \in Value
      BY DEF Value, Token
    <3>2. [kind |-> e.kind, out |-> IF e.yields THEN {<<n, k>>} ELSE {},
           routes |-> e.routes, ids |-> e.ids] \in Outcome
      BY <2>2, <3>1 DEF Ending, Outcome
    <3> QED BY <2>2, <3>2 DEF Settle, IInv, TypeOK
  <2>4. first' \subseteq Node /\ \A m \in first' : In(m, pending)
    BY <2>2 DEF Settle, IInv, TypeOK, Tracked
  <2>5. live' \subseteq Node \X Nat
    BY <2>2 DEF Settle, IInv, TypeOK
  <2>6. TypeOK'
    BY <2>2, <2>3, <2>4, <2>5
    DEF Settle, IInv, TypeOK, bufVars, nodeVars, runVars, doneVars, endVars
  <2> QED BY <2>2, <2>4, <2>6
          DEF Settle, IInv, Buffered, Tracked, Collected, bufVars, nodeVars, doneVars
<1> QED BY <1>1, <1>2
---------------------------------------------------------------------------
(* Completion handling                                                     *)

\* The race delivers a pending node, which is therefore running.
LEMMA DeliveredFacts ==
  ASSUME IInv, NEW n \in Node, Delivered(n)
  PROVE  /\ In(n, pending) /\ status[n] = "RUNNING" /\ interrupts[n] = {}
         /\ todo = << >> /\ task[n] \in Outcome
<1>1. n \in first /\ phase = "race"
  BY DEF Delivered
<1>2. In(n, pending) /\ status[n] = "RUNNING"
  BY <1>1 DEF IInv, Tracked
<1> QED BY <1>1, <1>2 DEF IInv, TypeOK, Buffered, Collected

\* Taking a delivered node off the map of pending tasks.
LEMMA DequeueFacts ==
  ASSUME IInv, NEW n \in Node, Delivered(n), Dequeue(n)
  PROVE  /\ pending' \in Seq(Node) /\ IsInjective(pending') /\ first' = {}
         /\ \A m : In(m, pending') <=> In(m, pending) /\ m # n
         /\ task' \in [Node -> Outcome]
<1>1. In(n, pending) /\ pending \in Seq(Node) /\ IsInjective(pending)
  BY DeliveredFacts DEF IInv, TypeOK, Tracked
<1>2. /\ pending' \in Seq(Node) /\ IsInjective(pending')
      /\ \A m : In(m, pending') <=> In(m, pending) /\ m # n
  BY <1>1, WithoutFacts DEF Dequeue
<1>3. task' \in [Node -> Outcome]
  BY DEF Dequeue, IInv, TypeOK, NoTask, Outcome, Value
<1> QED BY <1>2, <1>3 DEF Dequeue

\* The next pass looks at the keys of the buffer.
LEMMA NewPass ==
  ASSUME IInv, UNCHANGED bufVars, phase' = "schedule", todo' = keys
  PROVE  Buffered' /\ todo' \in Seq(Node)
BY DEF IInv, TypeOK, Buffered, bufVars

\* A node failed: nothing is pending any more.
LEMMA DeliverErrorStep ==
  ASSUME IInv, NEW n \in Node, DeliverError(n) PROVE IInv'
<1>1. /\ In(n, pending) /\ status[n] = "RUNNING" /\ interrupts[n] = {} /\ todo = << >>
  BY DeliveredFacts DEF DeliverError
<1>2. pending' = << >> /\ pending' \in Seq(Node) /\ IsInjective(pending')
      /\ \A m : ~In(m, pending')
  BY DEF DeliverError, IsInjective, In
<1>3. task' \in [Node -> Outcome]
  BY DEF DeliverError, NoTask, Outcome, Value
<1>4. status' \in [Node -> {"NONE", "RUNNING", "WAITING", "COMPLETED", "FAILED"}]
      /\ \A m \in Node : status'[m] = IF m = n THEN "FAILED" ELSE status[m]
  BY DEF DeliverError, IInv, TypeOK
<1>5. reported' \in BOOLEAN /\ first' = {}
  BY DEF DeliverError
<1>6. TypeOK'
  BY <1>2, <1>3, <1>4, <1>5
  DEF DeliverError, IInv, TypeOK, bufVars, bodyVars, runVars, doneVars
<1>7. Buffered'
  BY <1>1 DEF DeliverError, IInv, Buffered, bufVars
<1>8. Tracked'
  BY <1>2, <1>5 DEF Tracked
<1>9. Collected'
  BY <1>1, <1>4 DEF DeliverError, IInv, Collected, doneVars
<1> QED BY <1>6, <1>7, <1>8, <1>9 DEF IInv

\* A node asked: what it asked joins what the loop has collected.
LEMMA DeliverInterruptStep ==
  ASSUME IInv, NEW n \in Node, DeliverInterrupt(n) PROVE IInv'
<1>1. /\ Delivered(n) /\ Dequeue(n) /\ task[n] \in Outcome /\ interrupts[n] = {}
      /\ task[n].ids \subseteq Interrupt
  BY DeliveredFacts DEF DeliverInterrupt, Outcome
<1>2. status' \in [Node -> {"NONE", "RUNNING", "WAITING", "COMPLETED", "FAILED"}]
      /\ \A m \in Node : status'[m] = IF m = n THEN "WAITING" ELSE status[m]
  BY DEF DeliverInterrupt, IInv, TypeOK
<1>3. interrupts' \in [Node -> SUBSET Interrupt]
      /\ \A m \in Node : interrupts'[m] = IF m = n THEN task[n].ids ELSE interrupts[m]
  BY <1>1 DEF DeliverInterrupt, IInv, TypeOK
<1>4. raised' = raised \cup task[n].ids /\ raised' \subseteq Interrupt
  BY <1>1 DEF DeliverInterrupt, IInv, TypeOK
<1>5. Buffered' /\ todo' \in Seq(Node)
  BY NewPass DEF DeliverInterrupt
<1>6. TypeOK'
  BY <1>1, <1>2, <1>3, <1>4, <1>5, DequeueFacts
  DEF DeliverInterrupt, IInv, TypeOK, bufVars, bodyVars, runVars, endVars
<1>7. Tracked'
  BY <1>1, <1>2, DequeueFacts DEF IInv, Tracked, TypeOK
<1>8. Collected'
  <2>1. UNION {interrupts'[m] : m \in Node}
          = (UNION {interrupts[m] : m \in Node}) \cup task[n].ids
    BY <1>1, <1>3
  <2> QED BY <1>2, <1>3, <1>4, <2>1 DEF IInv, Collected
<1> QED BY <1>5, <1>6, <1>7, <1>8 DEF IInv

\* A node waits for another trigger, or completed: it asked nothing.
LEMMA DeliverQuietStep ==
  ASSUME IInv, NEW n \in Node, DeliverWait(n) \/ DeliverCompletion(n) PROVE IInv'
<1>1. /\ Delivered(n) /\ Dequeue(n) /\ task[n] \in Outcome /\ interrupts[n] = {}
      /\ todo = << >>
  BY DeliveredFacts DEF DeliverWait, DeliverCompletion
<1>2. status' \in [Node -> {"NONE", "RUNNING", "WAITING", "COMPLETED", "FAILED"}]
      /\ \A m \in Node : m # n => status'[m] = status[m]
  BY DEF DeliverWait, DeliverCompletion, IInv, TypeOK
<1>3. UNCHANGED <<interrupts, raised>>
  BY DEF DeliverWait, DeliverCompletion, doneVars
<1>4. Buffered' /\ todo' \in Seq(Node)
  <2>1. CASE DeliverWait(n)
    BY <2>1, NewPass DEF DeliverWait
  <2>2. CASE DeliverCompletion(n)
    BY <1>1, <2>2 DEF DeliverCompletion, IInv, TypeOK, Buffered, bufVars
  <2> QED BY <2>1, <2>2
<1>5. outputs' \in [Node -> Value]
  <2>1. task[n].out \in Value
    BY <1>1 DEF Outcome
  <2> QED BY <2>1 DEF DeliverWait, DeliverCompletion, doneVars, IInv, TypeOK
<1>6. downstream' \in Seq(Node) /\ relay' \in Value
  <2>1. task[n].out \in Value /\ task[n].routes \in SUBSET Route
    BY <1>1 DEF Outcome
  <2>2. Targets[n][task[n].routes] \in Seq(Node)
    BY <2>1, GraphAssumption
  <2> QED BY <2>1, <2>2 DEF DeliverWait, DeliverCompletion, IInv, TypeOK
<1>7. TypeOK'
  BY <1>1, <1>2, <1>3, <1>4, <1>5, <1>6, DequeueFacts
  DEF DeliverWait, DeliverCompletion, IInv, TypeOK, bufVars, bodyVars, runVars, endVars
<1>8. Tracked'
  BY <1>1, <1>2, DequeueFacts DEF IInv, Tracked, TypeOK
<1>9. Collected'
  BY <1>1, <1>2, <1>3 DEF IInv, Collected
<1> QED BY <1>4, <1>7, <1>8, <1>9 DEF IInv

---------------------------------------------------------------------------
(* Fan-out and the end of the turn                                         *)

\* pushTrigger keeps the buffer and its keys in step.
LEMMA PushTriggerFacts ==
  ASSUME TypeOK, Buffered, NEW n \in Node, NEW v \in Value, PushTrigger(n, v)
  PROVE  /\ keys' \in Seq(Node) /\ IsInjective(keys')
         /\ buffer' \in [Node -> Seq(Value)]
         /\ \A m \in Node : In(m, keys') <=> buffer'[m] # << >>
<1>1. buffer[n] \in Seq(Value)
  BY DEF TypeOK
<1>2. Append(buffer[n], v) \in Seq(Value) /\ Append(buffer[n], v) # << >>
  BY <1>1
<1>3. /\ buffer' \in [Node -> Seq(Value)]
      /\ \A m \in Node : buffer'[m] = IF m = n THEN Append(buffer[n], v) ELSE buffer[m]
  BY <1>2 DEF PushTrigger, TypeOK
<1>4. keys \in Seq(Node) /\ IsInjective(keys)
  BY DEF TypeOK, Buffered
<1>5. CASE In(n, keys)
  BY <1>2, <1>3, <1>4, <1>5 DEF PushTrigger, Buffered
<1>6. CASE ~In(n, keys)
  <2>1. keys' = Append(keys, n)
    BY <1>6 DEF PushTrigger
  <2> QED BY <1>2, <1>3, <1>4, <1>6, <2>1, AppendFacts DEF Buffered
<1> QED BY <1>5, <1>6

\* Triggering one successor.
LEMMA FanoutStep ==
  ASSUME IInv, Fanout PROVE IInv'
<1>1. /\ downstream \in Seq(Node) /\ downstream # << >> /\ phase = "fanout"
      /\ todo = << >>
  BY DEF Fanout, IInv, TypeOK, Buffered
<1>2. PICK n \in Node : n = Head(downstream)
  BY <1>1
<1>3. \/ UNCHANGED bufVars
      \/ \E v \in Value : PushTrigger(n, v)
  <2>1. JoinInput(n) \in Value
    <3>1. \A p \in Preds[n] \ {START} : outputs[p] \in Value
      BY GraphAssumption DEF IInv, TypeOK
    <3> QED BY <3>1 DEF JoinInput, Value
  <2>2. relay \in Value
    BY DEF IInv, TypeOK
  <2> QED BY <1>2, <2>1, <2>2 DEF Fanout
<1>4. /\ keys' \in Seq(Node) /\ IsInjective(keys')
      /\ buffer' \in [Node -> Seq(Value)]
      /\ \A m \in Node : In(m, keys') <=> buffer'[m] # << >>
  <2>1. CASE UNCHANGED bufVars
    BY <2>1 DEF bufVars, IInv, TypeOK, Buffered
  <2>2. CASE \E v \in Value : PushTrigger(n, v)
    BY <2>2, PushTriggerFacts DEF IInv
  <2> QED BY <1>3, <2>1, <2>2
<1>5. downstream' \in Seq(Node)
  BY <1>1 DEF Fanout
<1>6. TypeOK'
  BY <1>4, <1>5 DEF Fanout, IInv, TypeOK, taskVars, bodyVars, nodeVars, runVars,
                    doneVars, endVars
<1>7. Buffered'
  <2>1. todo' = << >> /\ \A x : ~In(x, todo')
    BY <1>1 DEF Fanout, In
  <2>2. IsInjective(todo')
    BY <2>1 DEF IsInjective
  <2> QED BY <1>4, <2>1, <2>2 DEF Buffered
<1>8. Tracked' /\ Collected'
  BY DEF Fanout, IInv, Tracked, Collected, taskVars, nodeVars, doneVars
<1> QED BY <1>6, <1>7, <1>8 DEF IInv

\* The next pass begins.
LEMMA NextPassStep ==
  ASSUME IInv, NextPass PROVE IInv'
<1>1. Buffered' /\ todo' \in Seq(Node)
  BY NewPass DEF NextPass
<1>2. TypeOK'
  BY <1>1 DEF NextPass, IInv, TypeOK, bufVars, taskVars, bodyVars, nodeVars, runVars,
              doneVars, endVars
<1> QED BY <1>1, <1>2 DEF NextPass, IInv, Tracked, Collected, taskVars, nodeVars, doneVars

\* What the workflow reports is what it has collected.
LEMMA RemainingFacts ==
  ASSUME IInv
  PROVE  /\ Remaining = raised
         /\ raised = UNION {interrupts[n] : n \in {m \in Node : status[m] = "WAITING"}}
BY DEF IInv, Collected, Remaining

\* The turn ends.
LEMMA EndStep ==
  ASSUME IInv, Rethrow \/ Finalize PROVE IInv'
<1>1. todo = << >> /\ UNCHANGED <<todo, bufVars, taskVars, first, nodeVars>>
  BY DEF Rethrow, Finalize, IInv, Buffered
<1>2. phase' \in {"returned", "threw"}
  BY DEF Rethrow, Finalize
<1>3. raised' = raised
  BY RemainingFacts DEF Rethrow, Finalize, doneVars
<1>4. result' \in [kind : {"none", "output", "interrupted", "conflict", "error"},
                   out : Value, ids : SUBSET Interrupt]
  <2>1. Remaining \subseteq Interrupt
    BY RemainingFacts DEF IInv, TypeOK
  <2>2. UNION {outputs[n] : n \in TerminalOutputs} \in Value
    <3>1. \A n \in TerminalOutputs : outputs[n] \in Value
      BY GraphAssumption DEF TerminalOutputs, IInv, TypeOK
    <3> QED BY <3>1 DEF Value
  <2>3. {} \in Value
    BY DEF Value
  <2>4. CASE Rethrow
    BY <2>3, <2>4 DEF Rethrow, NoResult
  <2>5. CASE Finalize
    BY <2>1, <2>2, <2>3, <2>5 DEF Finalize, NoResult
  <2> QED BY <2>4, <2>5
<1>5. TypeOK'
  BY <1>1, <1>2, <1>3, <1>4
  DEF Rethrow, Finalize, IInv, TypeOK, bufVars, taskVars, bodyVars, nodeVars, runVars,
      doneVars
<1>6. Buffered'
  BY <1>1 DEF IInv, Buffered, bufVars
<1>7. Tracked' /\ Collected'
  BY <1>1, <1>3 DEF IInv, Tracked, Collected, taskVars, nodeVars
<1> QED BY <1>5, <1>6, <1>7 DEF IInv
---------------------------------------------------------------------------
(* The theorems                                                            *)

\* The state a turn begins in: a new LoopState, and what it resumes from.
Begins ==
  /\ phase = "schedule" /\ todo = StartTargets
  /\ downstream = << >> /\ relay = {} /\ first = {}
  /\ keys = StartTargets /\ buffer = SeedBuffer
  /\ pending = << >> /\ task = None(NoTask) /\ live = {}
  /\ status = None("NONE") /\ interrupts = None({})
  /\ runCounter = None(0) /\ input = None({}) /\ view = None({})
  /\ activated = {} /\ outputs = None({}) /\ raised = {} /\ aborted = FALSE
  /\ reported = FALSE /\ result = NoResult
  /\ execs \in [Node -> Nat] /\ rehydrated \in [Node -> Seq(Prior)]
  /\ resumeInputs \subseteq Interrupt

LEMMA InitBegins == Init => Begins
<1> SUFFICES ASSUME Init PROVE Begins
  OBVIOUS
<1>1. PICK h \in History : rehydrated = h.prior /\ resumeInputs = h.answers BY DEF Init
<1>2. h \in [prior : [Node -> Seq(Prior)], answers : SUBSET Interrupt] BY HistoryAssumption
<1>3. rehydrated \in [Node -> Seq(Prior)] /\ resumeInputs \subseteq Interrupt BY <1>1, <1>2
<1>4. execs \in [Node -> Nat] BY DEF Init, None
<1> QED BY <1>3, <1>4 DEF Init, Begins

\* A fresh loop satisfies the invariant.
LEMMA IInvBegins == Begins => IInv
<1> SUFFICES ASSUME Begins PROVE IInv
  OBVIOUS
<1> USE GraphAssumption
<1>1. buffer \in [Node -> Seq(Value)]
  <2>1. <<{}>> \in Seq(Value) /\ << >> \in Seq(Value)
    BY DEF Value
  <2> QED BY <2>1 DEF Begins, SeedBuffer
<1>2. \A n \in Node : /\ task[n] = NoTask /\ status[n] = "NONE" /\ interrupts[n] = {}
                      /\ runCounter[n] = 0 /\ input[n] = {}
                      /\ view[n] = {} /\ outputs[n] = {}
  BY DEF Begins, None
<1>3. task \in [Node -> Outcome] /\ result \in [kind : {"none", "output", "interrupted",
                                                     "conflict", "error"},
                                              out : Value, ids : SUBSET Interrupt]
  BY DEF Begins, None, NoTask, NoResult, Outcome, Value
<1>4. /\ status \in [Node -> {"NONE", "RUNNING", "WAITING", "COMPLETED", "FAILED"}]
      /\ interrupts \in [Node -> SUBSET Interrupt]
      /\ runCounter \in [Node -> Nat] /\ execs \in [Node -> Nat]
      /\ input \in [Node -> Value] /\ outputs \in [Node -> Value]
      /\ view \in [Node -> SUBSET Interrupt]
  BY DEF Begins, None, Value
<1>10. rehydrated \in [Node -> Seq(Prior)] /\ resumeInputs \subseteq Interrupt
  BY DEF Begins
<1>5. TypeOK
  <2>1. /\ todo \in Seq(Node) /\ keys \in Seq(Node)
        /\ downstream \in Seq(Node) /\ pending \in Seq(Node)
    BY DEF Begins
  <2>2. relay \in Value /\ first \subseteq Node /\ live \subseteq Node \X Nat
    BY DEF Begins, Value
  <2>3. /\ phase = "schedule" /\ activated = {} /\ raised = {}
        /\ aborted = FALSE /\ reported = FALSE
    BY DEF Begins
  <2> QED BY <1>1, <1>3, <1>4, <1>10, <2>1, <2>2, <2>3 DEF TypeOK
<1>6. Buffered
  BY DEF Begins, Buffered, SeedBuffer
<1>7. pending = << >> /\ first = {} /\ raised = {}
  BY DEF Begins
<1>8. Tracked
  BY <1>7 DEF Tracked, IsInjective, In
<1>9. Collected
  BY <1>2, <1>7 DEF Collected
<1> QED BY <1>5, <1>6, <1>8, <1>9 DEF IInv

LEMMA IInvInit == Init => IInv
BY InitBegins, IInvBegins

\* Every step preserves the invariant.
LEMMA IInvStep == IInv /\ [Next]_vars => IInv'
<1> SUFFICES ASSUME IInv, [Next]_vars PROVE IInv'
  OBVIOUS
<1>1. ASSUME LoopStep PROVE IInv'
  <2>1. CASE SkipHeld \/ StopAtLimit \/ Race
    BY <2>1, PassStep
  <2>2. CASE \E n \in Node : FastForward(n) \/ HandOver(n) \/ StartBody(n)
    BY <2>2, FastForwardStep, HandOverStep, StartBodyStep
  <2>3. CASE \E n \in Node : \/ DeliverError(n) \/ DeliverInterrupt(n)
                             \/ DeliverWait(n) \/ DeliverCompletion(n)
    BY <2>3, DeliverErrorStep, DeliverInterruptStep, DeliverQuietStep
  <2>4. CASE Fanout
    BY <2>4, FanoutStep
  <2>5. CASE NextPass
    BY <2>5, NextPassStep
  <2>6. CASE Rethrow \/ Finalize
    BY <2>6, EndStep
  <2> QED BY <1>1, <2>1, <2>2, <2>3, <2>4, <2>5, <2>6 DEF LoopStep
<1>2. CASE BodyStep \/ Abort
  BY <1>2, BodyStepFacts DEF BodyStep
<1>3. CASE UNCHANGED vars
  <2>1. TypeOK'
    BY <1>3 DEF vars, IInv, TypeOK, loopVars, bufVars, taskVars, bodyVars, nodeVars,
                runVars, doneVars, endVars
  <2>2. Buffered'
    BY <1>3 DEF vars, IInv, Buffered, loopVars, bufVars
  <2>3. Tracked'
    BY <1>3 DEF vars, IInv, Tracked, loopVars, taskVars, nodeVars
  <2>4. Collected'
    BY <1>3 DEF vars, IInv, Collected, nodeVars, doneVars
  <2> QED BY <2>1, <2>2, <2>3, <2>4 DEF IInv
<1> QED BY <1>1, <1>2, <1>3 DEF Next, Terminated

\* The variables keep their types: in particular no trigger is taken from an
\* empty queue (scheduleReadyNodes).
THEOREM TypeCorrect == Spec => []TypeOK
<1>1. IInv => TypeOK
  BY DEF IInv
<1> QED BY <1>1, IInvInit, IInvStep, PTL DEF Spec

LEMMA AsksStep == IInv /\ AsksInsteadOfAnswering /\ [Next]_vars => AsksInsteadOfAnswering'
<1> SUFFICES ASSUME IInv, AsksInsteadOfAnswering, [Next]_vars PROVE AsksInsteadOfAnswering'
  OBVIOUS
<1> USE DEF AsksInsteadOfAnswering
<1>1. CASE Finalize
  <2> DEFINE asked == UNION {interrupts[n] : n \in {m \in Node : status[m] = "WAITING"}}
  <2>1. Remaining = asked
    BY RemainingFacts
  <2>2. asked' = asked
    BY <1>1 DEF Finalize, nodeVars
  <2>3. /\ result'.ids = asked
        /\ asked # {} => result'.kind = "interrupted" /\ result'.out = {}
    BY <1>1, <2>1 DEF Finalize, NoResult
  <2> QED BY <2>2, <2>3
<1>2. CASE UNCHANGED <<phase, nodeVars, result>>
  BY <1>2 DEF nodeVars
<1>3. CASE phase' # "returned"
  BY <1>3
<1>4. \/ Finalize
      \/ UNCHANGED <<phase, nodeVars, result>>
      \/ phase' # "returned"
  <2>1. CASE LoopStep
    <3>1. CASE SkipHeld \/ StopAtLimit \/ Race \/ Fanout \/ NextPass \/ Rethrow
      BY <3>1 DEF SkipHeld, StopAtLimit, Race, Fanout, NextPass, Rethrow
    <3>2. CASE \E n \in Node : FastForward(n) \/ HandOver(n) \/ StartBody(n)
      BY <3>2 DEF FastForward, HandOver, StartBody, TakeTrigger, Ready
    <3>3. CASE \E n \in Node : \/ DeliverError(n) \/ DeliverInterrupt(n)
                               \/ DeliverWait(n) \/ DeliverCompletion(n)
      BY <3>3 DEF DeliverError, DeliverInterrupt, DeliverWait, DeliverCompletion
    <3> QED BY <2>1, <3>1, <3>2, <3>3 DEF LoopStep
  <2>2. CASE BodyStep
    BY <2>2 DEF BodyStep, Settle
  <2>3. CASE Abort
    BY <2>3 DEF Abort, loopVars, nodeVars, endVars
  <2>4. CASE UNCHANGED vars
    BY <2>4 DEF vars, loopVars, nodeVars, endVars
  <2> QED BY <2>1, <2>2, <2>3, <2>4 DEF Next, Terminated
<1> QED BY <1>1, <1>2, <1>3, <1>4

\* Whatever the graph, a turn in which some node still waits for an answer
\* reports exactly the open questions, and no output (finalize).
THEOREM OpenQuestionsAreReported == Spec => []AsksInsteadOfAnswering
<1>1. Init => AsksInsteadOfAnswering
  BY DEF Init, AsksInsteadOfAnswering
<1> QED BY <1>1, AsksStep, IInvInit, IInvStep, PTL DEF Spec

---------------------------------------------------------------------------
(* No trigger is lost                                                      *)

\* A scheduling pass passes over a trigger for a reason that still holds.
Passed ==
  phase = "schedule" =>
    \A n \in Node : buffer[n] # << >> /\ ~In(n, todo) => Held(n) \/ AtConcurrencyLimit

\* Until a node fails, what runs is pending.
Failing == phase \in {"cleanup", "threw"}
RunningIsPending ==
  ~Failing => \A n \in Node : status[n] = "RUNNING" => In(n, pending)

\* Until a node fails, a body that executes is the last one of a pending task
\* that has not resolved.
LiveIsPending ==
  ~Failing => \A r \in live : /\ In(r[1], pending)
                              /\ task[r[1]].kind = "running"
                              /\ r[2] = execs[r[1]]

Accounted == Passed /\ RunningIsPending /\ LiveIsPending

\* What is behind the head of a pass is looked at later.
LEMMA BehindHead ==
  ASSUME NEW S, NEW s \in Seq(S), s # << >>, NEW x, In(x, s)
  PROVE  x = Head(s) \/ In(x, Tail(s))
<1>1. PICK i \in 1..Len(s) : s[i] = x BY DEF In
<1>2. CASE i = 1 BY <1>1, <1>2
<1>3. CASE i # 1
  <2>1. i - 1 \in DOMAIN Tail(s) /\ Tail(s)[i - 1] = x BY <1>1, <1>3
  <2> QED BY <2>1 DEF In
<1> QED BY <1>2, <1>3

\* Starting an activation, whatever it does with the node's history.
LEMMA AccountedTake ==
  ASSUME IInv, Accounted, NEW n \in Node, Ready(n), TakeTrigger(n),
         \/ UNCHANGED bodyVars
         \/ /\ task' = [task EXCEPT ![n] = Running]
            /\ execs' = [execs EXCEPT ![n] = @ + 1]
            /\ live' = live \cup {<<n, execs[n] + 1>>},
         \A m \in Node : m # n => task'[m] = task[m]
  PROVE  Accounted'
<1>1. /\ phase = "schedule" /\ phase' = "schedule" /\ todo # << >> /\ n = Head(todo)
      /\ ~In(n, pending) /\ ~AtConcurrencyLimit /\ buffer[n] # << >>
  BY ReadyFacts DEF IInv, Ready, TakeTrigger
<1>2. /\ todo \in Seq(Node) /\ todo' = Tail(todo)
      /\ pending \in Seq(Node) /\ pending' = Append(pending, n)
  BY DEF IInv, TypeOK, TakeTrigger
<1>3. \A x : In(x, pending') <=> In(x, pending) \/ x = n BY <1>2, AppendFacts
<1>4. \A m \in Node : m # n => /\ status'[m] = status[m]
                               /\ interrupts'[m] = interrupts[m]
                               /\ buffer'[m] = buffer[m]
  BY DEF IInv, TypeOK, TakeTrigger, PopTrigger
<1>5. Passed'
  <2>1. ASSUME NEW m \in Node, buffer'[m] # << >>, ~In(m, todo')
        PROVE  Held(m)'
    <3>1. CASE m = n BY <1>3, <3>1 DEF Held
    <3>2. CASE m # n
      <4>1. ~In(m, todo) BY <1>1, <1>2, <2>1, <3>2, BehindHead
      <4>2. Held(m) BY <1>1, <1>4, <2>1, <3>2, <4>1 DEF Accounted, Passed
      <4> QED BY <1>3, <1>4, <3>2, <4>2 DEF Held
    <3> QED BY <3>1, <3>2
  <2> QED BY <2>1 DEF Passed
<1>6. RunningIsPending' BY <1>1, <1>3, <1>4 DEF Accounted, RunningIsPending, Failing
<1>7. LiveIsPending'
  <2>1. \A r \in live : /\ r[1] \in Node /\ r[1] # n /\ In(r[1], pending)
                        /\ task[r[1]].kind = "running" /\ r[2] = execs[r[1]]
    BY <1>1 DEF Accounted, LiveIsPending, Failing, IInv, TypeOK
  <2>2. CASE UNCHANGED bodyVars
    BY <1>3, <2>1, <2>2 DEF LiveIsPending, bodyVars
  <2>3. CASE /\ task' = [task EXCEPT ![n] = Running]
             /\ execs' = [execs EXCEPT ![n] = @ + 1]
             /\ live' = live \cup {<<n, execs[n] + 1>>}
    <3>1. task'[n].kind = "running" /\ execs'[n] = execs[n] + 1
      BY <2>3 DEF IInv, TypeOK, Running, NoTask
    <3>2. \A m \in Node : m # n => execs'[m] = execs[m] BY <2>3 DEF IInv, TypeOK
    <3>3. ASSUME NEW r \in live'
          PROVE  In(r[1], pending') /\ task'[r[1]].kind = "running" /\ r[2] = execs'[r[1]]
      <4>1. CASE r \in live BY <1>3, <2>1, <3>2, <4>1
      <4>2. CASE r = <<n, execs[n] + 1>> BY <1>3, <3>1, <4>2
      <4> QED BY <2>3, <4>1, <4>2
    <3> QED BY <3>3 DEF LiveIsPending
  <2> QED BY <2>2, <2>3
<1> QED BY <1>5, <1>6, <1>7 DEF Accounted

LEMMA AccountedStart ==
  ASSUME IInv, Accounted, NEW n \in Node, FastForward(n) \/ HandOver(n) \/ StartBody(n)
  PROVE  Accounted'
<1>1. Ready(n) /\ TakeTrigger(n) BY DEF FastForward, HandOver, StartBody
<1>2. \A m \in Node : m # n => task'[m] = task[m]
  BY DEF FastForward, HandOver, StartBody, IInv, TypeOK
<1>3. \/ UNCHANGED bodyVars
      \/ /\ task' = [task EXCEPT ![n] = Running]
         /\ execs' = [execs EXCEPT ![n] = @ + 1]
         /\ live' = live \cup {<<n, execs[n] + 1>>}
  BY DEF FastForward, HandOver, StartBody
<1> QED BY <1>1, <1>2, <1>3, AccountedTake

\* The pass goes on, or ends.
LEMMA AccountedPass ==
  ASSUME IInv, Accounted,
         SkipHeld \/ StopAtLimit \/ Race \/ Fanout \/ NextPass \/ Rethrow \/ Finalize
  PROVE  Accounted'
<1>1. UNCHANGED <<pending, task, live, execs, status, interrupts>>
  BY DEF SkipHeld, StopAtLimit, Race, Fanout, NextPass, Rethrow, Finalize, taskVars,
     bodyVars, nodeVars
<1>2. Failing => Failing'
  BY DEF SkipHeld, StopAtLimit, Race, Fanout, NextPass, Rethrow, Finalize, Failing
<1>3. RunningIsPending' /\ LiveIsPending'
  BY <1>1, <1>2 DEF Accounted, RunningIsPending, LiveIsPending
<1>4. \A n \in Node : Held(n)' <=> Held(n) BY <1>1 DEF Held
<1>5. AtConcurrencyLimit' <=> AtConcurrencyLimit BY <1>1 DEF AtConcurrencyLimit
<1>6. Passed'
  <2>1. CASE SkipHeld
    <3>1. /\ phase = "schedule" /\ todo # << >> /\ todo' = Tail(todo) /\ todo \in Seq(Node)
          /\ Held(Head(todo)) /\ UNCHANGED buffer
      BY <2>1 DEF SkipHeld, IInv, TypeOK, bufVars
    <3>2. ASSUME NEW n \in Node, ~In(n, todo') PROVE n = Head(todo) \/ ~In(n, todo)
      BY <3>1, <3>2, BehindHead
    <3> QED BY <1>4, <1>5, <3>1, <3>2 DEF Accounted, Passed
  <2>2. CASE StopAtLimit
    BY <1>5, <2>2 DEF StopAtLimit, Passed
  <2>3. CASE NextPass
    BY <2>3 DEF NextPass, Passed, IInv, Buffered, bufVars
  <2>4. CASE Race \/ Fanout \/ Rethrow \/ Finalize
    BY <2>4 DEF Race, Fanout, Rethrow, Finalize, Passed
  <2> QED BY <2>1, <2>2, <2>3, <2>4
<1> QED BY <1>3, <1>6 DEF Accounted

\* A completion is handled: the next pass looks at every key again.
LEMMA AccountedDeliver ==
  ASSUME IInv, Accounted, NEW n \in Node,
         \/ DeliverError(n) \/ DeliverInterrupt(n) \/ DeliverWait(n) \/ DeliverCompletion(n)
  PROVE  Accounted'
<1>1. CASE DeliverError(n)
  BY <1>1 DEF DeliverError, Accounted, Passed, RunningIsPending, LiveIsPending, Failing
<1>2. CASE DeliverInterrupt(n) \/ DeliverWait(n) \/ DeliverCompletion(n)
  <2>1. /\ Delivered(n) /\ Dequeue(n) /\ phase = "race" /\ task[n].kind = "done"
        /\ UNCHANGED <<buffer, keys, live, execs>>
        /\ phase' \in {"schedule", "fanout"}
        /\ phase' = "schedule" => todo' = keys
    BY <1>2 DEF DeliverInterrupt, DeliverWait, DeliverCompletion, Delivered, bufVars, bodyVars
  <2>2. \A m : In(m, pending') <=> In(m, pending) /\ m # n BY <2>1, DequeueFacts
  <2>3. \A m \in Node : m # n => status'[m] = status[m] /\ task'[m] = task[m]
    BY <1>2, <2>1 DEF DeliverInterrupt, DeliverWait, DeliverCompletion, Dequeue, IInv, TypeOK
  <2>4. status'[n] # "RUNNING"
    BY <1>2 DEF DeliverInterrupt, DeliverWait, DeliverCompletion, IInv, TypeOK
  <2>5. Passed' BY <2>1 DEF Passed, IInv, Buffered
  <2>6. RunningIsPending'
    BY <2>1, <2>2, <2>3, <2>4 DEF Accounted, RunningIsPending, Failing
  <2>7. LiveIsPending'
    <3>1. \A r \in live : /\ r[1] \in Node /\ In(r[1], pending)
                          /\ task[r[1]].kind = "running" /\ r[2] = execs[r[1]]
      BY <2>1 DEF Accounted, LiveIsPending, Failing, IInv, TypeOK
    <3>2. \A r \in live : r[1] # n BY <2>1, <3>1
    <3> QED BY <2>1, <2>2, <2>3, <3>1, <3>2 DEF LiveIsPending
  <2> QED BY <2>5, <2>6, <2>7 DEF Accounted
<1> QED BY <1>1, <1>2

\* A body ends, or the signal fires.
LEMMA AccountedBody ==
  ASSUME IInv, Accounted,
         Abort \/ \E r \in live : \E e \in Endings(r[1]) : Settle(r[1], r[2], e)
  PROVE  Accounted'
<1>1. CASE Abort
  BY <1>1 DEF Abort, Accounted, Passed, RunningIsPending, LiveIsPending, Failing, loopVars,
     taskVars, bodyVars, nodeVars
<1>2. ASSUME NEW r \in live, NEW e \in Endings(r[1]), Settle(r[1], r[2], e)
      PROVE  Accounted'
  <2>1. PICK n \in Node, k \in Nat : r = <<n, k>> BY DEF IInv, TypeOK
  <2>2. /\ phase \in {"race", "cleanup"} /\ live' = live \ {<<n, k>>} /\ <<n, k>> \in live
        /\ UNCHANGED <<phase, status, pending, execs>>
        /\ \A m \in Node : m # n => task'[m] = task[m]
    BY <1>2, <2>1 DEF Settle, nodeVars, IInv, TypeOK
  <2>3. Passed' /\ RunningIsPending'
    BY <2>2 DEF Accounted, Passed, RunningIsPending, Failing
  <2>4. LiveIsPending'
    <3>1. CASE Failing BY <2>2, <3>1 DEF LiveIsPending, Failing
    <3>2. CASE ~Failing
      <4>1. \A q \in live : /\ q \in Node \X Nat /\ In(q[1], pending)
                            /\ task[q[1]].kind = "running" /\ q[2] = execs[q[1]]
        BY <3>2 DEF Accounted, LiveIsPending, IInv, TypeOK
      <4>2. ASSUME NEW q \in live' PROVE q \in live /\ q[1] \in Node /\ q[1] # n
        <5>1. q \in live /\ q # <<n, k>> BY <2>2
        <5>2. k = execs[n] BY <2>2, <4>1
        <5> QED BY <4>1, <5>1, <5>2
      <4> QED BY <2>2, <4>1, <4>2 DEF LiveIsPending
    <3> QED BY <3>1, <3>2
  <2> QED BY <2>3, <2>4 DEF Accounted
<1> QED BY <1>1, <1>2

LEMMA AccountedBegins == Begins => Accounted
BY DEF Begins, Accounted, Passed, RunningIsPending, LiveIsPending, None, SeedBuffer

LEMMA AccountedStep == IInv /\ Accounted /\ [Next]_vars => Accounted'
<1> SUFFICES ASSUME IInv, Accounted, [Next]_vars PROVE Accounted'
  OBVIOUS
<1>1. CASE LoopStep
  BY <1>1, AccountedPass, AccountedStart, AccountedDeliver DEF LoopStep
<1>2. CASE BodyStep \/ Abort BY <1>2, AccountedBody DEF BodyStep
<1>3. CASE UNCHANGED vars
  BY <1>3 DEF vars, loopVars, bufVars, taskVars, bodyVars, nodeVars, Accounted, Passed,
     RunningIsPending, LiveIsPending, Failing, Held, AtConcurrencyLimit
<1> QED BY <1>1, <1>2, <1>3 DEF Next, Terminated

LEMMA AccountedHolds == Spec => [](IInv /\ Accounted)
BY InitBegins, AccountedBegins, AccountedStep, IInvInit, IInvStep, PTL DEF Spec

LEMMA LosesNoTrigger ==
  IInv /\ Accounted /\ NoRunnableTriggerLost /\ [Next]_vars => NoRunnableTriggerLost'
<1> SUFFICES ASSUME IInv, Accounted, NoRunnableTriggerLost, [Next]_vars
             PROVE NoRunnableTriggerLost'
  OBVIOUS
<1>1. CASE Finalize
  <2>1. phase = "schedule" /\ todo = << >> /\ pending = << >> /\ UNCHANGED <<bufVars, nodeVars>>
    BY <1>1 DEF Finalize
  <2>2. ~AtConcurrencyLimit BY <2>1, BoundAssumption DEF AtConcurrencyLimit
  <2>3. \A n : ~In(n, pending) /\ ~In(n, todo) BY <2>1 DEF In
  <2>4. \A n \in Node : status[n] # "RUNNING"
    BY <2>1, <2>3 DEF Accounted, RunningIsPending, Failing
  <2>5. \A n \in Node : buffer[n] # << >> => status[n] = "WAITING" /\ interrupts[n] # {}
    BY <2>1, <2>2, <2>3, <2>4 DEF Accounted, Passed, Held
  <2> QED BY <2>1, <2>5 DEF NoRunnableTriggerLost, bufVars, nodeVars
<1>2. CASE ~Finalize /\ phase' = "returned"
  <2>1. UNCHANGED vars
    BY <1>2 DEF Next, Terminated, LoopStep, BodyStep, Abort, SkipHeld, StopAtLimit,
       FastForward, HandOver, StartBody, TakeTrigger, Ready, Race, DeliverError,
       DeliverInterrupt, DeliverWait, DeliverCompletion, Fanout, NextPass, Rethrow, Settle,
       loopVars
  <2> QED BY <2>1 DEF NoRunnableTriggerLost, vars, loopVars, bufVars, nodeVars
<1>3. CASE phase' # "returned" BY <1>3 DEF NoRunnableTriggerLost
<1> QED BY <1>1, <1>2, <1>3

\* The turn never returns with work it could still do, whatever the graph, the
\* concurrency limit and the outcomes: what is left in the buffer is for a node
\* that waits for the human (runLoop's break).
THEOREM NoTriggerIsLost == Spec => []NoRunnableTriggerLost
<1>1. Init => NoRunnableTriggerLost BY DEF Init, NoRunnableTriggerLost
<1> QED BY <1>1, LosesNoTrigger, AccountedHolds, PTL DEF Spec

---------------------------------------------------------------------------
(* The activation contract                                                 *)

\* As many nodes are running as the map of pending tasks has keys, at most.
LEMMA PendingCount ==
  ASSUME NEW S, NEW s \in Seq(S)
  PROVE  IsFiniteSet(ToSet(s)) /\ Cardinality(ToSet(s)) \in Nat /\ Cardinality(ToSet(s)) <= Len(s)
<1>1. s \in Surjection(1..Len(s), ToSet(s)) BY DEF Surjection, ToSet
<1>2. IsFiniteSet(1..Len(s)) /\ Cardinality(1..Len(s)) = Len(s)
  <2>1. Len(s) \in Nat OBVIOUS
  <2> QED BY <2>1, FS_Interval
<1>3. IsFiniteSet(ToSet(s)) /\ Cardinality(ToSet(s)) <= Cardinality(1..Len(s))
  BY <1>1, <1>2, FS_Surjection
<1> QED BY <1>2, <1>3, FS_CardinalityType

LEMMA ToSetFacts == \A s, x : x \in ToSet(s) <=> In(x, s)
BY DEF ToSet, In

\* A trigger starts one activation, of a node that is not running, below the
\* limit.
LEMMA StartRefines ==
  ASSUME IInv, NEW n \in Node, FastForward(n) \/ HandOver(n) \/ StartBody(n)
  PROVE  A!Start(n)
<1>1. Ready(n) /\ TakeTrigger(n) BY DEF FastForward, HandOver, StartBody
<1>2. /\ phase = "schedule" /\ phase' = "schedule" /\ ~In(n, pending) /\ buffer[n] # << >>
      /\ ~AtConcurrencyLimit /\ pending \in Seq(Node) /\ pending' = Append(pending, n)
  BY <1>1, ReadyFacts DEF IInv, TypeOK, Ready, TakeTrigger
<1>3. Mode = "open" /\ Mode' = "open" BY <1>2 DEF Mode
<1>4. RunningNodes = ToSet(pending) /\ RunningNodes' = ToSet(pending')
  BY <1>2 DEF RunningNodes
<1>5. n \notin RunningNodes /\ RunningNodes' = RunningNodes \cup {n}
  BY <1>2, <1>4, AppendFacts, ToSetFacts
<1>6. MaxConcurrency # 0 => Cardinality(RunningNodes) < MaxConcurrency
  BY <1>2, <1>4, PendingCount, BoundAssumption DEF AtConcurrencyLimit
<1>7. Len(buffer[n]) > 0 /\ Len(Tail(buffer[n])) = Len(buffer[n]) - 1
  <2>1. buffer[n] \in Seq(Value) BY DEF IInv, TypeOK
  <2> QED BY <1>2, <2>1
<1>8. \A m \in Node : buffer'[m] = IF m = n THEN Tail(buffer[m]) ELSE buffer[m]
  BY <1>1 DEF TakeTrigger, PopTrigger, IInv, TypeOK
<1>9. [m \in Node |-> Len(buffer'[m])]
        = [[m \in Node |-> Len(buffer[m])] EXCEPT ![n] = @ - 1]
  BY <1>7, <1>8
<1>10. A!Cardinality(RunningNodes) = Cardinality(RunningNodes)
  BY DEF Cardinality, A!Cardinality
<1> QED BY <1>3, <1>5, <1>6, <1>7, <1>9, <1>10 DEF A!Start

\* A completion ends one activation; a failure ends those without a body, the
\* failed one among them.
LEMMA DeliverRefines ==
  ASSUME IInv, Accounted, NEW n \in Node,
         \/ DeliverError(n) \/ DeliverInterrupt(n) \/ DeliverWait(n) \/ DeliverCompletion(n)
  PROVE  A!Fail \/ A!Finish(n)
<1>1. Delivered(n) /\ phase = "race" /\ UNCHANGED <<buffer, live>>
  BY DEF DeliverError, DeliverInterrupt, DeliverWait, DeliverCompletion, Delivered, bufVars,
     bodyVars
<1>2. In(n, pending) BY <1>1, DeliveredFacts
<1>3. Mode = "open" /\ RunningNodes = ToSet(pending) /\ n \in RunningNodes
  BY <1>1, <1>2, ToSetFacts DEF Mode, RunningNodes
<1>4. CASE DeliverError(n)
  <2>1. Mode' = "failing" /\ RunningNodes' = {r[1] : r \in live}
    BY <1>1, <1>4 DEF DeliverError, Mode, RunningNodes
  <2>2. \A r \in live : In(r[1], pending) /\ r[1] # n
    BY <1>1, <1>4 DEF DeliverError, Accounted, LiveIsPending, Failing
  <2>3. RunningNodes' \in (SUBSET RunningNodes) \ {RunningNodes}
    BY <1>3, <2>1, <2>2, ToSetFacts
  <2> QED BY <1>1, <1>3, <2>1, <2>3 DEF A!Fail
<1>5. CASE DeliverInterrupt(n) \/ DeliverWait(n) \/ DeliverCompletion(n)
  <2>1. Dequeue(n) /\ phase' \in {"schedule", "fanout"}
    BY <1>5 DEF DeliverInterrupt, DeliverWait, DeliverCompletion
  <2>2. Mode' = "open" /\ RunningNodes' = ToSet(pending')
    BY <2>1 DEF Mode, RunningNodes
  <2>3. RunningNodes' = RunningNodes \ {n}
    BY <1>1, <1>3, <2>1, <2>2, DequeueFacts, ToSetFacts
  <2> QED BY <1>1, <1>3, <2>2, <2>3 DEF A!Finish
<1> QED BY <1>4, <1>5

\* A successor is triggered once, or not yet.
LEMMA FanoutRefines ==
  ASSUME IInv, Fanout
  PROVE  (\E n \in Node : A!Enqueue(n)) \/ UNCHANGED A!vars
<1>1. /\ downstream \in Seq(Node) /\ downstream # << >> /\ phase = "fanout"
      /\ UNCHANGED <<phase, pending, live>>
  BY DEF Fanout, IInv, TypeOK, taskVars, bodyVars
<1>2. PICK n \in Node : n = Head(downstream) BY <1>1
<1>3. Mode = "open" /\ UNCHANGED <<Mode, RunningNodes>> BY <1>1 DEF Mode, RunningNodes
<1>4. CASE UNCHANGED buffer BY <1>3, <1>4 DEF A!vars
<1>5. \A v : PushTrigger(n, v) => A!Enqueue(n)
  <2> SUFFICES ASSUME NEW v, PushTrigger(n, v) PROVE A!Enqueue(n)
    OBVIOUS
  <2>1. buffer[n] \in Seq(Value) BY <1>2 DEF IInv, TypeOK
  <2>2. Len(Append(buffer[n], v)) = Len(buffer[n]) + 1
    <3>1. Len(buffer[n]) \in Nat /\ DOMAIN Append(buffer[n], v) = 1..(Len(buffer[n]) + 1)
      BY <2>1
    <3> QED BY <2>1
  <2>3. \A m \in Node : buffer'[m] = IF m = n THEN Append(buffer[m], v) ELSE buffer[m]
    BY <1>2 DEF PushTrigger, IInv, TypeOK
  <2>4. [m \in Node |-> Len(buffer'[m])]
          = [[m \in Node |-> Len(buffer[m])] EXCEPT ![n] = @ + 1]
    BY <1>2, <2>2, <2>3
  <2> QED BY <1>3, <2>4 DEF A!Enqueue
<1>6. \/ PushTrigger(n, relay) \/ PushTrigger(n, JoinInput(n)) \/ UNCHANGED buffer
  BY <1>2 DEF Fanout, bufVars
<1>7. CASE PushTrigger(n, relay) \/ PushTrigger(n, JoinInput(n))
  <2>1. A!Enqueue(n) BY <1>5, <1>7, Zenon
  <2> QED BY <2>1
<1> QED BY <1>4, <1>6, <1>7

\* The turn ends when nothing runs any more.
LEMMA EndRefines ==
  ASSUME IInv, Accounted, Rethrow \/ Finalize PROVE A!Close
<1>1. UNCHANGED <<buffer, pending, live>>
  BY DEF Rethrow, Finalize, bufVars, taskVars, bodyVars
<1>2. CASE Rethrow
  BY <1>1, <1>2 DEF Rethrow, A!Close, Mode, RunningNodes
<1>3. CASE Finalize
  <2>1. phase = "schedule" /\ pending = << >> /\ phase' \in {"threw", "returned"}
    BY <1>3 DEF Finalize
  <2>2. live = {} BY <2>1 DEF Accounted, LiveIsPending, Failing, In
  <2>3. ToSet(pending) = {} BY <2>1 DEF ToSet
  <2>4. RunningNodes = {} /\ RunningNodes' = {}
    BY <1>1, <2>1, <2>2, <2>3 DEF RunningNodes
  <2>5. Mode = "open" /\ Mode' = "closed" BY <2>1 DEF Mode
  <2> QED BY <1>1, <2>4, <2>5 DEF A!Close
<1> QED BY <1>2, <1>3

\* A body that settles ends its activation once the turn is failing; before
\* that the loop has yet to hear of it.
LEMMA SettleRefines ==
  ASSUME IInv, NEW r \in live, NEW e \in Endings(r[1]), Settle(r[1], r[2], e)
  PROVE  (\E n \in Node : A!Finish(n)) \/ UNCHANGED A!vars
<1>1. PICK n \in Node, k \in Nat : r = <<n, k>> BY DEF IInv, TypeOK
<1>2. /\ phase \in {"race", "cleanup"} /\ r \in live /\ live' = live \ {r}
      /\ UNCHANGED <<phase, buffer, pending>>
  BY <1>1 DEF Settle, bufVars
<1>3. UNCHANGED Mode BY <1>2 DEF Mode
<1>4. CASE phase = "race"
  <2>1. UNCHANGED RunningNodes BY <1>2, <1>4 DEF RunningNodes
  <2> QED BY <1>2, <1>3, <2>1 DEF A!vars
<1>5. CASE phase = "cleanup"
  <2>1. RunningNodes = {q[1] : q \in live} /\ RunningNodes' = {q[1] : q \in live'}
    BY <1>2, <1>5 DEF RunningNodes
  <2>2. n \in RunningNodes BY <1>1, <1>2, <2>1
  <2>3. RunningNodes' = RunningNodes \ {n} \/ RunningNodes' = RunningNodes
    BY <1>1, <1>2, <2>1
  <2>4. CASE RunningNodes' = RunningNodes BY <1>2, <1>3, <2>4 DEF A!vars
  <2>5. CASE RunningNodes' = RunningNodes \ {n}
    <3>1. Mode = "failing" BY <1>5 DEF Mode
    <3> QED BY <1>2, <1>3, <2>2, <2>5, <3>1 DEF A!Finish
  <2> QED BY <2>3, <2>4, <2>5
<1> QED BY <1>2, <1>4, <1>5

\* The rest of the loop is not seen by the contract.
LEMMA QuietRefines ==
  ASSUME SkipHeld \/ StopAtLimit \/ Race \/ NextPass \/ Abort \/ UNCHANGED vars
  PROVE  UNCHANGED A!vars
<1>1. UNCHANGED <<buffer, pending, live>>
  BY DEF SkipHeld, StopAtLimit, Race, NextPass, Abort, vars, bufVars, taskVars, bodyVars
<1>2. \/ phase' = phase
      \/ phase \in {"schedule", "fanout"} /\ phase' \in {"schedule", "race"}
  BY DEF SkipHeld, StopAtLimit, Race, NextPass, Abort, vars, loopVars
<1>3. UNCHANGED <<Mode, RunningNodes>> BY <1>1, <1>2 DEF Mode, RunningNodes
<1> QED BY <1>1, <1>3 DEF A!vars

\* The loop implements the activation contract, for every graph and every
\* limit: one activation per trigger, no node run twice at a time, no more at
\* once than maxConcurrency, nothing started after a failure, and no end of the
\* turn while a body still executes (runLoop, cleanupPending).
THEOREM LoopKeepsTheContract == Spec => KeepsActivationContract
<1> DEFINE J == IInv /\ Accounted
<1>1. Init => A!Init
  <2> SUFFICES ASSUME Init PROVE A!Init
    OBVIOUS
  <2>1. Mode = "open" /\ RunningNodes = {} BY DEF Init, Mode, RunningNodes, ToSet
  <2>2. \A n \in Node : Len(buffer[n]) = IF n \in ToSet(StartTargets) THEN 1 ELSE 0
    BY ToSetFacts DEF Init, SeedBuffer
  <2> QED BY <2>1, <2>2 DEF A!Init
<1>2. J /\ [Next]_vars => [A!Next]_(A!vars)
  <2> SUFFICES ASSUME J, [Next]_vars PROVE A!Next \/ UNCHANGED A!vars
    OBVIOUS
  <2>1. CASE LoopStep
    BY <2>1, StartRefines, DeliverRefines, FanoutRefines, EndRefines, QuietRefines
    DEF LoopStep, A!Next
  <2>2. CASE BodyStep BY <2>2, SettleRefines DEF BodyStep, A!Next
  <2>3. CASE Abort \/ UNCHANGED vars BY <2>3, QuietRefines
  <2> QED BY <2>1, <2>2, <2>3 DEF Next, Terminated
<1> QED BY <1>1, <1>2, AccountedHolds, PTL DEF Spec, KeepsActivationContract, A!Spec

---------------------------------------------------------------------------
(* Graphs that activate each node once                                     *)

Triggered(n) == n \in activated \/ buffer[n] # << >>

\* A node is triggered once in a turn, and only when all that lead to it have
\* completed.
Once ==
  /\ \A n \in Node : /\ status[n] # "NONE" => n \in activated
                     /\ Len(buffer[n]) <= 1
                     /\ buffer[n] # << >> => n \notin activated
                     /\ Triggered(n) => In(n, StartTargets) \/ AllCompleted(n)
  /\ phase = "fanout" =>
       /\ IsInjective(downstream)
       /\ \A n \in Node : In(n, downstream) =>
            ~Triggered(n) /\ (n \notin JoinNode => AllCompleted(n))

LEMMA OnceBegins == Begins => Once
<1> SUFFICES ASSUME Begins PROVE Once
  OBVIOUS
<1>1. /\ phase = "schedule" /\ activated = {}
      /\ \A n \in Node : status[n] = "NONE" /\ buffer[n] = IF In(n, StartTargets) THEN <<{}>> ELSE << >>
  BY DEF Begins, None, SeedBuffer
<1>2. Len(<<{}>>) <= 1 /\ Len(<< >>) <= 1
  OBVIOUS
<1> QED BY <1>1, <1>2 DEF Once, Triggered

\* START's targets have no other predecessor, and a node that has not completed
\* leads to no node that was triggered.
LEMMA TriggeredFacts ==
  ASSUME Forest, Once, NEW n \in Node, NEW p \in Preds[n] \ {START}
  PROVE  /\ p \in Node /\ ~In(n, StartTargets)
         /\ status[p] # "COMPLETED" => ~Triggered(n)
<1>1. p \in Node BY GraphAssumption
<1>2. ~In(n, StartTargets)
  BY GraphAssumption, <1>1 DEF Forest, ToSet, In
<1> QED BY <1>1, <1>2 DEF Once, AllCompleted

\* A successor has its trigger from a predecessor.
LEMMA SuccessorFacts ==
  ASSUME NEW m \in Node, NEW R \in SUBSET Route, NEW n \in Node, In(n, Targets[m][R])
  PROVE  m \in Preds[n] \ {START}
<1>1. n \in ToSet(Targets[m][R]) BY DEF ToSet, In
<1> QED BY <1>1, GraphAssumption

\* A run of a node that has only now been activated completes none of the
\* predecessors that had completed.
LEMMA OnceTake ==
  ASSUME Forest, IInv, Once, NEW n \in Node, Ready(n), TakeTrigger(n)
  PROVE  /\ Once' /\ n \notin activated /\ activated' = activated \cup {n}
         /\ buffer[n] # << >> /\ buffer'[n] = << >>
         /\ \A m \in Node : m # n => buffer'[m] = buffer[m]
<1>1. buffer[n] # << >> /\ phase' = "schedule"
  BY ReadyFacts DEF IInv, TakeTrigger
<1>2. n \notin activated /\ status[n] = "NONE" /\ Len(buffer[n]) <= 1
  BY <1>1 DEF Once
<1>3. /\ buffer'[n] = Tail(buffer[n])
      /\ \A m \in Node : m # n => buffer'[m] = buffer[m] /\ status'[m] = status[m]
      /\ activated' = activated \cup {n}
  BY DEF TakeTrigger, PopTrigger, IInv, TypeOK
<1>4. buffer'[n] = << >> /\ Len(buffer'[n]) <= 1
  <2>1. buffer[n] \in Seq(Value) BY DEF IInv, TypeOK
  <2>2. Len(buffer[n]) = 1
    <3>1. Len(buffer[n]) \in Nat /\ Len(buffer[n]) # 0 BY <1>1, <2>1, EmptySeq
    <3>2. Len(buffer[n]) <= 1 BY <1>2
    <3>3. \A k \in Nat : k # 0 /\ k <= 1 => k = 1 OBVIOUS
    <3> QED BY <3>1, <3>2, <3>3, Zenon
  <2>3. Len(Tail(buffer[n])) = 0 /\ Tail(buffer[n]) \in Seq(Value) BY <2>1, <2>2
  <2>4. Tail(buffer[n]) = << >> BY <2>3, EmptySeq
  <2>5. buffer'[n] = << >> BY <1>3, <2>4
  <2> QED BY <2>3, <2>4, <2>5
<1>5. \A m \in Node : AllCompleted(m) => AllCompleted(m)'
  BY <1>2, <1>3 DEF AllCompleted
<1>6. ASSUME NEW m \in Node
      PROVE  /\ status'[m] # "NONE" => m \in activated'
             /\ Len(buffer'[m]) <= 1
             /\ buffer'[m] # << >> => m \notin activated'
             /\ Triggered(m)' => In(m, StartTargets) \/ AllCompleted(m)'
  <2>1. CASE m = n
    <3>1. In(n, StartTargets) \/ AllCompleted(n) BY <1>1 DEF Once, Triggered
    <3> QED BY <1>3, <1>4, <1>5, <2>1, <3>1
  <2>2. CASE m # n
    <3>1. Triggered(m)' => Triggered(m) BY <1>3, <2>2 DEF Triggered
    <3> QED BY <1>3, <1>5, <2>2, <3>1 DEF Once
  <2> QED BY <2>1, <2>2
<1>7. Once' BY <1>1, <1>6 DEF Once
<1> QED BY <1>1, <1>2, <1>3, <1>4, <1>7

LEMMA OnceDeliver ==
  ASSUME Forest, IInv, Once, NEW n \in Node,
         \/ DeliverError(n) \/ DeliverInterrupt(n) \/ DeliverWait(n) \/ DeliverCompletion(n)
  PROVE  Once'
<1>1. Delivered(n) /\ UNCHANGED <<buffer, activated>>
  BY DEF DeliverError, DeliverInterrupt, DeliverWait, DeliverCompletion, bufVars, runVars
<1>2. status[n] = "RUNNING" /\ n \in activated /\ task[n] \in Outcome
  BY <1>1, DeliveredFacts DEF Once
<1>3. \A m \in Node : m # n => status'[m] = status[m]
  BY DEF DeliverError, DeliverInterrupt, DeliverWait, DeliverCompletion, IInv, TypeOK
<1>4. \A m \in Node : AllCompleted(m) => AllCompleted(m)'
  BY <1>2, <1>3 DEF AllCompleted
<1>5. \A m \in Node : Triggered(m)' <=> Triggered(m) BY <1>1 DEF Triggered
<1>6. phase' = "fanout" =>
        /\ IsInjective(downstream')
        /\ \A m \in Node : In(m, downstream') =>
             ~Triggered(m)' /\ (m \notin JoinNode => AllCompleted(m)')
  <2> SUFFICES ASSUME phase' = "fanout"
               PROVE  /\ IsInjective(downstream')
                      /\ \A m \in Node : In(m, downstream') =>
                           ~Triggered(m) /\ (m \notin JoinNode => AllCompleted(m)')
    BY <1>5
  <2>1. /\ downstream' = Targets[n][task[n].routes] /\ status'[n] = "COMPLETED"
        /\ task[n].routes \in SUBSET Route
    BY <1>2 DEF DeliverError, DeliverInterrupt, DeliverWait, DeliverCompletion, IInv, TypeOK, Outcome
  <2>2. IsInjective(downstream') BY <2>1 DEF Forest
  <2>3. ASSUME NEW m \in Node, In(m, downstream')
        PROVE  ~Triggered(m) /\ (m \notin JoinNode => AllCompleted(m)')
    <3>1. n \in Preds[m] \ {START} BY <2>1, <2>3, SuccessorFacts
    <3>2. ~Triggered(m) BY <1>2, <3>1, TriggeredFacts
    <3>3. m \notin JoinNode => Preds[m] = {n} BY <3>1 DEF Forest
    <3> QED BY <2>1, <3>2, <3>3 DEF AllCompleted
  <2> QED BY <2>2, <2>3
<1> QED BY <1>1, <1>2, <1>3, <1>4, <1>5, <1>6 DEF Once

LEMMA OnceFanout ==
  ASSUME IInv, Once, Fanout
  PROVE  /\ Once'
         /\ \A n \in Node : buffer'[n] # buffer[n] =>
              ~Triggered(n) /\ (n \in JoinNode => buffer'[n] = <<JoinInput(n)>>)
<1>1. /\ downstream \in Seq(Node) /\ downstream # << >> /\ phase = "fanout"
      /\ downstream' = Tail(downstream) /\ UNCHANGED <<status, activated>>
  BY DEF Fanout, IInv, TypeOK, nodeVars, runVars
<1>2. PICK n \in Node : n = Head(downstream) BY <1>1
<1>3. In(n, downstream) /\ IsInjective(downstream) BY <1>1, <1>2, TailFacts DEF Once
<1>4. ~Triggered(n) /\ (n \notin JoinNode => AllCompleted(n)) BY <1>1, <1>3 DEF Once
<1>5. /\ \A m \in Node : m # n => buffer'[m] = buffer[m]
      /\ buffer'[n] # buffer[n] =>
           /\ Len(buffer'[n]) <= 1 /\ AllCompleted(n)
           /\ n \in JoinNode => buffer'[n] = <<JoinInput(n)>>
  <2>1. buffer[n] = << >> BY <1>4 DEF Triggered
  <2>2. \A v : Append(<< >>, v) = <<v>> /\ Len(<<v>>) <= 1
    OBVIOUS
  <2>3. CASE UNCHANGED buffer BY <2>3
  <2>4. ASSUME NEW v, PushTrigger(n, v)
        PROVE  buffer'[n] = <<v>> /\ \A m \in Node : m # n => buffer'[m] = buffer[m]
    BY <2>1, <2>2, <2>4 DEF PushTrigger, IInv, TypeOK
  <2>5. \/ n \notin JoinNode /\ PushTrigger(n, relay)
        \/ AllCompleted(n) /\ PushTrigger(n, JoinInput(n))
        \/ UNCHANGED buffer
    BY <1>2 DEF Fanout, bufVars
  <2>6. CASE n \notin JoinNode /\ PushTrigger(n, relay)
    <3>1. AllCompleted(n) BY <1>4, <2>6
    <3>2. buffer'[n] = <<relay>> /\ \A m \in Node : m # n => buffer'[m] = buffer[m]
      BY <2>4, <2>6
    <3> QED BY <2>2, <2>6, <3>1, <3>2
  <2>7. CASE AllCompleted(n) /\ PushTrigger(n, JoinInput(n))
    <3>1. /\ buffer'[n] = <<JoinInput(n)>>
          /\ \A m \in Node : m # n => buffer'[m] = buffer[m]
      BY <2>4, <2>7
    <3> QED BY <2>2, <2>7, <3>1
  <2> QED BY <2>3, <2>5, <2>6, <2>7
<1>6. \A m \in Node : AllCompleted(m)' <=> AllCompleted(m) BY <1>1 DEF AllCompleted
<1>7. \A m \in Node : m # n => (Triggered(m)' <=> Triggered(m))
  BY <1>1, <1>5 DEF Triggered
<1>8. \A m \in Node : In(m, downstream') => In(m, downstream) /\ m # n
  BY <1>1, <1>2, <1>3, TailFacts
<1>9. IsInjective(downstream') BY <1>1, <1>3, TailFacts
<1>10. ASSUME NEW m \in Node
       PROVE  /\ status'[m] # "NONE" => m \in activated'
              /\ Len(buffer'[m]) <= 1
              /\ buffer'[m] # << >> => m \notin activated'
              /\ Triggered(m)' => In(m, StartTargets) \/ AllCompleted(m)'
  <2>1. CASE buffer'[m] = buffer[m]
    BY <1>1, <1>6, <2>1 DEF Once, Triggered
  <2>2. CASE buffer'[m] # buffer[m]
    <3>1. m = n BY <1>5, <2>2
    <3> QED BY <1>1, <1>4, <1>5, <1>6, <2>2, <3>1 DEF Once, Triggered
  <2> QED BY <2>1, <2>2
<1>11. Once' BY <1>1, <1>6, <1>7, <1>8, <1>9, <1>10 DEF Once
<1> QED BY <1>4, <1>5, <1>11

LEMMA OnceStep == Forest /\ IInv /\ Once /\ [Next]_vars => Once'
<1> SUFFICES ASSUME Forest, IInv, Once, [Next]_vars PROVE Once'
  OBVIOUS
<1>1. CASE \E n \in Node : FastForward(n) \/ HandOver(n) \/ StartBody(n)
  BY <1>1, OnceTake DEF FastForward, HandOver, StartBody
<1>2. CASE \E n \in Node : \/ DeliverError(n) \/ DeliverInterrupt(n)
                           \/ DeliverWait(n) \/ DeliverCompletion(n)
  BY <1>2, OnceDeliver
<1>3. CASE Fanout BY <1>3, OnceFanout
<1>4. CASE \/ SkipHeld \/ StopAtLimit \/ Race \/ NextPass \/ Rethrow \/ Finalize
           \/ BodyStep \/ Abort \/ UNCHANGED vars
  <2>1. UNCHANGED <<status, buffer, activated>>
    BY <1>4 DEF SkipHeld, StopAtLimit, Race, NextPass, Rethrow, Finalize, BodyStep, Settle,
       Abort, vars, bufVars, nodeVars, runVars
  <2>2. phase' = "fanout" => phase = "fanout" /\ downstream' = downstream
    BY <1>4 DEF SkipHeld, StopAtLimit, Race, NextPass, Rethrow, Finalize, BodyStep, Settle,
       Abort, vars, loopVars
  <2> QED BY <2>1, <2>2 DEF Once, Triggered, AllCompleted
<1> QED BY <1>1, <1>2, <1>3, <1>4 DEF Next, LoopStep, Terminated

\* A value that p's own body produced, in this turn or an earlier one.
Own(p, v) == v \subseteq {p} \X (0..execs[p])
Feeds(p) == \E n \in JoinNode : p \in Preds[n]

\* What the predecessors of a join put out is their own, and a join that was
\* triggered was given all of it.
OwnOutputs ==
  \A p \in Node : Feeds(p) =>
    /\ Own(p, outputs[p]) /\ Own(p, task[p].out)
    /\ \A r \in ToSet(rehydrated[p]) : Own(p, r.out) /\ r.ids = {}
Gathered ==
  \A n \in JoinNode :
    /\ \A r \in ToSet(rehydrated[n]) : r.ids = {}
    /\ \A p \in Preds[n] \ {START} :
         /\ buffer[n] # << >> => outputs[p] \subseteq Head(buffer[n])
         /\ n \in activated => outputs[p] \subseteq input[n]

LEMMA FedInit == JoinsStartAfresh /\ Init => OwnOutputs /\ Gathered
<1> SUFFICES ASSUME JoinsStartAfresh, Init PROVE OwnOutputs /\ Gathered
  OBVIOUS
<1>1. PICK h \in History : rehydrated = h.prior BY DEF Init
<1>2. \A n \in Node : /\ outputs[n] = {} /\ task[n].out = {} /\ execs[n] = 0
  BY DEF Init, None, NoTask
<1>3. activated = {} BY DEF Init
<1>4. ASSUME NEW p \in Node, Feeds(p), NEW r \in ToSet(rehydrated[p])
      PROVE  Own(p, r.out) /\ r.ids = {}
  <2>1. PICK n \in JoinNode : p \in Preds[n] BY <1>4 DEF Feeds
  <2>2. p # START BY GraphAssumption
  <2>3. r \in ToSet(h.prior[p]) BY <1>1, <1>4
  <2>4. r.ids = {} BY <1>1, <2>1, <2>2, <2>3 DEF JoinsStartAfresh
  <2>5. r.out \subseteq {<<p, 0>>} BY <2>3, HistoryAssumption
  <2>6. 0 \in 0..execs[p] BY <1>2
  <2> QED BY <2>4, <2>5, <2>6 DEF Own
<1>5. ASSUME NEW n \in JoinNode, NEW r \in ToSet(rehydrated[n]) PROVE r.ids = {}
  BY <1>1, <1>5 DEF JoinsStartAfresh
<1>6. OwnOutputs BY <1>2, <1>4 DEF OwnOutputs, Own
<1>7. Gathered
  <2>1. \A n \in JoinNode : Preds[n] \ {START} \subseteq Node BY GraphAssumption
  <2> QED BY <1>2, <1>3, <1>5, <2>1 DEF Gathered
<1> QED BY <1>6, <1>7

\* The runs that are left are among those there were.
LEMMA TailSubset ==
  ASSUME NEW S, NEW s \in Seq(S), s # << >>
  PROVE  ToSet(Tail(s)) \subseteq ToSet(s) /\ Head(s) \in ToSet(s)
<1>1. \A x : x \in ToSet(Tail(s)) => x \in ToSet(s) BY TailFacts, ToSetFacts
<1>2. Head(s) \in ToSet(s) BY TailFacts, ToSetFacts
<1> QED BY <1>1, <1>2

LEMMA PriorsLeft ==
  ASSUME IInv, NEW n \in Node, TakeTrigger(n)
  PROVE  \A m \in Node : ToSet(rehydrated'[m]) \subseteq ToSet(rehydrated[m])
<1>1. rehydrated[n] \in Seq(Prior) BY DEF IInv, TypeOK
<1>2. /\ rehydrated'[n] = IF rehydrated[n] = << >> THEN rehydrated[n] ELSE Tail(rehydrated[n])
      /\ \A m \in Node : m # n => rehydrated'[m] = rehydrated[m]
  BY DEF TakeTrigger, IInv, TypeOK
<1> QED BY <1>1, <1>2, TailSubset

LEMMA OwnLater ==
  ASSUME IInv, NEW p \in Node, execs'[p] \in Nat, execs[p] <= execs'[p]
  PROVE  \A v : Own(p, v) => Own(p, v)'
<1>1. execs[p] \in Nat BY DEF IInv, TypeOK
<1>2. 0..execs[p] \subseteq 0..execs'[p] BY <1>1
<1> QED BY <1>2 DEF Own

LEMMA FedStart ==
  ASSUME Forest, IInv, Once, OwnOutputs, Gathered,
         NEW n \in Node, FastForward(n) \/ HandOver(n) \/ StartBody(n)
  PROVE  OwnOutputs' /\ Gathered'
<1>1. Ready(n) /\ TakeTrigger(n) BY DEF FastForward, HandOver, StartBody
<1>2. /\ n \notin activated /\ activated' = activated \cup {n}
      /\ buffer[n] # << >> /\ buffer'[n] = << >>
      /\ \A m \in Node : m # n => buffer'[m] = buffer[m]
  BY <1>1, OnceTake
<1>3. \A m \in Node : ToSet(rehydrated'[m]) \subseteq ToSet(rehydrated[m])
  BY <1>1, PriorsLeft
<1>4. UNCHANGED outputs BY <1>1 DEF TakeTrigger, doneVars
<1>5. \A m \in Node : /\ execs'[m] \in Nat /\ execs[m] <= execs'[m]
                      /\ m # n => task'[m] = task[m] /\ input'[m] = input[m]
  BY DEF FastForward, HandOver, StartBody, bodyVars, IInv, TypeOK
<1>6. HasPrior(n) => ThePrior(n) \in ToSet(rehydrated[n])
  <2>1. rehydrated[n] \in Seq(Prior) BY DEF IInv, TypeOK
  <2> QED BY <2>1, TailSubset DEF HasPrior, ThePrior
<1>7. OwnOutputs'
  <2> SUFFICES ASSUME NEW p \in Node, Feeds(p)
               PROVE  /\ Own(p, outputs[p])' /\ Own(p, task[p].out)'
                      /\ \A r \in ToSet(rehydrated'[p]) : Own(p, r.out)' /\ r.ids = {}
    BY DEF OwnOutputs, Feeds
  <2>1. /\ Own(p, outputs[p]) /\ Own(p, task[p].out)
        /\ \A r \in ToSet(rehydrated[p]) : Own(p, r.out) /\ r.ids = {}
    BY DEF OwnOutputs
  <2>2. \A v : Own(p, v) => Own(p, v)' BY <1>5, OwnLater
  <2>3. Own(p, task'[p].out)
    <3>1. CASE p # n BY <1>5, <2>1, <3>1
    <3>2. CASE p = n /\ FastForward(n)
      <4>1. HasPrior(n) /\ task'[n].out = ThePrior(n).out
        BY <3>2 DEF FastForward, CanFastForward, IInv, TypeOK
      <4> QED BY <1>6, <2>1, <3>2, <4>1
    <3>3. CASE p = n /\ HandOver(n)
      <4>1. HasPrior(n) /\ ThePrior(n).ids # {} BY <3>3 DEF HandOver, CanHandOver
      <4> QED BY <1>6, <2>1, <3>3, <4>1
    <3>4. CASE p = n /\ StartBody(n)
      <4>1. task'[n].out = {} BY <3>4 DEF StartBody, Running, NoTask, IInv, TypeOK
      <4> QED BY <3>4, <4>1 DEF Own
    <3> QED BY <3>1, <3>2, <3>3, <3>4
  <2>4. Own(p, outputs[p])' /\ Own(p, task[p].out)' BY <1>4, <2>1, <2>2, <2>3 DEF Own
  <2> QED BY <1>3, <2>1, <2>2, <2>4
<1>8. Gathered'
  <2> SUFFICES ASSUME NEW m \in JoinNode
               PROVE  /\ \A r \in ToSet(rehydrated'[m]) : r.ids = {}
                      /\ \A p \in Preds[m] \ {START} :
                           /\ buffer'[m] # << >> => outputs'[p] \subseteq Head(buffer'[m])
                           /\ m \in activated' => outputs'[p] \subseteq input'[m]
    BY DEF Gathered
  <2>1. m \in Node BY GraphAssumption
  <2>2. /\ \A r \in ToSet(rehydrated[m]) : r.ids = {}
        /\ \A p \in Preds[m] \ {START} :
             /\ buffer[m] # << >> => outputs[p] \subseteq Head(buffer[m])
             /\ m \in activated => outputs[p] \subseteq input[m]
    BY DEF Gathered
  <2>3. CASE m # n BY <1>2, <1>3, <1>4, <1>5, <2>1, <2>2, <2>3
  <2>4. CASE m = n
    <3>1. input'[n] = Head(buffer[n])
      <4>1. ~Resuming(n) BY <1>6, <2>2, <2>4 DEF Resuming
      <4> QED BY <4>1 DEF FastForward, HandOver, StartBody, IInv, TypeOK
    <3> QED BY <1>2, <1>3, <1>4, <2>1, <2>2, <2>4, <3>1
  <2> QED BY <2>3, <2>4
<1> QED BY <1>7, <1>8

LEMMA FedDeliver ==
  ASSUME Forest, IInv, Once, OwnOutputs, Gathered, NEW n \in Node,
         \/ DeliverError(n) \/ DeliverInterrupt(n) \/ DeliverWait(n) \/ DeliverCompletion(n)
  PROVE  OwnOutputs' /\ Gathered'
<1>1. Delivered(n) /\ UNCHANGED <<buffer, activated, input, rehydrated, execs>>
  BY DEF DeliverError, DeliverInterrupt, DeliverWait, DeliverCompletion, bufVars, runVars,
     bodyVars
<1>2. status[n] = "RUNNING" BY <1>1, DeliveredFacts
<1>3. \A m \in Node : task'[m] = task[m] \/ task'[m] = NoTask
  BY DEF DeliverError, DeliverInterrupt, DeliverWait, DeliverCompletion, Dequeue, IInv, TypeOK
<1>4. /\ \A m \in Node : m # n => outputs'[m] = outputs[m]
      /\ outputs'[n] = outputs[n] \/ outputs'[n] = task[n].out
  BY DEF DeliverError, DeliverInterrupt, DeliverWait, DeliverCompletion, doneVars, IInv, TypeOK
<1>5. OwnOutputs'
  BY <1>1, <1>3, <1>4 DEF OwnOutputs, Own, Feeds, NoTask
<1>6. ASSUME NEW m \in JoinNode, NEW p \in Preds[m] \ {START}, Triggered(m)
      PROVE  outputs'[p] = outputs[p]
  <2>1. m \in Node BY GraphAssumption
  <2>2. p \in Node /\ p # n BY <1>2, <1>6, <2>1, TriggeredFacts
  <2> QED BY <1>4, <2>2
<1>7. Gathered' BY <1>1, <1>6 DEF Gathered, Triggered
<1> QED BY <1>5, <1>7

LEMMA FedFanout ==
  ASSUME IInv, Once, OwnOutputs, Gathered, Fanout
  PROVE  OwnOutputs' /\ Gathered'
<1>1. UNCHANGED <<outputs, task, rehydrated, execs, activated, input>>
  BY DEF Fanout, doneVars, taskVars, runVars, bodyVars
<1>2. OwnOutputs' BY <1>1 DEF OwnOutputs, Own, Feeds
<1>3. ASSUME NEW m \in JoinNode, NEW p \in Preds[m] \ {START}, buffer'[m] # << >>
      PROVE  outputs[p] \subseteq Head(buffer'[m])
  <2>1. m \in Node BY GraphAssumption
  <2>2. CASE buffer'[m] = buffer[m] BY <1>3, <2>2 DEF Gathered
  <2>3. CASE buffer'[m] # buffer[m]
    <3>1. buffer'[m] = <<JoinInput(m)>> BY <2>1, <2>3, OnceFanout
    <3>2. Head(<<JoinInput(m)>>) = JoinInput(m) OBVIOUS
    <3> QED BY <3>1, <3>2 DEF JoinInput
  <2> QED BY <2>2, <2>3
<1>4. Gathered' BY <1>1, <1>3 DEF Gathered
<1> QED BY <1>2, <1>4

LEMMA FedSettle ==
  ASSUME IInv, OwnOutputs, Gathered, NEW r \in live, NEW e \in Endings(r[1]),
         Settle(r[1], r[2], e)
  PROVE  OwnOutputs' /\ Gathered'
<1>1. UNCHANGED <<outputs, rehydrated, execs, activated, input, buffer>>
  BY DEF Settle, doneVars, runVars, bufVars
<1>2. PICK n \in Node, k \in Nat : r = <<n, k>> BY DEF IInv, TypeOK
<1>3. \A m \in Node : \/ task'[m] = task[m]
                      \/ task'[m].out = {}
                      \/ m = n /\ task'[m].out = {<<n, execs[n]>>}
  BY <1>2 DEF Settle, IInv, TypeOK
<1>4. execs[n] \in 0..execs[n] BY DEF IInv, TypeOK
<1>5. OwnOutputs' BY <1>1, <1>3, <1>4 DEF OwnOutputs, Own, Feeds
<1>6. Gathered' BY <1>1 DEF Gathered
<1> QED BY <1>5, <1>6

LEMMA FedStep ==
  Forest /\ IInv /\ Once /\ OwnOutputs /\ Gathered /\ [Next]_vars => OwnOutputs' /\ Gathered'
<1> SUFFICES ASSUME Forest, IInv, Once, OwnOutputs, Gathered, [Next]_vars
             PROVE  OwnOutputs' /\ Gathered'
  OBVIOUS
<1>1. CASE \E n \in Node : FastForward(n) \/ HandOver(n) \/ StartBody(n)
  BY <1>1, FedStart
<1>2. CASE \E n \in Node : \/ DeliverError(n) \/ DeliverInterrupt(n)
                           \/ DeliverWait(n) \/ DeliverCompletion(n)
  BY <1>2, FedDeliver
<1>3. CASE Fanout BY <1>3, FedFanout
<1>4. CASE BodyStep BY <1>4, FedSettle DEF BodyStep
<1>5. CASE \/ SkipHeld \/ StopAtLimit \/ Race \/ NextPass \/ Rethrow \/ Finalize
           \/ Abort \/ UNCHANGED vars
  <2>1. UNCHANGED <<outputs, task, rehydrated, execs, activated, input, buffer>>
    BY <1>5 DEF SkipHeld, StopAtLimit, Race, NextPass, Rethrow, Finalize, Abort, vars,
       bufVars, taskVars, runVars, doneVars, bodyVars
  <2> QED BY <2>1 DEF OwnOutputs, Own, Feeds, Gathered
<1> QED BY <1>1, <1>2, <1>3, <1>4, <1>5 DEF Next, LoopStep, Terminated

\* On a graph that activates each node once, and when the turn resumes no join
\* and no node before a join that asked, a join that runs was given something
\* from every predecessor with an output, whatever the order in which they
\* complete (bufferDownstreamTriggers).
THEOREM JoinGathersEveryOutput ==
  Spec => [](Forest /\ JoinsStartAfresh => JoinMissesNoOutput)
<1> DEFINE J == IInv /\ (Forest => Once)
                /\ (Forest /\ JoinsStartAfresh => OwnOutputs /\ Gathered)
<1>1. Init => J BY IInvInit, InitBegins, OnceBegins, FedInit
<1>2. J /\ [Next]_vars => J'
  <2>1. (Forest <=> Forest') /\ (JoinsStartAfresh <=> JoinsStartAfresh')
    BY DEF Forest, JoinsStartAfresh
  <2> QED BY <2>1, IInvStep, OnceStep, FedStep
<1>3. J => (Forest /\ JoinsStartAfresh => JoinMissesNoOutput)
  <2> SUFFICES ASSUME J, Forest, JoinsStartAfresh, NEW n \in JoinNode, status[n] = "RUNNING",
                      NEW p \in Preds[n] \ {START}, outputs[p] # {}
               PROVE  input[n] \cap ({p} \X (0..execs[p])) # {}
    BY DEF JoinMissesNoOutput
  <2>1. n \in Node /\ p \in Node BY GraphAssumption
  <2>2. outputs[p] \subseteq input[n] BY <2>1 DEF Once, Gathered
  <2>3. outputs[p] \subseteq {p} \X (0..execs[p]) BY <2>1 DEF OwnOutputs, Own, Feeds
  <2> QED BY <2>2, <2>3
<1> QED BY <1>1, <1>2, <1>3, PTL DEF Spec

---------------------------------------------------------------------------
(* What a node left in the session                                         *)

\* Among the numbers with a property one is least.
LEMMA LeastNumber ==
  ASSUME NEW T, T \subseteq Nat, T # {}
  PROVE  \E m \in T : \A k \in 0..(m - 1) : k \notin T
<1> DEFINE Less == OpToRel(<, Nat)
<1>1. IsWellFoundedOn(Less, Nat) BY NatLessThanWellFounded
<1>2. \A x, y \in Nat : <<y, x>> \in Less <=> y < x BY DEF OpToRel
<1> HIDE DEF Less
<1>3. PICK m \in T : \A y \in T : ~(<<y, m>> \in Less) BY <1>1, WFMin
<1>4. \A y \in T : m \in Nat /\ y \in Nat /\ ~(y < m) BY <1>2, <1>3
<1> QED BY <1>4

\* What is in a concatenation is in one of the two parts.
LEMMA ConcatMembers ==
  ASSUME NEW S, NEW s \in Seq(S), NEW t \in Seq(S)
  PROVE  s \o t \in Seq(S) /\ \A x : In(x, s \o t) <=> In(x, s) \/ In(x, t)
<1>1. /\ s \o t \in Seq(S) /\ Len(s \o t) = Len(s) + Len(t)
      /\ \A i \in 1..Len(s \o t) : (s \o t)[i] = IF i <= Len(s) THEN s[i] ELSE t[i - Len(s)]
  BY ConcatProperties
<1>2. \A i \in 1..Len(s) : i \in 1..Len(s \o t) /\ (s \o t)[i] = s[i] BY <1>1
<1>3. ASSUME NEW i \in 1..Len(t)
      PROVE  Len(s) + i \in 1..Len(s \o t) /\ (s \o t)[Len(s) + i] = t[i]
  <2>1. /\ Len(s) + i \in 1..Len(s \o t) /\ ~(Len(s) + i <= Len(s)) /\ Len(s) + i - Len(s) = i
    BY <1>1
  <2> QED BY <1>1, <2>1
<1>4. ASSUME NEW i \in 1..Len(s \o t)
      PROVE  \/ \E j \in 1..Len(s) : (s \o t)[i] = s[j]
             \/ \E j \in 1..Len(t) : (s \o t)[i] = t[j]
  <2>1. CASE i <= Len(s) BY <1>1, <2>1
  <2>2. CASE ~(i <= Len(s))
    <3>1. i - Len(s) \in 1..Len(t) BY <1>1, <2>2
    <3> QED BY <1>1, <2>2, <3>1
  <2> QED BY <2>1, <2>2
<1>5. DOMAIN s = 1..Len(s) /\ DOMAIN t = 1..Len(t) /\ DOMAIN (s \o t) = 1..Len(s \o t)
  BY <1>1
<1>6. ASSUME NEW x, In(x, s \o t) PROVE In(x, s) \/ In(x, t)
  <2>1. PICK i \in 1..Len(s \o t) : (s \o t)[i] = x BY <1>5, <1>6 DEF In
  <2> QED BY <1>4, <1>5, <2>1 DEF In
<1>7. ASSUME NEW x, In(x, s) \/ In(x, t) PROVE In(x, s \o t)
  <2>1. CASE In(x, s)
    <3>1. PICK i \in 1..Len(s) : s[i] = x BY <1>5, <2>1 DEF In
    <3> QED BY <1>2, <1>5, <3>1 DEF In
  <2>2. CASE In(x, t)
    <3>1. PICK i \in 1..Len(t) : t[i] = x BY <1>5, <2>2 DEF In
    <3> QED BY <1>3, <1>5, <3>1 DEF In
  <2> QED BY <1>7, <2>1, <2>2
<1> QED BY <1>1, <1>6, <1>7

\* FlattenSeq is defined by recursion over the parts.
Flattens(g, s) ==
  /\ \A i \in 1..Len(s) : g[i] = IF i = 1 THEN s[i] ELSE g[i - 1] \o s[i]
  /\ Len(s) # 0 => FlattenSeq(s) = g[Len(s)]

LEMMA FlattenDefined ==
  ASSUME NEW S, NEW s \in Seq(Seq(S))
  PROVE  \E g : Flattens(g, s)
<1> DEFINE n == Len(s)
           Flat(f, m) == f = [i \in 1..m |-> IF i = 1 THEN s[i] ELSE f[i - 1] \o s[i]]
           Gap == {m \in Nat : m <= n /\ ~\E f : Flat(f, m)}
           g == CHOOSE f : Flat(f, n)
<1>1. n \in Nat /\ DOMAIN s = 1..n /\ \A i \in 1..n : s[i] \in Seq(S)
  OBVIOUS
<1>2. Gap = {}
  <2> SUFFICES ASSUME Gap # {} PROVE FALSE
    OBVIOUS
  <2>1. PICK m \in Gap : \A k \in 0..(m - 1) : k \notin Gap BY LeastNumber
  <2>2. CASE m = 0
    <3>1. Flat([i \in 1..0 |-> 0], 0) OBVIOUS
    <3> QED BY <2>1, <2>2, <3>1
  <2>3. CASE m > 0
    <3>1. m - 1 \in Nat /\ m - 1 <= n /\ m - 1 \in 0..(m - 1) BY <1>1, <2>3
    <3>2. PICK f : Flat(f, m - 1) BY <2>1, <3>1
    <3> DEFINE h == [i \in 1..m |-> IF i = 1 THEN s[i] ELSE f[i - 1] \o s[i]]
    <3>3. ASSUME NEW i \in 1..(m - 1) PROVE h[i] = f[i]
      <4>1. i \in 1..m BY <1>1, <2>1, <2>3
      <4>2. h[i] = IF i = 1 THEN s[i] ELSE f[i - 1] \o s[i] BY <4>1
      <4>3. f[i] = IF i = 1 THEN s[i] ELSE f[i - 1] \o s[i] BY <3>2
      <4> QED BY <4>2, <4>3
    <3>4. ASSUME NEW i \in 1..m, i # 1 PROVE h[i - 1] = f[i - 1]
      <4>1. i - 1 \in 1..(m - 1) BY <2>3, <3>4
      <4> HIDE DEF h
      <4> QED BY <3>3, <4>1
    <3>5. Flat(h, m)
      <4>1. \A i \in 1..m : (IF i = 1 THEN s[i] ELSE f[i - 1] \o s[i])
                             = IF i = 1 THEN s[i] ELSE h[i - 1] \o s[i]
        <5> HIDE DEF h
        <5> QED BY <3>4
      <4> QED BY <4>1
    <3> QED BY <2>1, <3>5
  <2> QED BY <2>1, <2>2, <2>3
<1>3. Flat(g, n)
  <2>1. n \notin Gap BY <1>2
  <2>2. n \in Nat /\ n <= n BY <1>1
  <2>3. n \in Gap <=> n \in Nat /\ n <= n /\ ~\E f : Flat(f, n)
    <3> HIDE DEF Flat
    <3> QED OBVIOUS
  <2>4. \E f : Flat(f, n)
    <3> HIDE DEF Flat, Gap
    <3> QED BY <2>1, <2>2, <2>3
  <2> QED BY <2>4
<1>4. n # 0 => FlattenSeq(s) = g[n] BY DEF FlattenSeq
<1> HIDE DEF g
<1>5. \A i \in 1..n : g[i] = IF i = 1 THEN s[i] ELSE g[i - 1] \o s[i] BY <1>3
<1>6. Flattens(g, s) BY <1>4, <1>5 DEF Flattens
<1> QED BY <1>6

\* FlattenSeq concatenates: what is in the result is in one of the parts.
LEMMA FlattenFacts ==
  ASSUME NEW S, NEW s \in Seq(Seq(S))
  PROVE  /\ FlattenSeq(s) \in Seq(S)
         /\ \A x : In(x, FlattenSeq(s)) <=> \E i \in DOMAIN s : In(x, s[i])
<1> DEFINE n == Len(s)
<1>1. n \in Nat /\ DOMAIN s = 1..n /\ \A i \in 1..n : s[i] \in Seq(S)
  OBVIOUS
<1>g. PICK g : Flattens(g, s) BY FlattenDefined
<1>2. /\ \A i \in 1..n : g[i] = IF i = 1 THEN s[i] ELSE g[i - 1] \o s[i]
      /\ n # 0 => FlattenSeq(s) = g[n]
  BY <1>g DEF Flattens
<1> DEFINE Good(i) == /\ g[i] \in Seq(S)
                      /\ \A x : In(x, g[i]) <=> \E j \in 1..i : In(x, s[j])
           Bad == {i \in 1..n : ~Good(i)}
<1>3. Bad = {}
  <2> SUFFICES ASSUME Bad # {} PROVE FALSE
    OBVIOUS
  <2>1. PICK i \in Bad : \A k \in 0..(i - 1) : k \notin Bad
    <3>1. Bad \subseteq Nat BY <1>1
    <3> HIDE DEF Bad
    <3> QED BY <3>1, LeastNumber
  <2>2. i \in 1..n /\ s[i] \in Seq(S) BY <1>1, <2>1
  <2>3. CASE i = 1
    <3>1. g[1] = s[1] BY <1>2, <2>2, <2>3
    <3> QED BY <2>1, <2>2, <2>3, <3>1
  <2>4. CASE i # 1
    <3>1. i - 1 \in 1..n /\ i - 1 \in 0..(i - 1) BY <2>2, <2>4
    <3>2. Good(i - 1) BY <2>1, <3>1
    <3>3. g[i] = g[i - 1] \o s[i] BY <1>2, <2>2, <2>4
    <3>4. /\ g[i] \in Seq(S)
          /\ \A x : In(x, g[i]) <=> In(x, g[i - 1]) \/ In(x, s[i])
      BY <2>2, <3>2, <3>3, ConcatMembers
    <3>5. 1..i = (1..(i - 1)) \cup {i} BY <2>2, <2>4
    <3>6. Good(i) BY <3>2, <3>4, <3>5
    <3> QED BY <2>1, <3>6
  <2> QED BY <2>3, <2>4
<1>4. CASE n = 0
  <2>1. s = << >> /\ FlattenSeq(s) = s BY <1>4, EmptySeq DEF FlattenSeq
  <2>2. FlattenSeq(s) = << >> BY <2>1
  <2>3. \A x : ~In(x, << >>) BY DEF In
  <2>4. DOMAIN s = {} BY <1>1, <1>4
  <2> QED BY <2>2, <2>3, <2>4, EmptySeq
<1>5. CASE n # 0
  <2>1. n \in 1..n BY <1>1, <1>5
  <2>2. Good(n) BY <1>3, <2>1
  <2> QED BY <1>1, <1>2, <1>5, <2>2
<1> QED BY <1>4, <1>5

\* If a single part holds anything, the result is that part.
LEMMA FlattenSingle ==
  ASSUME NEW S, NEW s \in Seq(Seq(S)), NEW k \in 1..Len(s),
         \A i \in 1..Len(s) : i # k => s[i] = << >>
  PROVE  FlattenSeq(s) = s[k]
<1> DEFINE n == Len(s)
<1>1. n \in Nat /\ n # 0 /\ \A i \in 1..n : s[i] \in Seq(S)
  OBVIOUS
<1>g. PICK g : Flattens(g, s) BY FlattenDefined
<1>2. /\ \A i \in 1..n : g[i] = IF i = 1 THEN s[i] ELSE g[i - 1] \o s[i]
      /\ n # 0 => FlattenSeq(s) = g[n]
  BY <1>g DEF Flattens
<1> DEFINE Bad == {i \in 1..n : g[i] # IF i < k THEN << >> ELSE s[k]}
<1>3. Bad = {}
  <2> SUFFICES ASSUME Bad # {} PROVE FALSE
    OBVIOUS
  <2>1. PICK i \in Bad : \A j \in 0..(i - 1) : j \notin Bad
    <3>1. Bad \subseteq Nat BY <1>1
    <3> HIDE DEF Bad
    <3> QED BY <3>1, LeastNumber
  <2>2. i \in 1..n BY <2>1
  <2>3. CASE i = 1 BY <1>2, <2>1, <2>2, <2>3
  <2>4. CASE i # 1
    <3>1. i - 1 \in 1..n /\ i - 1 \in 0..(i - 1) BY <2>2, <2>4
    <3>2. g[i - 1] = IF i - 1 < k THEN << >> ELSE s[k] BY <2>1, <3>1
    <3>3. g[i] = g[i - 1] \o s[i] BY <1>2, <2>2, <2>4
    <3>4. \A t \in Seq(S) : << >> \o t = t /\ t \o << >> = t BY ConcatEmptySeq
    <3>5. CASE i < k
      <4>1. i - 1 < k /\ i # k BY <2>2, <3>5
      <4>2. g[i - 1] = << >> /\ s[i] = << >> BY <2>2, <3>2, <4>1
      <4>3. << >> \in Seq(S) OBVIOUS
      <4> QED BY <2>1, <3>3, <3>4, <3>5, <4>2, <4>3
    <3>6. CASE i = k
      <4>1. i - 1 < k /\ ~(i < k) BY <2>2, <3>6
      <4>2. g[i - 1] = << >> BY <3>2, <4>1
      <4>3. s[i] \in Seq(S) BY <1>1, <2>2
      <4>4. g[i] = s[i] BY <3>3, <3>4, <4>2, <4>3
      <4> QED BY <2>1, <3>6, <4>1, <4>4
    <3>7. CASE i > k
      <4>1. ~(i - 1 < k) /\ i # k /\ ~(i < k) BY <2>2, <3>7
      <4>2. g[i - 1] = s[k] /\ s[i] = << >> BY <2>2, <3>2, <4>1
      <4> QED BY <1>1, <2>1, <3>3, <3>4, <4>1, <4>2
    <3> QED BY <2>2, <3>5, <3>6, <3>7
  <2> QED BY <2>3, <2>4
<1>4. g[n] = s[k]
  <2>1. n \in 1..n /\ ~(n < k) BY <1>1
  <2>2. n \notin Bad BY <1>3
  <2> QED BY <2>1, <2>2
<1> QED BY <1>1, <1>2, <1>4

---------------------------------------------------------------------------
(* A turn of a session                                                     *)

\* A body that executes is one of those its node has started.
LiveRuns == \A r \in live : r[2] \in 1..execs[r[1]]

\* SetToSeq enumerates a finite set.
LEMMA SetToSeqFacts ==
  ASSUME NEW S, IsFiniteSet(S)
  PROVE  Cardinality(S) \in Nat /\ SetToSeq(S) \in [1..Cardinality(S) -> S]
<1>1. Cardinality(S) \in Nat /\ ExistsBijection(1..Cardinality(S), S) BY FS_CardinalityType
<1>2. PICK f : f \in Bijection(1..Cardinality(S), S) BY <1>1 DEF ExistsBijection
<1>3. f \in [1..Cardinality(S) -> S] /\ IsInjective(f)
  BY <1>2 DEF Bijection, Injection, IsInjective
<1>4. SetToSeq(S) \in [1..Cardinality(S) -> S] BY <1>3 DEF SetToSeq
<1> QED BY <1>1, <1>4

\* An event that carries some of an output, routes and questions.
CarriesOnly(e, out, routes, ids) ==
  /\ e.out \in {{}, out} /\ e.routes \in {{}, routes} /\ e.ids \subseteq ids
  /\ e.out # {} \/ e.routes # {} \/ e.ids # {}

\* The events of one run of a body carry what it produced, and none is empty.
LEMMA EventsOfFacts ==
  ASSUME IInv, NEW n \in Node, NEW out \in Value, NEW routes \in SUBSET Route,
         NEW ids \in SUBSET Interrupt
  PROVE  /\ EventsOf(n, out, routes, ids) \in Seq(NodeEvent)
         /\ \A e : In(e, EventsOf(n, out, routes, ids)) => CarriesOnly(e, out, routes, ids)
<1> DEFINE c == Cardinality(ids)
           Outs == IF out = {} THEN << >> ELSE <<Part(n, out, {}, {})>>
           Rts == IF routes = {} THEN << >> ELSE <<Part(n, {}, routes, {})>>
           Asks == [i \in 1..c |-> Part(n, {}, {}, {SetToSeq(ids)[i]})]
           Fine(e) == CarriesOnly(e, out, routes, ids)
<1>1. \A o \in Value, R \in SUBSET Route, S \in SUBSET Interrupt :
        /\ Part(n, o, R, S) \in NodeEvent
        /\ Part(n, o, R, S).out = o /\ Part(n, o, R, S).routes = R /\ Part(n, o, R, S).ids = S
  BY DEF Part, NodeEvent, IInv, TypeOK, Value
<1>2. {} \in Value BY DEF Value
<1>3. Outs \in Seq(NodeEvent) /\ \A e : In(e, Outs) => Fine(e) BY <1>1, <1>2 DEF In, CarriesOnly
<1>4. Rts \in Seq(NodeEvent) /\ \A e : In(e, Rts) => Fine(e) BY <1>1, <1>2 DEF In, CarriesOnly
<1>5. Asks \in Seq(NodeEvent) /\ \A e : In(e, Asks) => Fine(e)
  <2>1. IsFiniteSet(ids) BY SessionAssumption, FS_Subset
  <2>2. c \in Nat /\ \A i \in 1..c : SetToSeq(ids)[i] \in ids BY <2>1, SetToSeqFacts
  <2> HIDE DEF c
  <2>3. ASSUME NEW i \in 1..c PROVE Asks[i] \in NodeEvent /\ Fine(Asks[i])
    <3> DEFINE x == SetToSeq(ids)[i]
               p == Part(n, {}, {}, {x})
    <3>1. Asks[i] = p OBVIOUS
    <3>2. x \in ids /\ {x} \in SUBSET Interrupt /\ {} \in SUBSET Route BY <2>2
    <3> HIDE DEF Asks, x
    <3>3. p \in NodeEvent /\ p.out = {} /\ p.routes = {} /\ p.ids = {x}
      BY <1>1, <1>2, <3>2
    <3> HIDE DEF p
    <3>4. Fine(p) BY <3>2, <3>3 DEF CarriesOnly
    <3> QED BY <3>1, <3>3, <3>4
  <2>4. Asks \in Seq(NodeEvent)
    <3>1. DOMAIN Asks = 1..c OBVIOUS
    <3>2. Asks \in [1..c -> NodeEvent] BY <2>3
    <3> HIDE DEF Asks
    <3> QED BY <2>2, <3>2
  <2>5. DOMAIN Asks = 1..c OBVIOUS
  <2> HIDE DEF Asks, Fine
  <2> QED BY <2>3, <2>4, <2>5 DEF In
<1>6. Outs \o Rts \o Asks \in Seq(NodeEvent) /\ \A e : In(e, Outs \o Rts \o Asks) => Fine(e)
  <2> HIDE DEF Outs, Rts, Asks, Fine
  <2>1. Outs \o Rts \in Seq(NodeEvent) /\ \A e : In(e, Outs \o Rts) <=> In(e, Outs) \/ In(e, Rts)
    BY <1>3, <1>4, ConcatMembers
  <2>2. /\ Outs \o Rts \o Asks \in Seq(NodeEvent)
        /\ \A e : In(e, Outs \o Rts \o Asks) <=> In(e, Outs \o Rts) \/ In(e, Asks)
    BY <1>5, <2>1, ConcatMembers
  <2> QED BY <1>3, <1>4, <1>5, <2>1, <2>2
<1>7. CASE out = {} /\ routes = {} /\ ids = {}
  BY <1>7 DEF EventsOf, In
<1>8. CASE ~(out = {} /\ routes = {} /\ ids = {}) /\ n \notin Dispersed
  <2>1. EventsOf(n, out, routes, ids) = <<Part(n, out, routes, ids)>> BY <1>8 DEF EventsOf
  <2> QED BY <1>1, <1>8, <2>1 DEF In, CarriesOnly
<1>9. CASE ~(out = {} /\ routes = {} /\ ids = {}) /\ n \in Dispersed
  <2>1. EventsOf(n, out, routes, ids) = Outs \o Rts \o Asks BY <1>9 DEF EventsOf
  <2> HIDE DEF Outs, Rts, Asks
  <2> QED BY <1>6, <2>1
<1> QED BY <1>7, <1>8, <1>9

\* What a body leaves is put down in the present turn.
LEMMA RecordFacts ==
  ASSUME session \in Seq(Turn), Now \in 1..MaxTurns, NEW n \in Node,
         NEW es \in Seq(NodeEvent), Record(n, es)
  PROVE  /\ session' \in Seq(Turn) /\ Now' = Now
         /\ \A t \in 1..Now : t # Now => session'[t] = session[t]
         /\ \A m \in Node : m # n => session'[Now].events[m] = session[Now].events[m]
         /\ session'[Now].events[n] = session[Now].events[n] \o es
         /\ session'[Now].replies = session[Now].replies
         /\ session'[Now].paused <=> session[Now].paused \/ \E i \in DOMAIN es : es[i].ids # {}
         /\ session'[Now].emitted <=> session[Now].emitted \/ es # << >>
<1> DEFINE t == session[Now]
           u == [t EXCEPT !.events[n] = @ \o es,
                          !.emitted = @ \/ es # << >>,
                          !.paused = @ \/ \E i \in DOMAIN es : es[i].ids # {}]
<1>1. Now \in DOMAIN session /\ DOMAIN session = 1..Now /\ t \in Turn
  BY SessionAssumption DEF Now
<1>2. session' = [session EXCEPT ![Now] = u] BY DEF Record
<1>3. t.events[n] \in Seq(NodeEvent) BY <1>1 DEF Turn
<1>4. t.events[n] \o es \in Seq(NodeEvent) BY <1>3, ConcatMembers
<1>5. /\ u \in Turn /\ u.events[n] = t.events[n] \o es /\ u.replies = t.replies
      /\ \A m \in Node : m # n => u.events[m] = t.events[m]
      /\ u.paused <=> t.paused \/ \E i \in DOMAIN es : es[i].ids # {}
      /\ u.emitted <=> t.emitted \/ es # << >>
  BY <1>1, <1>4 DEF Turn
<1> HIDE DEF u
<1>6. session' \in Seq(Turn) /\ Now' = Now BY <1>1, <1>2, <1>5 DEF Now
<1> QED BY <1>1, <1>2, <1>5, <1>6

LEMMA EventFacts ==
  ASSUME NEW s \in Seq(Turn), NEW t \in DOMAIN s, NEW n \in Node
  PROVE  /\ s[t].events[n] \in Seq(NodeEvent)
         /\ \A e : In(e, s[t].events[n]) => e \in NodeEvent
<1>1. s[t] \in Turn OBVIOUS
<1>2. s[t].events[n] \in Seq(NodeEvent) BY <1>1 DEF Turn
<1> QED BY <1>2 DEF In

\* The questions of some turns are those of their events.
LEMMA RaisedFacts ==
  ASSUME NEW s \in Seq(Turn), NEW turns \in SUBSET DOMAIN s
  PROVE  /\ RaisedIn(s, turns) \subseteq Interrupt
         /\ \A i : i \in RaisedIn(s, turns) <=>
              \E t \in turns : \E n \in Node : \E e : In(e, s[t].events[n]) /\ i \in e.ids
<1>1. \A t \in turns : \A i : i \in Raised(s[t]) <=>
        \E n \in Node : \E e : In(e, s[t].events[n]) /\ i \in e.ids
  BY ToSetFacts DEF Raised
<1>2. \A i : i \in RaisedIn(s, turns) <=> \E t \in turns : i \in Raised(s[t])
  BY DEF RaisedIn
<1>3. \A e \in NodeEvent : e.ids \subseteq Interrupt BY DEF NodeEvent
<1> QED BY <1>1, <1>2, <1>3, EventFacts

\* What the turns that are kept hold of a node, in order.
LEMMA NodeEventsFacts ==
  ASSUME NEW s \in Seq(Turn), NEW turns, NEW n \in Node
  PROVE  /\ NodeEventsIn(s, turns, n) \in Seq(NodeEvent)
         /\ \A e : In(e, NodeEventsIn(s, turns, n)) <=>
              \E t \in DOMAIN s : t \in turns /\ In(e, s[t].events[n])
<1> DEFINE parts == [t \in DOMAIN s |-> IF t \in turns THEN s[t].events[n] ELSE << >>]
<1>1. \A t \in DOMAIN s : s[t].events[n] \in Seq(NodeEvent) BY EventFacts
<1>2. parts \in [1..Len(s) -> Seq(NodeEvent)] /\ Len(s) \in Nat BY <1>1
<1>3. parts \in Seq(Seq(NodeEvent)) /\ DOMAIN parts = DOMAIN s
  <2> HIDE DEF parts
  <2> QED BY <1>2
<1>4. \A t \in DOMAIN s : parts[t] = IF t \in turns THEN s[t].events[n] ELSE << >>
  OBVIOUS
<1>5. \A e : ~In(e, << >>) BY DEF In
<1>6. NodeEventsIn(s, turns, n) = FlattenSeq(parts) BY DEF NodeEventsIn
<1> HIDE DEF parts
<1> QED BY <1>3, <1>4, <1>5, <1>6, FlattenFacts

\* The runs that a turn resumes from.
LEMMA ReconstructFacts ==
  ASSUME NEW s \in Seq(Turn), NEW turns
  PROVE  ReconstructNodeRuns(s, turns) \in [Node -> Seq(Prior)]
<1> SUFFICES ASSUME NEW n \in Node PROVE ReconstructNodeRuns(s, turns)[n] \in Seq(Prior)
  BY DEF ReconstructNodeRuns
<1> DEFINE es == NodeEventsIn(s, turns, n)
           Run(e) == [out |-> e.out, routes |-> e.routes, ids |-> e.ids,
                      answered |-> e.ids \cap ResolvedIn(s, turns), input |-> e.input]
<1>1. es \in Seq(NodeEvent) BY NodeEventsFacts
<1>2. ReconstructNodeRuns(s, turns)[n] = [i \in DOMAIN es |-> Run(es[i])]
  BY DEF ReconstructNodeRuns
<1>3. \A e \in NodeEvent : Run(e) \in Prior BY DEF NodeEvent, Prior
<1> HIDE DEF es, Run
<1> QED BY <1>1, <1>2, <1>3

\* The next turn begins with a new LoopState.
LEMMA ResumeBegins ==
  ASSUME TypeOK, session' \in Seq(Turn), NEW turns, NEW text \in SUBSET Interrupt,
         Resume(turns, text)
  PROVE  Begins'
<1>1. rehydrated' = ReconstructNodeRuns(session', turns) BY DEF Resume, Restart
<1>2. rehydrated' \in [Node -> Seq(Prior)] BY <1>1, ReconstructFacts
<1>3. resumeInputs' \subseteq Interrupt BY DEF Resume, Restart, ResolvedIn
<1>4. execs' \in [Node -> Nat] BY DEF Resume, Restart, TypeOK
<1> QED BY <1>2, <1>3, <1>4 DEF Resume, Restart, Begins

LEMMA NewTurnFacts ==
  ASSUME session \in Seq(Turn), NEW ids \in SUBSET Interrupt, NEW b \in BOOLEAN,
         session' = Append(session, NewTurn(ids, b))
  PROVE  /\ session' \in Seq(Turn) /\ Now \in Nat /\ Now' = Now + 1
         /\ \A t \in 1..Now : session'[t] = session[t]
         /\ session'[Now + 1].replies = ids
         /\ ~session'[Now + 1].paused /\ ~session'[Now + 1].emitted
         /\ \A n \in Node : session'[Now + 1].events[n] = << >>
<1>1. NewTurn(ids, b) \in Turn
  <2>1. << >> \in Seq(NodeEvent) OBVIOUS
  <2>2. [n \in Node |-> << >>] \in [Node -> Seq(NodeEvent)] BY <2>1
  <2> QED BY <2>2 DEF NewTurn, Turn
<1>2. /\ NewTurn(ids, b).replies = ids /\ NewTurn(ids, b).paused = FALSE
      /\ NewTurn(ids, b).emitted = FALSE
      /\ \A n \in Node : NewTurn(ids, b).events[n] = << >>
  BY DEF NewTurn
<1>3. /\ session' \in Seq(Turn) /\ Now \in Nat /\ Now' = Now + 1
      /\ \A t \in 1..Now : session'[t] = session[t]
      /\ session'[Now + 1] = NewTurn(ids, b)
  BY <1>1 DEF Now
<1> QED BY <1>2, <1>3

\* A step of the session is a step of the turn, the start of the next one, or
\* the refusal of a reply.
LEMMA UserBegins ==
  ASSUME TypeOK, session \in Seq(Turn),
         PlainText \/ \E ids \in SUBSET Interrupt : Reply(ids)
  PROVE  Begins'
<1>1. CASE PlainText
  <2>1. session' \in Seq(Turn)
    <3>1. session' = Append(session, NewTurn({}, FALSE)) BY <1>1 DEF PlainText
    <3> QED BY <3>1, NewTurnFacts
  <2>2. Unanswered \subseteq Interrupt
    <3>1. EventsForCurrentRun(session) \in SUBSET DOMAIN session BY DEF EventsForCurrentRun
    <3> QED BY <3>1, RaisedFacts DEF Unanswered
  <2>3. (IF Cardinality(Unanswered) = 1 THEN Unanswered ELSE {}) \in SUBSET Interrupt BY <2>2
  <2> QED BY <1>1, <2>1, <2>3, ResumeBegins DEF PlainText
<1>2. ASSUME NEW ids \in SUBSET Interrupt, Reply(ids) PROVE Begins'
  <2>1. session' = Append(session, NewTurn(ids, FALSE)) BY <1>2 DEF Reply
  <2>2. session' \in Seq(Turn) BY <2>1, NewTurnFacts
  <2> QED BY <1>2, <2>2, ResumeBegins DEF Reply
<1> QED BY <1>1, <1>2

LEMMA TurnCases ==
  ASSUME TypeOK, session \in Seq(Turn), [SessionNext]_sessionVars
  PROVE  \/ [Next]_vars
         \/ Begins' /\ (PlainText \/ \E ids \in SUBSET Interrupt : Reply(ids))
         \/ \E i \in Interrupt : RefuseReply(i)
<1>1. CASE SessionStep
  BY <1>1 DEF SessionStep, OrchestrateAndRecord, SettleAndRecord, Next, BodyStep
<1>2. CASE UserStep BY <1>2, UserBegins DEF UserStep
<1>3. CASE SessionOver \/ UNCHANGED sessionVars BY <1>3 DEF SessionOver, sessionVars
<1> QED BY <1>1, <1>2, <1>3 DEF SessionNext

\* A turn that refuses a reply ends where the last one ended.
LEMMA RefuseFacts ==
  ASSUME IInv, Accounted, NEW i \in Interrupt, RefuseReply(i)
  PROVE  IInv' /\ Accounted'
<1>1. /\ phase' = "threw" /\ phase # "schedule" /\ result' = [NoResult EXCEPT !.kind = "error"]
      /\ UNCHANGED <<todo, downstream, relay, first, bufVars, taskVars, bodyVars,
                     nodeVars, runVars, doneVars, resumeInputs, aborted, reported>>
  BY DEF RefuseReply, Stopped
<1>2. result' \in [kind : {"none", "output", "interrupted", "conflict", "error"},
                   out : Value, ids : SUBSET Interrupt]
  BY <1>1 DEF NoResult, Value
<1>3. TypeOK' BY <1>1, <1>2 DEF IInv, TypeOK, bufVars, taskVars, bodyVars, nodeVars, runVars, doneVars
<1>4. Buffered' /\ Tracked' /\ Collected'
  BY <1>1 DEF IInv, Buffered, Tracked, Collected, bufVars, taskVars, nodeVars, doneVars
<1>5. Accounted' BY <1>1 DEF Accounted, Passed, RunningIsPending, LiveIsPending, Failing
<1> QED BY <1>3, <1>4, <1>5 DEF IInv

\* The bodies of a node are started one after another.
LEMMA LiveRunsStep ==
  ASSUME IInv, LiveRuns, [Next]_vars
  PROVE  LiveRuns' /\ \A n \in Node : execs[n] <= execs'[n]
<1>1. live \subseteq Node \X Nat /\ execs \in [Node -> Nat] BY DEF IInv, TypeOK
<1>2. CASE \E n \in Node : StartBody(n)
  <2>1. PICK n \in Node : StartBody(n) BY <1>2
  <2>2. /\ live' = live \cup {<<n, execs[n] + 1>>}
        /\ \A m \in Node : execs'[m] = IF m = n THEN execs[m] + 1 ELSE execs[m]
    BY <1>1, <2>1 DEF StartBody
  <2>3. ASSUME NEW r \in live' PROVE r[2] \in 1..execs'[r[1]]
    <3>1. CASE r \in live
      <4>1. r[1] \in Node /\ r[2] \in 1..execs[r[1]] BY <1>1, <3>1 DEF LiveRuns
      <4> QED BY <1>1, <2>2, <4>1
    <3>2. CASE r = <<n, execs[n] + 1>>
      <4>1. r[1] = n /\ r[2] = execs[n] + 1 BY <3>2
      <4> QED BY <1>1, <2>2, <4>1
    <3> QED BY <2>2, <3>1, <3>2
  <2> QED BY <1>1, <2>2, <2>3 DEF LiveRuns
<1>3. CASE live' \subseteq live /\ UNCHANGED execs
  BY <1>1, <1>3 DEF LiveRuns
<1>4. (\E n \in Node : StartBody(n)) \/ (live' \subseteq live /\ UNCHANGED execs)
  BY DEF Next, LoopStep, SkipHeld, StopAtLimit, Race, FastForward, HandOver, DeliverError,
     DeliverInterrupt, DeliverWait, DeliverCompletion, Fanout, NextPass, Rethrow, Finalize,
     BodyStep, Settle, Abort, Terminated, vars, bodyVars
<1> QED BY <1>2, <1>3, <1>4

\* The k-th execution of n ends with e and leaves es in the session.
Leaves(n, k, e, es) ==
  /\ Settle(n, k, e) /\ e \in Behaviour[n] /\ e.ids \subseteq Generated[n][k]
  /\ es \in Seq(NodeEvent) /\ Record(n, es)
  /\ \A x : In(x, es) =>
       CarriesOnly(x, IF e.yields THEN {<<n, k>>} ELSE {}, e.routes, e.ids)

\* What the end of a body adds to the session.
LEMMA SettleFacts ==
  ASSUME IInv, LiveRuns, NEW r \in live, NEW e \in Endings(r[1]),
         SettleAndRecord(r[1], r[2], e)
  PROVE  \E n \in Node, k \in Nat, es \in Seq(NodeEvent) :
           r = <<n, k>> /\ k \in 1..execs[n] /\ Leaves(n, k, e, es)
<1>1. PICK n \in Node, k \in Nat : r = <<n, k>> BY DEF IInv, TypeOK
<1>2. k \in 1..execs[n] BY <1>1 DEF LiveRuns
<1> DEFINE out == IF e.yields THEN {<<n, k>>} ELSE {}
           es == EventsOf(n, out, e.routes, e.ids)
<1>3. e \in Behaviour[n] /\ e \in Ending BY <1>1, BoundAssumption DEF Endings
<1>4. out \in Value /\ e.routes \in SUBSET Route /\ e.ids \in SUBSET Interrupt
  BY <1>3 DEF Value, Token, Ending
<1>5. /\ Settle(n, k, e) /\ e.ids \subseteq Generated[n][k] /\ Record(n, es)
  BY <1>1 DEF SettleAndRecord
<1> HIDE DEF out
<1>6. es \in Seq(NodeEvent) /\ \A x : In(x, es) => CarriesOnly(x, out, e.routes, e.ids)
  BY <1>4, EventsOfFacts
<1> HIDE DEF es
<1>8. Leaves(n, k, e, es) BY <1>3, <1>5, <1>6 DEF Leaves, out
<1> QED BY <1>1, <1>2, <1>6, <1>8, Zenon

\* The present turn is replaced.
LEMMA ReplaceTurn ==
  ASSUME session \in Seq(Turn), Now \in Nat \ {0}, NEW u \in Turn,
         session' = [session EXCEPT ![Now] = u]
  PROVE  /\ session' \in Seq(Turn) /\ Now' = Now /\ session'[Now] = u
         /\ \A t \in 1..Now : t # Now => session'[t] = session[t]
<1>1. Now \in DOMAIN session /\ DOMAIN session = 1..Now BY DEF Now
<1>2. session' \in Seq(Turn) /\ Now' = Now BY <1>1 DEF Now
<1> QED BY <1>1, <1>2

\* An event of the loop's own leaves the nodes' events as they were.
LEMMA EmittedFacts ==
  ASSUME session \in Seq(Turn), Now \in Nat \ {0},
         session' = [session EXCEPT ![Now].emitted = TRUE]
  PROVE  /\ session' \in Seq(Turn) /\ Now' = Now
         /\ \A t \in 1..Now : t # Now => session'[t] = session[t]
         /\ session'[Now].emitted
         /\ session'[Now].events = session[Now].events
         /\ session'[Now].replies = session[Now].replies
         /\ session'[Now].paused = session[Now].paused
<1> DEFINE u == [session[Now] EXCEPT !.emitted = TRUE]
<1>1. Now \in DOMAIN session /\ DOMAIN session = 1..Now /\ session[Now] \in Turn
  BY DEF Now
<1>2. session' = [session EXCEPT ![Now] = u] OBVIOUS
<1>3. /\ u \in Turn /\ u.events = session[Now].events /\ u.replies = session[Now].replies
      /\ u.paused = session[Now].paused /\ u.emitted
  BY <1>1 DEF Turn
<1> HIDE DEF u
<1> QED BY <1>2, <1>3, ReplaceTurn

LEMMA SessionTypeStep ==
  ASSUME IInv, LiveRuns, SessionTypeOK, [SessionNext]_sessionVars PROVE SessionTypeOK'
<1> DEFINE Stems(m, x) == /\ x.out \subseteq {m} \X (1..execs[m])
                          /\ x.ids \subseteq UNION {Generated[m][k] : k \in 1..execs[m]}
<1>1. /\ session \in Seq(Turn) /\ Now \in 1..MaxTurns /\ Now \in Nat /\ DOMAIN session = 1..Now
      /\ \A t \in DOMAIN session, m \in Node : \A x : In(x, session[t].events[m]) => Stems(m, x)
  BY ToSetFacts, SessionAssumption DEF SessionTypeOK, Now
<1>2. (\A m \in Node : execs[m] <= execs'[m] /\ execs[m] \in Nat /\ execs'[m] \in Nat)
        => \A m \in Node : \A x : Stems(m, x) => Stems(m, x)'
  <2> SUFFICES ASSUME NEW m \in Node, execs[m] <= execs'[m], execs[m] \in Nat, execs'[m] \in Nat,
                      NEW x, Stems(m, x)
               PROVE  Stems(m, x)'
    OBVIOUS
  <2>1. 1..execs[m] \subseteq 1..execs'[m] OBVIOUS
  <2>2. UNION {Generated[m][k] : k \in 1..execs[m]} \subseteq UNION {Generated[m][k] : k \in 1..execs'[m]}
    BY <2>1
  <2> QED BY <2>1, <2>2
<1>3. SUFFICES /\ session' \in Seq(Turn) /\ Now' \in 1..MaxTurns
               /\ \A t \in 1..Now', m \in Node : \A x :
                    In(x, session'[t].events[m]) => Stems(m, x)'
  <2>1. session' \in Seq(Turn) => DOMAIN session' = 1..Now' BY DEF Now
  <2> QED BY <2>1, ToSetFacts DEF SessionTypeOK
<1> HIDE DEF Stems
<1>4. CASE \E r \in live : \E e \in Endings(r[1]) : SettleAndRecord(r[1], r[2], e)
  <2>1. PICK r \in live : \E e \in Endings(r[1]) : SettleAndRecord(r[1], r[2], e) BY <1>4
  <2>2. PICK e \in Endings(r[1]) : SettleAndRecord(r[1], r[2], e) BY <2>1
  <2>3. PICK n \in Node, k \in Nat, es \in Seq(NodeEvent) : k \in 1..execs[n] /\ Leaves(n, k, e, es)
    BY <2>2, SettleFacts
  <2>4. /\ Settle(n, k, e) /\ e.ids \subseteq Generated[n][k] /\ Record(n, es)
        /\ es \in Seq(NodeEvent)
        /\ \A x : In(x, es) => /\ x.out \in {{}, IF e.yields THEN {<<n, k>>} ELSE {}}
                               /\ x.ids \subseteq e.ids
    BY <2>3 DEF Leaves, CarriesOnly
  <2>5. execs' = execs BY <2>4 DEF Settle
  <2>6. \A m, x : Stems(m, x)' <=> Stems(m, x) BY <2>5 DEF Stems
  <2>7. \A x : In(x, es) => Stems(n, x) BY <2>3, <2>4 DEF Stems
  <2>8. /\ session' \in Seq(Turn) /\ Now' = Now
        /\ \A t \in 1..Now : t # Now => session'[t] = session[t]
        /\ \A m \in Node : m # n => session'[Now].events[m] = session[Now].events[m]
        /\ session'[Now].events[n] = session[Now].events[n] \o es
    BY <1>1, <2>4, RecordFacts
  <2>9. \A x : In(x, session'[Now].events[n]) => In(x, session[Now].events[n]) \/ In(x, es)
    <3>1. session[Now].events[n] \in Seq(NodeEvent) BY <1>1, EventFacts
    <3> QED BY <2>4, <2>8, <3>1, ConcatMembers
  <2>10. ASSUME NEW t \in 1..Now, NEW m \in Node, NEW x, In(x, session'[t].events[m])
         PROVE  Stems(m, x)
    <3>1. CASE t # Now \/ m # n
      <4>1. session'[t].events[m] = session[t].events[m] BY <2>8, <3>1
      <4> QED BY <1>1, <2>10, <4>1
    <3>2. CASE t = Now /\ m = n BY <1>1, <2>7, <2>9, <2>10, <3>2
    <3> QED BY <3>1, <3>2
  <2> QED BY <1>1, <2>6, <2>8, <2>10
<1>5. CASE OrchestrateAndRecord \/ (Abort /\ UNCHANGED session) \/ SessionOver
           \/ UNCHANGED sessionVars
  <2>1. [Next]_vars
    BY <1>5 DEF OrchestrateAndRecord, Next, SessionOver, sessionVars
  <2>2. \A m \in Node : execs[m] <= execs'[m] /\ execs[m] \in Nat /\ execs'[m] \in Nat
    BY <2>1, LiveRunsStep, IInvStep DEF IInv, TypeOK
  <2>3. session' = session \/ session' = [session EXCEPT ![Now].emitted = TRUE]
    BY <1>5 DEF OrchestrateAndRecord, SessionOver, sessionVars
  <2>4. /\ session' \in Seq(Turn) /\ Now' = Now
        /\ \A t \in 1..Now : session'[t].events = session[t].events
    <3>1. CASE session' = session BY <1>1, <3>1 DEF Now
    <3>2. CASE session' = [session EXCEPT ![Now].emitted = TRUE]
      <4>1. Now \in Nat \ {0} BY <1>1
      <4>2. /\ session' \in Seq(Turn) /\ Now' = Now
            /\ \A t \in 1..Now : t # Now => session'[t] = session[t]
            /\ session'[Now].events = session[Now].events
        BY <1>1, <3>2, <4>1, EmittedFacts
      <4> QED BY <4>2
    <3> QED BY <2>3, <3>1, <3>2
  <2> QED BY <1>1, <1>2, <2>2, <2>4
<1>6. CASE UserStep
  <2>1. PICK ids \in SUBSET Interrupt, b \in BOOLEAN :
          session' = Append(session, NewTurn(ids, b)) /\ Now < MaxTurns /\ UNCHANGED execs
    <3>1. \A i \in Interrupt : {i} \in SUBSET Interrupt OBVIOUS
    <3> QED BY <1>6, <3>1 DEF UserStep, Reply, PlainText, RefuseReply, Resume, Restart, bodyVars
  <2>2. /\ session' \in Seq(Turn) /\ Now' = Now + 1
        /\ \A t \in 1..Now : session'[t] = session[t]
        /\ \A n \in Node : session'[Now + 1].events[n] = << >>
    BY <1>1, <2>1, NewTurnFacts
  <2>3. \A m, x : Stems(m, x)' <=> Stems(m, x) BY <2>1 DEF Stems
  <2>4. ASSUME NEW t \in 1..Now', NEW m \in Node, NEW x, In(x, session'[t].events[m])
        PROVE  Stems(m, x)
    <3>1. CASE t \in 1..Now BY <1>1, <2>2, <2>4, <3>1
    <3>2. CASE t = Now + 1 BY <2>2, <2>4, <3>2 DEF In
    <3> QED BY <1>1, <2>2, <3>1, <3>2
  <2>5. Now' \in 1..MaxTurns BY <1>1, <2>1, <2>2, SessionAssumption
  <2> QED BY <2>2, <2>3, <2>4, <2>5
<1> QED BY <1>4, <1>5, <1>6 DEF SessionNext, SessionStep

\* What a session keeps to, whatever the graph and the client.
SessionInv == IInv /\ Accounted /\ LiveRuns /\ SessionTypeOK

LEMMA SessionInvStep ==
  SessionInv /\ [SessionNext]_sessionVars => SessionInv'
<1> SUFFICES ASSUME SessionInv, [SessionNext]_sessionVars PROVE SessionInv'
  OBVIOUS
<1>1. /\ IInv /\ Accounted /\ LiveRuns /\ SessionTypeOK /\ TypeOK /\ session \in Seq(Turn)
  BY DEF SessionInv, IInv, SessionTypeOK
<1>2. SessionTypeOK' BY <1>1, SessionTypeStep
<1>3. CASE [Next]_vars
  BY <1>1, <1>2, <1>3, IInvStep, AccountedStep, LiveRunsStep DEF SessionInv
<1>4. CASE Begins'
  <2>1. IInv' /\ Accounted'
    <3>1. (Begins => IInv /\ Accounted)' BY IInvBegins, AccountedBegins, PTL
    <3> QED BY <1>4, <3>1
  <2>2. LiveRuns' BY <1>4 DEF Begins, LiveRuns
  <2> QED BY <1>2, <2>1, <2>2 DEF SessionInv
<1>5. CASE \E i \in Interrupt : RefuseReply(i)
  <2>1. UNCHANGED bodyVars BY <1>5 DEF RefuseReply
  <2>2. LiveRuns' BY <1>1, <2>1 DEF LiveRuns, bodyVars
  <2> QED BY <1>1, <1>2, <1>5, <2>2, RefuseFacts DEF SessionInv
<1> QED BY <1>1, <1>3, <1>4, <1>5, TurnCases

LEMMA SessionInvInit == SessionInit => SessionInv
<1> SUFFICES ASSUME SessionInit PROVE SessionInv
  OBVIOUS
<1>1. IInv /\ Accounted /\ LiveRuns
  BY IInvInit, InitBegins, AccountedBegins DEF SessionInit, LiveRuns, Begins
<1> DEFINE T == NewTurn({}, FALSE)
<1>2. T \in Turn /\ \A n \in Node : T.events[n] = << >>
  <2>1. << >> \in Seq(NodeEvent) OBVIOUS
  <2>2. [n \in Node |-> << >>] \in [Node -> Seq(NodeEvent)] BY <2>1
  <2> QED BY <2>2 DEF NewTurn, Turn
<1>3. session = <<T>> BY DEF SessionInit
<1> HIDE DEF T
<1>4. /\ session \in Seq(Turn) /\ Now = 1 /\ DOMAIN session = {1} /\ session[1] = T
  BY <1>2, <1>3 DEF Now
<1>5. ToSet(<< >>) = {} BY DEF ToSet
<1>6. Now \in 1..MaxTurns BY <1>4, SessionAssumption
<1>7. SessionTypeOK
  <2>1. \A t \in DOMAIN session, n \in Node : ToSet(session[t].events[n]) = {} BY <1>2, <1>4, <1>5
  <2> QED BY <1>4, <1>6, <2>1 DEF SessionTypeOK
<1> QED BY <1>1, <1>7 DEF SessionInv

LEMMA SessionInvHolds == SessionSpec => []SessionInv
BY SessionInvInit, SessionInvStep, PTL DEF SessionSpec

\* Over any number of turns the variables of the loop and of the session keep
\* their types, and what the session holds of a node stems from bodies that
\* node has executed (reconstructNodeRuns, enrichEvent).
THEOREM SessionTypeCorrect == SessionSpec => [](TypeOK /\ SessionTypeOK)
<1>1. SessionInv => TypeOK /\ SessionTypeOK BY DEF SessionInv, IInv
<1> QED BY <1>1, SessionInvHolds, PTL

\* What holds of every step of a turn, at its start and where it throws holds
\* in every turn of a session.
LEMMA TurnInvariants ==
  /\ Begins => NoRunnableTriggerLost /\ AsksInsteadOfAnswering
  /\ \A i : RefuseReply(i) => NoRunnableTriggerLost' /\ AsksInsteadOfAnswering'
BY DEF Begins, RefuseReply, NoRunnableTriggerLost, AsksInsteadOfAnswering

\* No turn of a session, resumed or not, returns with a trigger it could still
\* run (runLoop).
THEOREM NoTurnLosesATrigger == SessionSpec => []NoRunnableTriggerLost
<1> DEFINE P == NoRunnableTriggerLost
<1>1. SessionInit => P BY InitBegins, TurnInvariants DEF SessionInit
<1>2. SessionInv /\ P /\ [SessionNext]_sessionVars => P'
  <2> SUFFICES ASSUME SessionInv, P, [SessionNext]_sessionVars PROVE P'
    OBVIOUS
  <2>1. IInv /\ Accounted /\ TypeOK /\ session \in Seq(Turn)
    BY DEF SessionInv, IInv, SessionTypeOK
  <2>2. CASE [Next]_vars BY <2>1, <2>2, LosesNoTrigger
  <2>3. CASE Begins'
    <3>1. (Begins => P)' BY TurnInvariants, PTL
    <3> QED BY <2>3, <3>1
  <2>4. CASE \E i \in Interrupt : RefuseReply(i) BY <2>4, TurnInvariants
  <2> QED BY <2>1, <2>2, <2>3, <2>4, TurnCases
<1> QED BY <1>1, <1>2, SessionInvHolds, PTL DEF SessionSpec

\* Every turn of a session in which a node waits for an answer reports exactly
\* the open questions, and no output (finalize).
THEOREM EveryTurnReportsItsQuestions == SessionSpec => []AsksInsteadOfAnswering
<1> DEFINE P == AsksInsteadOfAnswering
<1>1. SessionInit => P BY InitBegins, TurnInvariants DEF SessionInit
<1>2. SessionInv /\ P /\ [SessionNext]_sessionVars => P'
  <2> SUFFICES ASSUME SessionInv, P, [SessionNext]_sessionVars PROVE P'
    OBVIOUS
  <2>1. IInv /\ Accounted /\ TypeOK /\ session \in Seq(Turn)
    BY DEF SessionInv, IInv, SessionTypeOK
  <2>2. CASE [Next]_vars BY <2>1, <2>2, AsksStep
  <2>3. CASE Begins'
    <3>1. (Begins => P)' BY TurnInvariants, PTL
    <3> QED BY <2>3, <3>1
  <2>4. CASE \E i \in Interrupt : RefuseReply(i) BY <2>4, TurnInvariants
  <2> QED BY <2>1, <2>2, <2>3, <2>4, TurnCases
<1> QED BY <1>1, <1>2, SessionInvHolds, PTL DEF SessionSpec

---------------------------------------------------------------------------
(* A run that finished is over                                             *)

\* A question is open: the loop has collected it, or a task brings it.
QuestionOpen == raised # {} \/ \E n \in Node : In(n, pending) /\ task[n].ids # {}

\* Until the turn fails, what it has asked is open, and it then has no output.
Paused ==
  /\ \A n \in Node : task[n].kind = "running" => task[n].ids = {}
  /\ session[Now].paused /\ ~Failing => QuestionOpen
  /\ phase = "returned" /\ result.kind = "output" => ~session[Now].paused

\* The loop forgets no question.
LEMMA QuestionKept ==
  ASSUME IInv, QuestionOpen, LoopStep, ~Failing' PROVE QuestionOpen'
<1>1. CASE SkipHeld \/ StopAtLimit \/ Race \/ Fanout \/ NextPass
  BY <1>1 DEF SkipHeld, StopAtLimit, Race, Fanout, NextPass, taskVars, doneVars, QuestionOpen
<1>2. ASSUME NEW n \in Node, FastForward(n) \/ HandOver(n) \/ StartBody(n) PROVE QuestionOpen'
  <2>1. Ready(n) /\ TakeTrigger(n) /\ \A m \in Node : m # n => task'[m] = task[m]
    BY <1>2 DEF FastForward, HandOver, StartBody, IInv, TypeOK
  <2>2. ~In(n, pending) BY <2>1, ReadyFacts DEF IInv
  <2>3. \A m : In(m, pending) => In(m, pending')
    BY <2>1, AppendFacts DEF TakeTrigger, IInv, TypeOK
  <2>4. raised' = raised BY <2>1 DEF TakeTrigger, doneVars
  <2> QED BY <2>1, <2>2, <2>3, <2>4 DEF QuestionOpen
<1>3. ASSUME NEW n \in Node, DeliverInterrupt(n) PROVE QuestionOpen'
  BY <1>3 DEF DeliverInterrupt, QuestionOpen
<1>4. ASSUME NEW n \in Node, DeliverWait(n) \/ DeliverCompletion(n) PROVE QuestionOpen'
  <2>1. /\ Delivered(n) /\ Dequeue(n) /\ task[n].ids = {} /\ raised' = raised
        /\ \A m \in Node : m # n => task'[m] = task[m]
    BY <1>4 DEF DeliverWait, DeliverCompletion, doneVars, Dequeue, IInv, TypeOK
  <2>2. \A m : In(m, pending') <=> In(m, pending) /\ m # n BY <2>1, DequeueFacts
  <2> QED BY <2>1, <2>2 DEF QuestionOpen
<1>5. CASE Rethrow \/ \E n \in Node : DeliverError(n)
  BY <1>5 DEF Rethrow, DeliverError, Failing
<1>6. CASE Finalize
  <2>1. raised' = raised /\ pending = << >> BY <1>6, RemainingFacts DEF Finalize
  <2> QED BY <2>1 DEF QuestionOpen, In
<1> QED BY <1>1, <1>2, <1>3, <1>4, <1>5, <1>6 DEF LoopStep

\* What a task asks is known when it resolves.
LEMMA RunningStep ==
  ASSUME IInv, Paused, LoopStep
  PROVE  \A n \in Node : task'[n].kind = "running" => task'[n].ids = {}
<1>1. \A n \in Node : task[n].kind = "running" => task[n].ids = {} BY DEF Paused
<1>2. CASE UNCHANGED task BY <1>1, <1>2
<1>3. ASSUME NEW n \in Node, NEW t, t.ids = {}, task' = [task EXCEPT ![n] = t]
      PROVE  \A m \in Node : task'[m].kind = "running" => task'[m].ids = {}
  <2>1. DOMAIN task = Node BY DEF IInv, TypeOK
  <2> QED BY <1>1, <1>3, <2>1
<1>4. CASE task' = [m \in Node |-> NoTask] BY <1>4 DEF NoTask
<1>5. CASE SkipHeld \/ StopAtLimit \/ Race \/ Fanout \/ NextPass \/ Rethrow \/ Finalize
  BY <1>2, <1>5 DEF SkipHeld, StopAtLimit, Race, Fanout, NextPass, Rethrow, Finalize, taskVars
<1>6. ASSUME NEW n \in Node, FastForward(n) \/ HandOver(n) \/ StartBody(n)
      PROVE  \E t : t.ids = {} /\ task' = [task EXCEPT ![n] = t]
  <2>1. Running.ids = {} BY DEF Running, NoTask
  <2>2. \A o, R : [kind |-> "done", out |-> o, routes |-> R, ids |-> {}].ids = {} OBVIOUS
  <2> QED BY <1>6, <2>1, <2>2, Zenon DEF FastForward, HandOver, StartBody
<1>7. ASSUME NEW n \in Node, DeliverInterrupt(n) \/ DeliverWait(n) \/ DeliverCompletion(n)
      PROVE  \E t : t.ids = {} /\ task' = [task EXCEPT ![n] = t]
  <2>1. NoTask.ids = {} BY DEF NoTask
  <2> QED BY <1>7, <2>1, Zenon DEF DeliverInterrupt, DeliverWait, DeliverCompletion, Dequeue
<1>8. CASE \E n \in Node : DeliverError(n) BY <1>4, <1>8 DEF DeliverError
<1> QED BY <1>3, <1>5, <1>6, <1>7, <1>8 DEF LoopStep

\* A turn returns by its last step, and reports no output over a question.
LEMMA ReturnFacts ==
  ASSUME IInv, LoopStep, phase' = "returned", result'.kind = "output"
  PROVE  ~QuestionOpen /\ phase = "schedule"
<1>1. Finalize
  BY DEF LoopStep, SkipHeld, StopAtLimit, FastForward, HandOver, StartBody, TakeTrigger, Ready,
     Race, DeliverError, DeliverInterrupt, DeliverWait, DeliverCompletion, Delivered, Fanout,
     NextPass, Rethrow
<1>2. Remaining = {} BY <1>1 DEF Finalize
<1>3. raised = {} /\ pending = << >> /\ phase = "schedule" BY <1>1, <1>2, RemainingFacts DEF Finalize
<1> QED BY <1>3 DEF QuestionOpen, In

LEMMA PausedStep == SessionInv /\ Paused /\ [SessionNext]_sessionVars => Paused'
<1> SUFFICES ASSUME SessionInv, Paused, [SessionNext]_sessionVars PROVE Paused'
  OBVIOUS
<1>1. /\ IInv /\ Accounted /\ LiveRuns /\ session \in Seq(Turn) /\ Now \in Nat \ {0}
      /\ Now \in 1..MaxTurns
  BY SessionAssumption DEF SessionInv, SessionTypeOK
<1>2. CASE OrchestrateAndRecord
  <2>1. LoopStep /\ (session' = session \/ session' = [session EXCEPT ![Now].emitted = TRUE])
    BY <1>2 DEF OrchestrateAndRecord
  <2>2. Now' = Now /\ session'[Now'].paused = session[Now].paused
    <3>1. CASE session' = session BY <3>1 DEF Now
    <3>2. CASE session' = [session EXCEPT ![Now].emitted = TRUE]
      BY <1>1, <3>2, EmittedFacts
    <3> QED BY <2>1, <3>1, <3>2
  <2>3. \A n \in Node : task'[n].kind = "running" => task'[n].ids = {}
    BY <1>1, <2>1, RunningStep
  <2>4. ASSUME session'[Now'].paused, ~Failing' PROVE QuestionOpen'
    <3>1. ~Failing
      BY <2>1, <2>4 DEF Failing, LoopStep, SkipHeld, StopAtLimit, FastForward, HandOver, StartBody,
         Ready, Race, DeliverError, DeliverInterrupt, DeliverWait, DeliverCompletion, Delivered,
         Fanout, NextPass, Rethrow, Finalize
    <3>2. QuestionOpen BY <2>2, <2>4, <3>1 DEF Paused
    <3> QED BY <1>1, <2>1, <2>4, <3>2, QuestionKept
  <2>5. phase' = "returned" /\ result'.kind = "output" => ~session'[Now'].paused
    BY <1>1, <2>1, <2>2, ReturnFacts DEF Paused, Failing
  <2> QED BY <2>3, <2>4, <2>5 DEF Paused
<1>3. CASE \E r \in live : \E e \in Endings(r[1]) : SettleAndRecord(r[1], r[2], e)
  <2>1. PICK r \in live : \E e \in Endings(r[1]) : SettleAndRecord(r[1], r[2], e) BY <1>3
  <2>2. PICK e \in Endings(r[1]) : SettleAndRecord(r[1], r[2], e) BY <2>1
  <2>3. PICK n \in Node, k \in Nat, es \in Seq(NodeEvent) :
               r = <<n, k>> /\ k \in 1..execs[n] /\ Leaves(n, k, e, es)
    BY <1>1, <2>2, SettleFacts
  <2>4. /\ Settle(n, k, e) /\ e \in Behaviour[n] /\ Record(n, es) /\ es \in Seq(NodeEvent)
        /\ \A x : In(x, es) => x.ids \subseteq e.ids
    BY <2>3 DEF Leaves, CarriesOnly
  <2>5. /\ Now' = Now
        /\ session'[Now].paused <=> session[Now].paused \/ \E i \in DOMAIN es : es[i].ids # {}
    BY <1>1, <2>4, RecordFacts
  <2>6. session'[Now'].paused => session[Now].paused \/ e.ids # {}
    BY <2>4, <2>5 DEF In
  <2>7. /\ phase \in {"race", "cleanup"} /\ UNCHANGED <<phase, pending, raised>>
        /\ <<n, k>> \in live
        /\ \/ task' = task
           \/ \E o, R : task' = [task EXCEPT ![n] =
                                   [kind |-> e.kind, out |-> o, routes |-> R, ids |-> e.ids]]
        /\ In(n, pending) /\ k = execs[n] => task'[n].ids = e.ids
    BY <1>1, <2>4 DEF Settle, doneVars, IInv, TypeOK
  <2>8. e.kind # "running" BY <2>4, BoundAssumption DEF Ending
  <2>9. \A m \in Node : task'[m].kind = "running" => task'[m].ids = {}
    <3>1. DOMAIN task = Node BY <1>1 DEF IInv, TypeOK
    <3>2. \A m \in Node : task[m].kind = "running" => task[m].ids = {} BY DEF Paused
    <3>3. ASSUME NEW t, t.kind # "running", task' = [task EXCEPT ![n] = t], NEW m \in Node
          PROVE  task'[m].kind = "running" => task'[m].ids = {}
      BY <3>1, <3>2, <3>3
    <3>4. ASSUME NEW o, NEW R
          PROVE  [kind |-> e.kind, out |-> o, routes |-> R, ids |-> e.ids].kind # "running"
      BY <2>8
    <3> QED BY <2>7, <3>2, <3>3, <3>4
  <2>10. ASSUME session'[Now'].paused, ~Failing' PROVE QuestionOpen'
    <3>1. ~Failing /\ phase = "race" BY <2>7, <2>10 DEF Failing
    <3>2. In(n, pending) /\ k = execs[n] /\ task[n].kind = "running"
      <4>1. In(r[1], pending) /\ task[r[1]].kind = "running" /\ r[2] = execs[r[1]]
        BY <1>1, <2>1, <3>1 DEF Accounted, LiveIsPending
      <4> QED BY <2>3, <4>1
    <3>3. task'[n].ids = e.ids /\ task[n].ids = {} BY <2>7, <3>2 DEF Paused
    <3>4. CASE e.ids # {} BY <2>7, <3>2, <3>3, <3>4 DEF QuestionOpen
    <3>5. CASE e.ids = {}
      <4>1. QuestionOpen BY <2>6, <2>10, <3>1, <3>5 DEF Paused
      <4>2. \A m \in Node : m # n => task'[m] = task[m] BY <1>1, <2>7 DEF IInv, TypeOK
      <4> QED BY <2>7, <3>3, <4>1, <4>2 DEF QuestionOpen
    <3> QED BY <3>4, <3>5
  <2>11. phase' # "returned" BY <2>7
  <2> QED BY <2>9, <2>10, <2>11 DEF Paused
<1>4. CASE (Abort /\ UNCHANGED session) \/ SessionOver \/ UNCHANGED sessionVars
  <2>1. UNCHANGED <<phase, raised, task, pending, result, session>>
    BY <1>4 DEF Abort, SessionOver, sessionVars, vars, loopVars, taskVars, doneVars, endVars
  <2> QED BY <2>1 DEF Paused, QuestionOpen, Failing, Now
<1>5. CASE PlainText \/ \E ids \in SUBSET Interrupt : Reply(ids)
  <2>1. Begins' BY <1>1, <1>5, UserBegins DEF IInv
  <2>2. ~session'[Now'].paused
    <3>1. PICK ids \in SUBSET Interrupt : session' = Append(session, NewTurn(ids, FALSE))
      BY <1>5 DEF PlainText, Reply
    <3> QED BY <1>1, <3>1, NewTurnFacts
  <2>3. \A n \in Node : task'[n].kind # "running" BY <2>1 DEF Begins, None, NoTask
  <2> QED BY <2>2, <2>3 DEF Paused
<1>6. CASE \E i \in Interrupt : RefuseReply(i)
  <2>1. PICK i \in Interrupt : RefuseReply(i) BY <1>6
  <2>2. session' = Append(session, NewTurn({i}, TRUE)) /\ UNCHANGED task /\ {i} \in SUBSET Interrupt
    BY <2>1 DEF RefuseReply, taskVars
  <2>3. ~session'[Now'].paused BY <1>1, <2>2, NewTurnFacts
  <2> QED BY <2>2, <2>3 DEF Paused
<1> QED BY <1>2, <1>3, <1>4, <1>5, <1>6 DEF SessionNext, SessionStep, UserStep

\* The next message is not answered from a run that has produced its output: a
\* turn of it that left anything in the session ends what could be replayed
\* (eventsForCurrentRun).
THEOREM FinishedRunIsOver ==
  SessionSpec => [](session[Now].emitted => FinishedRunIsNotReplayed)
<1>1. SessionInit => Paused
  <2> SUFFICES ASSUME SessionInit PROVE Paused
    OBVIOUS
  <2>1. Begins BY InitBegins DEF SessionInit
  <2>2. session[Now].paused = FALSE
    <3>1. session = <<NewTurn({}, FALSE)>> BY DEF SessionInit
    <3>2. Now = 1 /\ session[1] = NewTurn({}, FALSE) BY <3>1 DEF Now
    <3> QED BY <3>2 DEF NewTurn
  <2>3. \A n \in Node : task[n].kind # "running" BY <2>1 DEF Begins, None, NoTask
  <2> QED BY <2>2, <2>3 DEF Paused
<1>2. SessionInv /\ Paused => (session[Now].emitted => FinishedRunIsNotReplayed)
  <2> SUFFICES ASSUME SessionInv, Paused, session[Now].emitted, phase = "returned",
                      result.kind = "output", EventsForCurrentRun(session) # {}
               PROVE  FALSE
    BY DEF FinishedRunIsNotReplayed
  <2>1. ~session[Now].paused BY DEF Paused
  <2>2. PICK t \in DOMAIN session : \E from \in 1..t :
          \A u \in from..Len(session) : session[u].emitted => session[u].paused
    BY DEF EventsForCurrentRun
  <2>3. PICK from \in 1..t : \A u \in from..Len(session) : session[u].emitted => session[u].paused
    BY <2>2
  <2>4. session \in Seq(Turn) BY DEF SessionInv, SessionTypeOK
  <2>5. Now \in from..Len(session) BY <2>2, <2>3, <2>4 DEF Now
  <2> QED BY <2>1, <2>3, <2>5
<1> QED BY <1>1, <1>2, PausedStep, SessionInvHolds, PTL DEF SessionSpec

---------------------------------------------------------------------------
(* What was done in an earlier turn of the run is not done again           *)

\* A run in which each node is activated once and whose questions are all
\* answered before it is resumed.
Careful == Forest /\ CarefulClient /\ AsksOnly

\* A node has left something in an earlier turn of the run.
HasEarlier(n) == \E t \in Earlier : session[t].events[n] # << >>

\* What a node leaves completes its run or is a question, and not both.
Traces ==
  \A t \in DOMAIN session, n \in Node : \A e : In(e, session[t].events[n]) =>
    /\ e.out # {} \/ e.routes # {} \/ e.ids # {}
    /\ e.ids # {} => n \notin RerunsOnResume /\ e.out = {} /\ e.routes = {}

\* A node that has left something is answered from it when its turn comes.
Matched ==
  phase \in {"schedule", "race", "fanout"} =>
    \A n \in Node : HasEarlier(n) /\ n \notin activated => CanFastForward(n) \/ CanHandOver(n)

\* No body is executing of a node that has left something.
Fresh == ~Stopped => \A r \in live : ~HasEarlier(r[1])

\* A node leaves something in one turn of the run.
OncePerRun ==
  \A n \in Node : \A t, u \in Earlier \cup {Now} :
    t < u /\ session[t].events[n] # << >> => session[u].events[n] = << >>

RunInv == Once /\ Traces /\ Matched /\ Fresh /\ OncePerRun

\* The first k elements of a sequence.
LEMMA PrefixFacts ==
  ASSUME NEW S, NEW s \in Seq(S), NEW k \in Nat, k <= Len(s)
  PROVE  /\ SubSeq(s, 1, k) \in Seq(S) /\ Len(SubSeq(s, 1, k)) = k
         /\ DOMAIN SubSeq(s, 1, k) = 1..k
         /\ \A i \in 1..k : SubSeq(s, 1, k)[i] = s[i]
OBVIOUS

LEMMA EarlierFacts ==
  ASSUME session \in Seq(Turn), Now \in Nat \ {0}
  PROVE  /\ Earlier \subseteq DOMAIN session /\ Earlier \subseteq 1..(Now - 1)
         /\ Now \in DOMAIN session /\ DOMAIN session = 1..Now
<1>1. Now - 1 \in Nat /\ Now - 1 <= Len(session) /\ DOMAIN session = 1..Now BY DEF Now
<1>2. DOMAIN SubSeq(session, 1, Now - 1) = 1..(Now - 1) BY <1>1, PrefixFacts
<1>3. Earlier \subseteq 1..(Now - 1) BY <1>2 DEF Earlier, EventsForCurrentRun
<1> QED BY <1>1, <1>3

\* The turns before the present one are what they were.
LEMMA SameEarlier ==
  ASSUME session \in Seq(Turn), session' \in Seq(Turn), Now \in Nat \ {0}, Now' = Now,
         \A t \in 1..Now : t # Now => session'[t] = session[t]
  PROVE  /\ Earlier' = Earlier
         /\ \A n : HasEarlier(n)' <=> HasEarlier(n)
<1>1. /\ Now - 1 \in Nat /\ Now - 1 <= Len(session) /\ Now - 1 <= Len(session')
      /\ \A t \in 1..(Now - 1) : session'[t] = session[t]
  BY DEF Now
<1>2. SubSeq(session', 1, Now' - 1) = SubSeq(session, 1, Now - 1)
  <2> DEFINE a == SubSeq(session, 1, Now - 1)
             b == SubSeq(session', 1, Now - 1)
  <2>1. a \in Seq(Turn) /\ Len(a) = Now - 1 /\ \A i \in 1..(Now - 1) : a[i] = session[i]
    BY <1>1, PrefixFacts
  <2>2. b \in Seq(Turn) /\ Len(b) = Now - 1 /\ \A i \in 1..(Now - 1) : b[i] = session'[i]
    BY <1>1, PrefixFacts
  <2> HIDE DEF a, b
  <2>3. a = b BY <1>1, <2>1, <2>2, SeqEqual
  <2> QED BY <2>3 DEF a, b
<1>3. Earlier' = Earlier BY <1>2 DEF Earlier
<1>4. \A t \in Earlier : session'[t] = session[t] BY <1>1, EarlierFacts
<1> QED BY <1>3, <1>4 DEF HasEarlier

\* The turn that follows keeps what belongs to the run in progress.
LEMMA NewEarlier ==
  ASSUME session \in Seq(Turn), Now \in Nat \ {0}, NEW ids \in SUBSET Interrupt,
         NEW b \in BOOLEAN, session' = Append(session, NewTurn(ids, b))
  PROVE  /\ Earlier' = EventsForCurrentRun(session)
         /\ EventsForCurrentRun(session) \subseteq Earlier \cup {Now}
         /\ EventsForCurrentRun(session) \subseteq DOMAIN session
<1>1. /\ session' \in Seq(Turn) /\ Now' = Now + 1
      /\ \A t \in 1..Now : session'[t] = session[t]
  BY NewTurnFacts
<1>2. Earlier' = EventsForCurrentRun(session)
  <2>1. Now' - 1 = Len(session) /\ Len(session) \in Nat /\ Len(session) <= Len(session')
    BY <1>1 DEF Now
  <2> DEFINE a == SubSeq(session', 1, Len(session))
  <2>2. a \in Seq(Turn) /\ Len(a) = Len(session) /\ \A i \in 1..Len(session) : a[i] = session'[i]
    BY <1>1, <2>1, PrefixFacts
  <2> HIDE DEF a
  <2>3. \A i \in 1..Len(session) : a[i] = session[i] BY <1>1, <2>2 DEF Now
  <2>4. a = session BY <2>2, <2>3, SeqEqual
  <2> QED BY <2>1, <2>4 DEF Earlier, a
<1>3. ASSUME NEW t \in EventsForCurrentRun(session), t # Now PROVE t \in Earlier
  <2>1. DOMAIN session = 1..Now /\ Len(session) = Now /\ Now - 1 \in Nat /\ Now - 1 <= Len(session)
    BY DEF Now
  <2>2. PICK from \in 1..t : /\ session[from].emitted /\ session[from].paused
                             /\ \A u \in from..Now : session[u].emitted => session[u].paused
    BY <1>3, <2>1 DEF EventsForCurrentRun
  <2> DEFINE s == SubSeq(session, 1, Now - 1)
  <2>3. Len(s) = Now - 1 /\ DOMAIN s = 1..(Now - 1) /\ \A i \in 1..(Now - 1) : s[i] = session[i]
    BY <2>1, PrefixFacts
  <2>4. t \in 1..(Now - 1) /\ from \in 1..(Now - 1)
    BY <1>3, <2>1, <2>2 DEF EventsForCurrentRun
  <2> HIDE DEF s
  <2>5. \A u \in from..Len(s) : u \in from..Now /\ s[u] = session[u]
    BY <2>3, <2>4
  <2>6. s[from] = session[from] BY <2>3, <2>4
  <2>7. t \in EventsForCurrentRun(s)
    BY <2>2, <2>3, <2>4, <2>5, <2>6 DEF EventsForCurrentRun
  <2> QED BY <2>7 DEF Earlier, s
<1> QED BY <1>2, <1>3 DEF EventsForCurrentRun

\* What has a member has a first one.
LEMMA HeadFacts ==
  ASSUME NEW S, NEW s \in Seq(S)
  PROVE  /\ s # << >> => In(Head(s), s)
         /\ \A e : In(e, s) => s # << >>
<1>1. s # << >> => 1 \in DOMAIN s /\ Head(s) = s[1] OBVIOUS
<1>2. DOMAIN << >> = {} OBVIOUS
<1> QED BY <1>1, <1>2 DEF In

\* The first run a node resumes from is the first thing it left in the turns
\* that are kept.
LEMMA ThePriorFacts ==
  ASSUME NEW s \in Seq(Turn), NEW turns, NEW n \in Node, NEW t \in DOMAIN s, t \in turns,
         s[t].events[n] # << >>, NEW prior, prior = ReconstructNodeRuns(s, turns)[n]
  PROVE  /\ prior # << >>
         /\ \E u \in DOMAIN s : \E e :
              /\ u \in turns /\ In(e, s[u].events[n])
              /\ Head(prior).out = e.out /\ Head(prior).routes = e.routes
              /\ Head(prior).ids = e.ids
<1> DEFINE es == NodeEventsIn(s, turns, n)
           Run(e) == [out |-> e.out, routes |-> e.routes, ids |-> e.ids,
                      answered |-> e.ids \cap ResolvedIn(s, turns), input |-> e.input]
<1>1. es \in Seq(NodeEvent) /\ \A e : In(e, es) <=>
        \E u \in DOMAIN s : u \in turns /\ In(e, s[u].events[n])
  BY NodeEventsFacts
<1>2. prior = [i \in DOMAIN es |-> Run(es[i])] BY DEF ReconstructNodeRuns
<1>3. In(Head(s[t].events[n]), s[t].events[n]) BY EventFacts, HeadFacts
<1> HIDE DEF es
<1>4. es # << >> BY <1>1, <1>3, HeadFacts
<1>5. In(Head(es), es) /\ Head(es) = es[1] /\ 1 \in DOMAIN es BY <1>1, <1>4, HeadFacts
<1>6. prior # << >> /\ Head(prior) = Run(Head(es))
  <2> HIDE DEF Run
  <2>1. prior = [i \in 1..Len(es) |-> Run(es[i])] /\ Len(es) \in Nat /\ Len(es) >= 1
    BY <1>1, <1>2, <1>5
  <2>2. Len(prior) = Len(es) /\ prior[1] = Run(es[1]) BY <2>1
  <2> QED BY <1>5, <2>1, <2>2
<1>7. PICK u \in DOMAIN s : u \in turns /\ In(Head(es), s[u].events[n]) BY <1>1, <1>5
<1>8. /\ Head(prior).out = Head(es).out /\ Head(prior).routes = Head(es).routes
      /\ Head(prior).ids = Head(es).ids
  BY <1>6
<1> HIDE DEF Run
<1>9. \E e : /\ In(e, s[u].events[n])
             /\ Head(prior).out = e.out /\ Head(prior).routes = e.routes
             /\ Head(prior).ids = e.ids
  BY <1>7, <1>8
<1> QED BY <1>6, <1>7, <1>9

\* What was resolved stays resolved, and a question of the turns before is
\* resolved by a reply of the next.
LEMMA ResolvedFacts ==
  ASSUME NEW s, NEW after, NEW m \in Nat, NEW next, next = m + 1,
         \A t \in 1..m : after[t] = s[t],
         NEW kept \in SUBSET (1..m), NEW i \in RaisedIn(s, kept), i \in Interrupt,
         i \in ResolvedIn(s, kept) \/ i \in after[next].replies
  PROVE  i \in ResolvedIn(after, kept \cup {next})
<1> DEFINE later == kept \cup {next}
           Before(t) == 1..(t - 1)
<1>1. \A turns \in SUBSET (1..m) : RaisedIn(after, turns) = RaisedIn(s, turns)
  BY DEF RaisedIn
<1>2. ASSUME NEW t \in 1..next
      PROVE  RaisedIn(after, later \cap Before(t)) = RaisedIn(s, kept \cap Before(t))
  <2>1. later \cap Before(t) = kept \cap Before(t) OBVIOUS
  <2> QED BY <1>1, <2>1
<1>3. kept \cap Before(next) = kept /\ next \in 1..next /\ kept \subseteq 1..next
  <2>1. next - 1 = m /\ next \in 1..next /\ \A k \in 1..m : k \in 1..next OBVIOUS
  <2> QED BY <2>1, Zenon
<1>4. \E t \in later : i \in after[t].replies /\ i \in RaisedIn(after, later \cap Before(t))
  <2>1. CASE i \in ResolvedIn(s, kept)
    <3>1. PICK t \in kept : i \in s[t].replies /\ i \in RaisedIn(s, kept \cap Before(t))
      BY <2>1 DEF ResolvedIn
    <3>2. t \in 1..next /\ t \in 1..m BY <1>3
    <3>3. after[t] = s[t] BY <3>2
    <3> HIDE DEF Before
    <3> QED BY <1>2, <3>1, <3>2, <3>3
  <2>2. CASE i \in after[next].replies
    <3> HIDE DEF Before, later
    <3>1. i \in RaisedIn(after, later \cap Before(next)) BY <1>2, <1>3
    <3>2. next \in later BY DEF later
    <3> QED BY <2>2, <3>1, <3>2
  <2> QED BY <2>1, <2>2
<1> HIDE DEF later
<1>5. i \in ResolvedIn(after, later) BY <1>4, Zenon DEF ResolvedIn
<1> QED BY <1>5 DEF later

\* A careful client has every question of the run answered.
LEMMA AnsweredFacts ==
  ASSUME session \in Seq(Turn), Now \in Nat \ {0}, CarefulClient,
         PlainText \/ \E ids \in SUBSET Interrupt : Reply(ids)
  PROVE  RaisedIn(session, EventsForCurrentRun(session)) \subseteq resumeInputs'
<1> DEFINE kept == EventsForCurrentRun(session)
<1>1. kept \in SUBSET DOMAIN session BY DEF EventsForCurrentRun
<1>2. Unanswered = RaisedIn(session, kept) \ ResolvedIn(session, kept) /\ Unanswered \subseteq Interrupt
  BY <1>1, RaisedFacts DEF Unanswered
<1> HIDE DEF kept
<1>5. ASSUME NEW ids \in SUBSET Interrupt, session' = Append(session, NewTurn(ids, FALSE)),
             NEW i \in RaisedIn(session, kept), i \in ResolvedIn(session, kept) \/ i \in ids
      PROVE  i \in ResolvedIn(session', kept \cup {Now + 1})
  <2>1. session'[Now + 1].replies = ids /\ \A t \in 1..Now : session'[t] = session[t]
    BY <1>5, NewTurnFacts
  <2>2. kept \in SUBSET (1..Now) /\ i \in Interrupt
    <3>1. DOMAIN session = 1..Now BY DEF Now
    <3>2. RaisedIn(session, kept) \subseteq Interrupt BY <1>1, RaisedFacts
    <3> QED BY <1>1, <3>1, <3>2
  <2>3. i \in ResolvedIn(session, kept) \/ i \in session'[Now + 1].replies BY <1>5, <2>1
  <2> DEFINE next == Now + 1
  <2>4. next = Now + 1 /\ Now \in Nat OBVIOUS
  <2> HIDE DEF next
  <2> QED BY <2>1, <2>2, <2>3, <2>4, ResolvedFacts DEF next
<1>3. CASE PlainText
  <2> DEFINE text == IF Cardinality(Unanswered) = 1 THEN Unanswered ELSE {}
  <2>1. /\ session' = Append(session, NewTurn({}, FALSE)) /\ Cardinality(Unanswered) <= 1
        /\ Resume(kept \cup {Now + 1}, text)
    BY <1>3 DEF PlainText, kept
  <2>2. resumeInputs' = ResolvedIn(session', kept \cup {Now + 1}) \cup text
    BY <2>1 DEF Resume, Restart
  <2>3. Unanswered \subseteq text
    <3>1. IsFiniteSet(Unanswered) BY <1>2, SessionAssumption, FS_Subset
    <3>2. Cardinality(Unanswered) \in Nat /\ (Cardinality(Unanswered) = 0 <=> Unanswered = {})
      BY <3>1, FS_CardinalityType, FS_EmptySet
    <3>3. \A k \in Nat : k <= 1 => k = 0 \/ k = 1 OBVIOUS
    <3> QED BY <2>1, <3>2, <3>3, Zenon
  <2> HIDE DEF text
  <2>4. {} \in SUBSET Interrupt OBVIOUS
  <2>5. \A i \in RaisedIn(session, kept) : i \in ResolvedIn(session, kept)
          => i \in ResolvedIn(session', kept \cup {Now + 1})
    BY <1>5, <2>1, <2>4
  <2> QED BY <1>2, <2>2, <2>3, <2>5 DEF kept
<1>4. ASSUME NEW ids \in SUBSET Interrupt, Reply(ids)
      PROVE  RaisedIn(session, kept) \subseteq resumeInputs'
  <2>1. /\ session' = Append(session, NewTurn(ids, FALSE)) /\ ids = Unanswered
        /\ Resume(kept \cup {Now + 1}, {})
    BY <1>4 DEF Reply, kept
  <2>2. resumeInputs' = ResolvedIn(session', kept \cup {Now + 1})
    BY <2>1 DEF Resume, Restart
  <2>3. \A i \in RaisedIn(session, kept) : i \in ResolvedIn(session, kept) \/ i \in ids
          => i \in ResolvedIn(session', kept \cup {Now + 1})
    BY <1>5, <2>1
  <2> QED BY <1>2, <2>1, <2>2, <2>3
<1> QED BY <1>3, <1>4 DEF kept

\* In the turn that follows, a node that has left something is answered from it.
LEMMA MatchedResume ==
  ASSUME session \in Seq(Turn), Now \in Nat \ {0}, Careful, Traces,
         PlainText \/ \E ids \in SUBSET Interrupt : Reply(ids)
  PROVE  Matched'
<1> DEFINE kept == EventsForCurrentRun(session)
<1>1. PICK ids \in SUBSET Interrupt :
        /\ session' = Append(session, NewTurn(ids, FALSE))
        /\ rehydrated' = ReconstructNodeRuns(session', kept \cup {Now + 1})
  <2>1. {} \in SUBSET Interrupt OBVIOUS
  <2>2. CASE PlainText BY <2>1, <2>2 DEF PlainText, Resume, Restart
  <2>3. ASSUME NEW ids \in SUBSET Interrupt, Reply(ids)
        PROVE  /\ session' = Append(session, NewTurn(ids, FALSE))
               /\ rehydrated' = ReconstructNodeRuns(session', kept \cup {Now + 1})
    BY <2>3 DEF Reply, Resume, Restart
  <2> HIDE DEF kept
  <2> QED BY <2>2, <2>3
<1>2. Earlier' = kept /\ kept \subseteq DOMAIN session BY <1>1, NewEarlier
<1>3. /\ session' \in Seq(Turn) /\ DOMAIN session' = 1..(Now + 1) /\ DOMAIN session = 1..Now
      /\ \A t \in 1..Now : session'[t] = session[t]
      /\ \A n \in Node : session'[Now + 1].events[n] = << >>
  <2>1. session' \in Seq(Turn) => DOMAIN session' = 1..Now' BY DEF Now
  <2>2. DOMAIN session = 1..Now BY DEF Now
  <2>3. session' = Append(session, NewTurn(ids, FALSE)) BY <1>1
  <2> QED BY <2>1, <2>2, <2>3, NewTurnFacts
<1>4. RaisedIn(session, kept) \subseteq resumeInputs'
  <2>1. CarefulClient BY DEF Careful
  <2> QED BY <2>1, AnsweredFacts
<1> HIDE DEF kept
<1>5. ASSUME NEW n \in Node, HasEarlier(n)' PROVE CanFastForward(n)' \/ CanHandOver(n)'
  <2>1. PICK t \in kept : session'[t].events[n] # << >> BY <1>2, <1>5 DEF HasEarlier
  <2>2. t \in DOMAIN session' /\ t \in kept \cup {Now + 1} BY <1>2, <1>3
  <2>3. rehydrated'[n] = ReconstructNodeRuns(session', kept \cup {Now + 1})[n] BY <1>1
  <2>4. PICK u \in DOMAIN session' : \E e :
          /\ u \in kept \cup {Now + 1} /\ In(e, session'[u].events[n])
          /\ ThePrior(n)'.out = e.out /\ ThePrior(n)'.routes = e.routes
          /\ ThePrior(n)'.ids = e.ids
    BY <1>3, <2>1, <2>2, <2>3, ThePriorFacts DEF ThePrior
  <2>5. PICK e : /\ u \in kept \cup {Now + 1} /\ In(e, session'[u].events[n])
                 /\ ThePrior(n)'.out = e.out /\ ThePrior(n)'.routes = e.routes
                 /\ ThePrior(n)'.ids = e.ids
    BY <2>4
  <2>6. HasPrior(n)' BY <1>3, <2>1, <2>2, <2>3, ThePriorFacts DEF HasPrior
  <2>7. u \in kept /\ u \in DOMAIN session /\ In(e, session[u].events[n])
    <3>1. ~In(e, << >>) BY DEF In
    <3>2. u # Now + 1 BY <1>3, <2>5, <3>1
    <3> QED BY <1>2, <1>3, <2>5, <3>2
  <2>8. /\ e.out # {} \/ e.routes # {} \/ e.ids # {}
        /\ e.ids # {} => n \notin RerunsOnResume /\ e.out = {} /\ e.routes = {}
    BY <2>7 DEF Traces
  <2>9. CASE e.ids = {}
    BY <2>5, <2>6, <2>8, <2>9 DEF CanFastForward, IsFastForwardable
  <2>10. CASE e.ids # {}
    <3>1. \A i \in e.ids : i \in RaisedIn(session, kept)
      BY <1>2, <2>7, RaisedFacts
    <3> QED BY <1>4, <2>5, <2>6, <2>8, <2>10, <3>1 DEF CanHandOver
  <2> QED BY <2>9, <2>10
<1> QED BY <1>5 DEF Matched

\* A turn of the run begins.
LEMMA RunInvBegins ==
  ASSUME Begins, Traces, Matched, OncePerRun PROVE RunInv
<1>1. Once BY OnceBegins
<1>2. Fresh BY DEF Begins, Fresh
<1> QED BY <1>1, <1>2 DEF RunInv

\* The turn that follows leaves nothing before its bodies end.
LEMMA NewTurnKeeps ==
  ASSUME session \in Seq(Turn), Now \in Nat \ {0}, Traces, OncePerRun,
         NEW ids \in SUBSET Interrupt, NEW b \in BOOLEAN,
         session' = Append(session, NewTurn(ids, b))
  PROVE  Traces' /\ OncePerRun'
<1>1. /\ session' \in Seq(Turn) /\ Now' = Now + 1
      /\ \A t \in 1..Now : session'[t] = session[t]
      /\ \A n \in Node : session'[Now + 1].events[n] = << >>
  BY NewTurnFacts
<1>2. DOMAIN session' = 1..(Now + 1) /\ DOMAIN session = 1..Now
  <2>1. session' \in Seq(Turn) => DOMAIN session' = 1..Now' BY DEF Now
  <2>2. DOMAIN session = 1..Now BY DEF Now
  <2> QED BY <1>1, <2>1, <2>2
<1>3. /\ Earlier' \subseteq Earlier \cup {Now} /\ Earlier' \subseteq 1..Now
  BY <1>2, NewEarlier
<1>4. \A t \in DOMAIN session' : t \in 1..Now \/ t = Now + 1 BY <1>2
<1>5. Traces'
  <2> SUFFICES ASSUME NEW t \in DOMAIN session', NEW n \in Node, NEW e, In(e, session'[t].events[n])
               PROVE  /\ e.out # {} \/ e.routes # {} \/ e.ids # {}
                      /\ e.ids # {} => n \notin RerunsOnResume /\ e.out = {} /\ e.routes = {}
    BY DEF Traces
  <2>1. ~In(e, << >>) BY DEF In
  <2>2. t \in 1..Now BY <1>1, <1>4, <2>1
  <2> QED BY <1>1, <1>2, <2>2 DEF Traces
<1>6. OncePerRun'
  <2> SUFFICES ASSUME NEW n \in Node, NEW t \in Earlier' \cup {Now + 1},
                      NEW u \in Earlier' \cup {Now + 1}, t < u, session'[t].events[n] # << >>
               PROVE  session'[u].events[n] = << >>
    BY <1>1 DEF OncePerRun
  <2>1. CASE u = Now + 1 BY <1>1, <2>1
  <2>2. CASE u \in Earlier'
    <3>1. t \in Earlier' BY <1>3, <2>2
    <3>2. t \in 1..Now /\ u \in 1..Now BY <1>3, <2>2, <3>1
    <3>3. t \in Earlier \cup {Now} /\ u \in Earlier \cup {Now} BY <1>3, <2>2, <3>1
    <3> QED BY <1>1, <3>2, <3>3 DEF OncePerRun
  <2> QED BY <2>1, <2>2
<1> QED BY <1>5, <1>6

\* Within a turn, what is left to match only becomes less.
LEMMA MatchedStep ==
  ASSUME IInv, Matched, [Next]_vars, \A n : HasEarlier(n)' <=> HasEarlier(n)
  PROVE  Matched'
<1> DEFINE Open == phase \in {"schedule", "race", "fanout"}
<1>1. CASE \E n \in Node : FastForward(n) \/ HandOver(n) \/ StartBody(n)
  <2>1. PICK n \in Node : Ready(n) /\ TakeTrigger(n) BY <1>1 DEF FastForward, HandOver, StartBody
  <2>2. /\ activated' = activated \cup {n} /\ resumeInputs' = resumeInputs
        /\ \A m \in Node : m # n => rehydrated'[m] = rehydrated[m]
        /\ phase' = phase
    BY <2>1 DEF TakeTrigger, IInv, TypeOK
  <2>3. \A m \in Node : m # n => /\ CanFastForward(m) <=> CanFastForward(m)'
                                 /\ CanHandOver(m) <=> CanHandOver(m)'
    BY <2>2 DEF CanFastForward, CanHandOver, HasPrior, ThePrior
  <2> QED BY <2>2, <2>3 DEF Matched
<1>2. CASE ~\E n \in Node : FastForward(n) \/ HandOver(n) \/ StartBody(n)
  <2>1. /\ UNCHANGED <<activated, rehydrated, resumeInputs>>
        /\ Open' => Open
    BY <1>2 DEF Next, LoopStep, SkipHeld, StopAtLimit, Race, DeliverError, DeliverInterrupt,
       DeliverWait, DeliverCompletion, Delivered, Fanout, NextPass, Rethrow, Finalize, BodyStep,
       Settle, Abort, Terminated, vars, loopVars, runVars
  <2>2. \A m \in Node : /\ CanFastForward(m) <=> CanFastForward(m)'
                        /\ CanHandOver(m) <=> CanHandOver(m)'
    BY <2>1 DEF CanFastForward, CanHandOver, HasPrior, ThePrior
  <2> QED BY <2>1, <2>2 DEF Matched
<1> QED BY <1>1, <1>2

\* A body starts only of a node that left nothing in the turns before.
LEMMA FreshStart ==
  ASSUME IInv, Forest, Once, Matched, NEW n \in Node, StartBody(n)
  PROVE  ~HasEarlier(n)
<1>1. Ready(n) /\ TakeTrigger(n) /\ ~CanFastForward(n) /\ ~CanHandOver(n) BY DEF StartBody
<1>2. n \notin activated BY <1>1, OnceTake
<1>3. phase = "schedule" BY <1>1 DEF Ready
<1> QED BY <1>1, <1>2, <1>3 DEF Matched

LEMMA FreshStep ==
  ASSUME IInv, Forest, Once, Matched, Fresh, [Next]_vars,
         \A n : HasEarlier(n)' <=> HasEarlier(n)
  PROVE  Fresh'
<1>1. CASE \E n \in Node : StartBody(n)
  <2>1. PICK n \in Node : StartBody(n) BY <1>1
  <2>2. live' = live \cup {<<n, execs[n] + 1>>} /\ phase = "schedule" BY <2>1 DEF StartBody, Ready
  <2>3. ~HasEarlier(n) BY <2>1, FreshStart
  <2>4. \A r \in live : ~HasEarlier(r[1]) BY <2>2 DEF Fresh, Stopped
  <2>5. \A r \in live' : ~HasEarlier(r[1]) BY <2>2, <2>3, <2>4
  <2> QED BY <2>5 DEF Fresh
<1>2. CASE ~\E n \in Node : StartBody(n)
  <2>1. live' \subseteq live /\ (~Stopped' => ~Stopped)
    BY <1>2 DEF Next, LoopStep, SkipHeld, StopAtLimit, FastForward, HandOver, TakeTrigger, Ready,
       Race, DeliverError, DeliverInterrupt, DeliverWait, DeliverCompletion, Delivered, Fanout,
       NextPass, Rethrow, Finalize, BodyStep, Settle, Abort, Terminated, vars, loopVars,
       bodyVars, Stopped
  <2> QED BY <2>1 DEF Fresh
<1> QED BY <1>1, <1>2

\* What is put down in the present turn.
LEMMA WithinTurn ==
  ASSUME SessionInv, Careful, RunInv, [Next]_vars, session' \in Seq(Turn), Now' = Now,
         \A t \in 1..Now : t # Now => session'[t] = session[t], Traces',
         \A n \in Node : session'[Now].events[n] # << >> =>
           session[Now].events[n] # << >> \/ ~HasEarlier(n)
  PROVE  RunInv'
<1>1. /\ IInv /\ session \in Seq(Turn) /\ Now \in Nat \ {0} /\ Forest
      /\ Once /\ Matched /\ Fresh /\ OncePerRun
  BY SessionAssumption DEF SessionInv, SessionTypeOK, RunInv, Careful
<1>2. Earlier' = Earlier /\ \A n : HasEarlier(n)' <=> HasEarlier(n) BY <1>1, SameEarlier
<1>3. Once' BY <1>1, OnceStep
<1>4. Matched' BY <1>1, <1>2, MatchedStep
<1>5. Fresh' BY <1>1, <1>2, FreshStep
<1>6. \A t \in Earlier : t \in 1..Now /\ t # Now
  <2>1. Earlier \subseteq 1..(Now - 1) BY <1>1, EarlierFacts
  <2> QED BY <1>1, <2>1
<1>7. OncePerRun'
  <2> SUFFICES ASSUME NEW n \in Node, NEW t \in Earlier \cup {Now}, NEW u \in Earlier \cup {Now},
                      t < u, session'[t].events[n] # << >>
               PROVE  session'[u].events[n] = << >>
    BY <1>2 DEF OncePerRun
  <2>1. t \in Earlier /\ t \in 1..Now /\ t # Now BY <1>1, <1>6
  <2>2. session[t].events[n] # << >> /\ HasEarlier(n) BY <2>1 DEF HasEarlier
  <2>3. session[u].events[n] = << >> BY <1>1, <2>2 DEF OncePerRun
  <2>4. CASE u = Now BY <2>2, <2>3, <2>4
  <2>5. CASE u # Now
    <3>1. u \in Earlier /\ u \in 1..Now BY <1>6, <2>5
    <3> QED BY <2>3, <2>5, <3>1
  <2> QED BY <2>4, <2>5
<1> QED BY <1>3, <1>4, <1>5, <1>7 DEF RunInv

\* A body that ends leaves what its node leaves in this run.
LEMMA RunInvSettle ==
  ASSUME SessionInv, Careful, RunInv, NEW r \in live, NEW e \in Endings(r[1]),
         SettleAndRecord(r[1], r[2], e)
  PROVE  RunInv'
<1>1. /\ IInv /\ LiveRuns /\ session \in Seq(Turn) /\ Now \in 1..MaxTurns /\ Now \in Nat \ {0}
      /\ AsksOnly /\ Traces /\ Fresh /\ DOMAIN session = 1..Now
  BY SessionAssumption DEF SessionInv, SessionTypeOK, RunInv, Careful, Now
<1>2. PICK n \in Node, k \in Nat, es \in Seq(NodeEvent) :
             r = <<n, k>> /\ k \in 1..execs[n] /\ Leaves(n, k, e, es)
  BY <1>1, SettleFacts
<1>3. /\ Settle(n, k, e) /\ e \in Behaviour[n] /\ Record(n, es) /\ es \in Seq(NodeEvent)
      /\ \A x : In(x, es) => CarriesOnly(x, IF e.yields THEN {<<n, k>>} ELSE {}, e.routes, e.ids)
  BY <1>2 DEF Leaves
<1>4. /\ session' \in Seq(Turn) /\ Now' = Now
      /\ \A t \in 1..Now : t # Now => session'[t] = session[t]
      /\ \A m \in Node : m # n => session'[Now].events[m] = session[Now].events[m]
      /\ session'[Now].events[n] = session[Now].events[n] \o es
  BY <1>1, <1>3, RecordFacts
<1>5. DOMAIN session' = 1..Now
  <2>1. session' \in Seq(Turn) => DOMAIN session' = 1..Now' BY DEF Now
  <2> QED BY <1>4, <2>1
<1>6. [Next]_vars
  <2>1. BodyStep BY DEF SettleAndRecord, BodyStep
  <2> QED BY <2>1 DEF Next
<1>7. ~HasEarlier(n)
  <2>1. ~Stopped BY <1>3 DEF Settle, Stopped
  <2> QED BY <1>1, <1>2, <2>1 DEF Fresh
<1>8. Traces'
  <2> DEFINE Fine(m, x) == /\ x.out # {} \/ x.routes # {} \/ x.ids # {}
                           /\ x.ids # {} => m \notin RerunsOnResume /\ x.out = {} /\ x.routes = {}
  <2>1. \A x : In(x, es) => Fine(n, x)
    <3> SUFFICES ASSUME NEW x, In(x, es) PROVE Fine(n, x)
      OBVIOUS
    <3>1. CarriesOnly(x, IF e.yields THEN {<<n, k>>} ELSE {}, e.routes, e.ids) BY <1>3
    <3>2. x.ids # {} => n \notin RerunsOnResume /\ ~e.yields /\ e.routes = {}
      BY <1>1, <1>3, <3>1 DEF AsksOnly, CarriesOnly
    <3> QED BY <3>1, <3>2 DEF CarriesOnly
  <2>2. \A t \in DOMAIN session, m \in Node : \A x : In(x, session[t].events[m]) => Fine(m, x)
    BY <1>1 DEF Traces
  <2>3. session[Now].events[n] \in Seq(NodeEvent) BY <1>1, EventFacts
  <2>4. \A x : In(x, session'[Now].events[n]) => In(x, session[Now].events[n]) \/ In(x, es)
    BY <1>3, <1>4, <2>3, ConcatMembers
  <2> HIDE DEF Fine
  <2>5. ASSUME NEW t \in DOMAIN session', NEW m \in Node, NEW x, In(x, session'[t].events[m])
        PROVE  Fine(m, x)
    <3>1. t \in DOMAIN session /\ t \in 1..Now BY <1>1, <1>5
    <3>2. CASE t # Now BY <1>4, <2>2, <2>5, <3>1, <3>2
    <3>3. CASE t = Now /\ m # n BY <1>4, <2>2, <2>5, <3>1, <3>3
    <3>4. CASE t = Now /\ m = n BY <2>1, <2>2, <2>4, <2>5, <3>1, <3>4
    <3> QED BY <3>2, <3>3, <3>4
  <2> QED BY <2>5 DEF Traces, Fine
<1>9. \A m \in Node : session'[Now].events[m] # << >> =>
        session[Now].events[m] # << >> \/ ~HasEarlier(m)
  BY <1>4, <1>7
<1> QED BY <1>4, <1>6, <1>8, <1>9, WithinTurn

\* What the loop itself does leaves the nodes' events as they were.
LEMMA RunInvLoop ==
  ASSUME SessionInv, Careful, RunInv,
         OrchestrateAndRecord \/ (Abort /\ UNCHANGED session) \/ SessionOver
           \/ UNCHANGED sessionVars
  PROVE  RunInv'
<1>1. session \in Seq(Turn) /\ Now \in Nat \ {0} /\ DOMAIN session = 1..Now /\ Traces
  BY SessionAssumption DEF SessionInv, SessionTypeOK, RunInv, Now
<1>2. [Next]_vars BY DEF OrchestrateAndRecord, Next, SessionOver, sessionVars
<1>3. session' = session \/ session' = [session EXCEPT ![Now].emitted = TRUE]
  BY DEF OrchestrateAndRecord, SessionOver, sessionVars
<1>4. /\ session' \in Seq(Turn) /\ Now' = Now
      /\ \A t \in 1..Now : t # Now => session'[t] = session[t]
      /\ session'[Now].events = session[Now].events
  <2>1. CASE session' = session BY <1>1, <2>1 DEF Now
  <2>2. CASE session' = [session EXCEPT ![Now].emitted = TRUE] BY <1>1, <2>2, EmittedFacts
  <2> QED BY <1>3, <2>1, <2>2
<1>5. Traces'
  <2>1. session' \in Seq(Turn) => DOMAIN session' = 1..Now' BY DEF Now
  <2>2. DOMAIN session' = DOMAIN session BY <1>1, <1>4, <2>1
  <2>3. \A t \in DOMAIN session : session'[t].events = session[t].events BY <1>1, <1>4
  <2> QED BY <1>1, <2>2, <2>3 DEF Traces
<1> QED BY <1>2, <1>4, <1>5, WithinTurn

LEMMA RunInvStep ==
  ASSUME SessionInv, Careful, RunInv, [SessionNext]_sessionVars PROVE RunInv'
<1>1. /\ IInv /\ TypeOK /\ session \in Seq(Turn) /\ Now \in Nat \ {0}
      /\ Once /\ Traces /\ OncePerRun
  BY SessionAssumption DEF SessionInv, SessionTypeOK, RunInv, IInv
<1>2. CASE OrchestrateAndRecord \/ (Abort /\ UNCHANGED session) \/ SessionOver
             \/ UNCHANGED sessionVars
  BY <1>2, RunInvLoop
<1>3. CASE \E r \in live : \E e \in Endings(r[1]) : SettleAndRecord(r[1], r[2], e)
  BY <1>3, RunInvSettle
<1>4. CASE PlainText \/ \E ids \in SUBSET Interrupt : Reply(ids)
  <2>1. Begins' /\ Matched' BY <1>1, <1>4, UserBegins, MatchedResume
  <2>2. PICK ids \in SUBSET Interrupt : session' = Append(session, NewTurn(ids, FALSE))
    <3>1. {} \in SUBSET Interrupt OBVIOUS
    <3> QED BY <1>4, <3>1 DEF PlainText, Reply
  <2>3. Traces' /\ OncePerRun' BY <1>1, <2>2, NewTurnKeeps
  <2>4. (Begins /\ Traces /\ Matched /\ OncePerRun => RunInv)' BY RunInvBegins, PTL
  <2> QED BY <2>1, <2>3, <2>4
<1>5. CASE \E i \in Interrupt : RefuseReply(i)
  <2>1. PICK i \in Interrupt : RefuseReply(i) BY <1>5
  <2>2. /\ session' = Append(session, NewTurn({i}, TRUE)) /\ {i} \in SUBSET Interrupt
        /\ phase' = "threw" /\ UNCHANGED <<status, buffer, activated>>
    BY <2>1 DEF RefuseReply, bufVars, nodeVars, runVars
  <2>3. Traces' /\ OncePerRun' BY <1>1, <2>2, NewTurnKeeps
  <2>4. Once' BY <1>1, <2>2 DEF Once, Triggered, AllCompleted
  <2>5. Matched' /\ Fresh' BY <2>2 DEF Matched, Fresh, Stopped
  <2> QED BY <2>3, <2>4, <2>5 DEF RunInv
<1> QED BY <1>2, <1>3, <1>4, <1>5 DEF SessionNext, SessionStep, UserStep

LEMMA RunInvInit == SessionInit => RunInv
<1> SUFFICES ASSUME SessionInit PROVE RunInv
  OBVIOUS
<1>1. Begins BY InitBegins DEF SessionInit
<1> DEFINE T == NewTurn({}, FALSE)
<1>2. \A n \in Node : T.events[n] = << >> BY DEF NewTurn
<1>3. session = <<T>> BY DEF SessionInit
<1> HIDE DEF T
<1>4. Now = 1 /\ DOMAIN session = {1} /\ session[1] = T BY <1>3 DEF Now
<1>5. \A e : ~In(e, << >>) BY DEF In
<1>6. Earlier = {}
  <2>1. DOMAIN SubSeq(session, 1, Now - 1) = {} BY <1>3, <1>4
  <2> QED BY <2>1 DEF Earlier, EventsForCurrentRun
<1>7. Traces BY <1>2, <1>4, <1>5 DEF Traces
<1>8. Matched BY <1>6 DEF Matched, HasEarlier
<1>9. OncePerRun BY <1>4, <1>6 DEF OncePerRun
<1> QED BY <1>1, <1>7, <1>8, <1>9, RunInvBegins

LEMMA RunInvHolds == SessionSpec => [](SessionInv /\ (Careful => RunInv))
<1>1. SessionInit => SessionInv /\ (Careful => RunInv) BY SessionInvInit, RunInvInit
<1>2. SessionInv /\ (Careful => RunInv) /\ [SessionNext]_sessionVars
        => (SessionInv /\ (Careful => RunInv))'
  <2>1. Careful' <=> Careful BY DEF Careful, Forest, AsksOnly
  <2> QED BY <2>1, SessionInvStep, RunInvStep
<1> QED BY <1>1, <1>2, PTL DEF SessionSpec

\* Over any number of turns, a client that answers everything at once gets each
\* question settled for good: in no later turn of the run does the node emit
\* anything, let alone ask again (startNodeTask, applyResumeInputs).
THEOREM AnAnswerIsFinal ==
  SessionSpec => [](Forest /\ CarefulClient /\ AsksOnly => AnswerSettlesTheQuestion)
<1>1. SessionInv /\ (Careful => RunInv)
        => (Forest /\ CarefulClient /\ AsksOnly => AnswerSettlesTheQuestion)
  <2> SUFFICES ASSUME RunInv PROVE AnswerSettlesTheQuestion
    BY DEF Careful
  <2>1. OncePerRun BY DEF RunInv
  <2>2. \A t, n : ToSet(session[t].events[n]) # {} => session[t].events[n] # << >>
    <3>1. ToSet(<< >>) = {} BY DEF ToSet
    <3> QED BY <3>1
  <2> QED BY <2>1, <2>2 DEF OncePerRun, AnswerSettlesTheQuestion
<1> QED BY <1>1, RunInvHolds, PTL

\* Nor is a body executed again that completed in an earlier turn of the run,
\* however many turns the run takes (startNodeTask's fast-forward).
THEOREM CompletedWorkIsNotRepeated ==
  ASSUME Forest, CarefulClient, AsksOnly
  PROVE  SessionSpec => CompletedRunsAreNotRepeated
<1> DEFINE Kept == \A n \in Node : execs'[n] # execs[n] => ~CompletedEarlier(n)
<1>1. SessionInv /\ (Careful => RunInv) /\ [SessionNext]_sessionVars => [Kept]_sessionVars
  <2> SUFFICES ASSUME SessionInv, Careful, RunInv, [SessionNext]_sessionVars,
                      NEW n \in Node, execs'[n] # execs[n]
               PROVE  ~CompletedEarlier(n)
    BY DEF Careful
  <2>1. IInv /\ TypeOK /\ session \in Seq(Turn) /\ Forest /\ Once /\ Matched
    BY DEF SessionInv, SessionTypeOK, RunInv, Careful, IInv
  <2>2. \E m \in Node : StartBody(m)
    <3>1. ~UNCHANGED execs OBVIOUS
    <3>2. [Next]_vars
      BY <2>1, <3>1, TurnCases DEF PlainText, Reply, Resume, Restart, RefuseReply, bodyVars
    <3> QED BY <3>1, <3>2 DEF Next, LoopStep, SkipHeld, StopAtLimit, FastForward, HandOver, Race,
       DeliverError, DeliverInterrupt, DeliverWait, DeliverCompletion, Fanout, NextPass, Rethrow,
       Finalize, BodyStep, Settle, Abort, Terminated, vars, bodyVars
  <2>3. PICK m \in Node : StartBody(m) BY <2>2
  <2>4. m = n
    <3>1. execs' = [execs EXCEPT ![m] = @ + 1] BY <2>3 DEF StartBody
    <3> QED BY <2>1, <3>1 DEF TypeOK
  <2>5. ~HasEarlier(n) BY <2>1, <2>3, <2>4, FreshStart
  <2>6. \A e : In(e, << >>) => FALSE BY DEF In
  <2>7. \A e : ~In(e, NodeEventsIn(session, Earlier, n))
    <3>1. \A e : In(e, NodeEventsIn(session, Earlier, n)) =>
            \E t \in DOMAIN session : t \in Earlier /\ In(e, session[t].events[n])
      BY <2>1, NodeEventsFacts
    <3> QED BY <2>5, <2>6, <3>1 DEF HasEarlier
  <2> QED BY <2>7, ToSetFacts DEF CompletedEarlier
<1> QED BY <1>1, RunInvHolds, PTL DEF SessionSpec, CompletedRunsAreNotRepeated

---------------------------------------------------------------------------
(* No recorded work is orphaned                                            *)

\* What a node left in the turns of the run in progress.
InRun == Earlier \cup {Now}
Left(p, t, e) == t \in InRun /\ In(e, session[t].events[p])

\* What was left completes its run in its own turn, or if it asks in a later one.
Closed(t, e, u) == t < u \/ (t = u /\ e.ids = {})

\* By turn u the run of p has led to n; and all that lead to n have.
Leads(p, n, u) ==
  \E t, e : Left(p, t, e) /\ Closed(t, e, u) /\ In(n, Targets[p][e.routes])
Grounded(n, u) ==
  In(n, StartTargets) \/ (Preds[n] # {} /\ \A p \in Preds[n] : p \in Node /\ Leads(p, n, u))

\* A body that executes is its node's only one, and has left nothing so far.
Single ==
  /\ \A t \in DOMAIN session, n \in Node : Len(session[t].events[n]) <= 1
  /\ \A r \in live : /\ r[1] \in activated /\ session[Now].events[r[1]] = << >>
                     /\ \A q \in live : q[1] = r[1] => q = r
  /\ \A n \in Node : session[Now].events[n] # << >> => n \in activated

\* A node leaves something, and is triggered, when the run has led to it.
Founded ==
  /\ \A n \in Node : \A t, e : Left(n, t, e) => Grounded(n, t)
  /\ ~Stopped => \A n \in Node : /\ Triggered(n) => Grounded(n, Now)
                                 /\ In(n, StartTargets) => Triggered(n)
  /\ phase = "fanout" => \A n \in Node : In(n, downstream) =>
                            \E p \in Preds[n] \ {START} : Leads(p, n, Now)

\* While nothing has failed the turn retraces the run: a node has completed on
\* what it left, on the routes it left, and what is still to be matched is of
\* nodes whose turn has not come.
Active == phase \in {"schedule", "race", "fanout"}
Completes(p) == \E t, e : Left(p, t, e) /\ Closed(t, e, Now)
OnRoutes(p, R) == \A t, e : Left(p, t, e) => e.routes = R
Answered(o) == o.kind = "done" /\ o.ids = {} /\ (o.out # {} \/ o.routes # {})
RetracedBy(p) ==
  /\ status[p] = "COMPLETED" => Completes(p)
  /\ In(p, pending) /\ task[p].kind = "done" /\ task[p].ids = {} =>
       Completes(p) /\ OnRoutes(p, task[p].routes)
  /\ rehydrated[p] # << >> =>
       /\ p \notin activated /\ HasEarlier(p) /\ Tail(rehydrated[p]) = << >>
       /\ \A t, e : Left(p, t, e) => ThePrior(p).routes = e.routes /\ ThePrior(p).ids = e.ids
  /\ HasEarlier(p) /\ p \in activated =>
       status[p] = "COMPLETED" \/ (status[p] = "RUNNING" /\ Answered(task[p]))

\* What a completed node leads to has its trigger, or is a join that waits.
Awaited(n) ==
  \/ Triggered(n)
  \/ phase = "fanout" /\ In(n, downstream)
  \/ n \in JoinNode /\ ~AllCompleted(n)
HandedOn ==
  \A p, n \in Node : \A t, e :
    status[p] = "COMPLETED" /\ Left(p, t, e) /\ In(n, Targets[p][e.routes]) => Awaited(n)

Retraced == Active => HandedOn /\ \A p \in Node : RetracedBy(p)
RetraceInv == Single /\ Founded /\ Retraced

\* Where what was left is still there, what has been led to still is.
LEMMA GroundedLater ==
  ASSUME \A p \in Node : \A t, e : Left(p, t, e) => Left(p, t, e)'
  PROVE  /\ \A p \in Node : \A n, u : Leads(p, n, u) => Leads(p, n, u)'
         /\ \A n, u : Grounded(n, u) => Grounded(n, u)'
<1>1. ASSUME NEW p \in Node, NEW n, NEW u, Leads(p, n, u) PROVE Leads(p, n, u)'
  <2>1. PICK t, e : Left(p, t, e) /\ Closed(t, e, u) /\ In(n, Targets[p][e.routes])
    BY <1>1 DEF Leads
  <2>2. Left(p, t, e)' /\ Closed(t, e, u)' BY <2>1 DEF Closed
  <2> QED BY <2>1, <2>2 DEF Leads
<1>2. ASSUME NEW n, NEW u, Grounded(n, u) PROVE Grounded(n, u)'
  BY <1>1, <1>2 DEF Grounded
<1> QED BY <1>1, <1>2

\* A node leaves one thing in a run.
LEMMA LeftOnce ==
  ASSUME session \in Seq(Turn), Now \in Nat \ {0}, OncePerRun, Single, NEW p \in Node,
         NEW t, NEW u, NEW e, NEW f, Left(p, t, e), Left(p, u, f)
  PROVE  t = u /\ e = f
<1>1. t \in InRun /\ u \in InRun /\ t \in Nat /\ u \in Nat /\ t \in DOMAIN session
      /\ In(e, session[t].events[p]) /\ In(f, session[u].events[p])
  BY EarlierFacts DEF Left, InRun
<1>2. ~In(e, << >>) /\ ~In(f, << >>) BY DEF In
<1>3. ~(t < u) /\ ~(u < t) BY <1>1, <1>2 DEF OncePerRun, InRun
<1>4. t = u BY <1>1, <1>3
<1>5. session[t].events[p] \in Seq(NodeEvent) /\ Len(session[t].events[p]) <= 1
  BY <1>1, EventFacts DEF Single
<1>6. \A s \in Seq(NodeEvent) : Len(s) <= 1 => \A i, k \in DOMAIN s : i = k OBVIOUS
<1>7. e = f BY <1>1, <1>4, <1>5, <1>6 DEF In
<1> QED BY <1>4, <1>7

\* What is left in the run, where only the present turn gains events.
LEMMA LeftLater ==
  ASSUME session \in Seq(Turn), session' \in Seq(Turn), Now \in Nat \ {0}, Now' = Now,
         \A t \in 1..Now : t # Now => session'[t] = session[t]
  PROVE  /\ InRun' = InRun /\ \A p : HasEarlier(p)' <=> HasEarlier(p)
         /\ \A p : session'[Now].events[p] = session[Now].events[p] =>
              \A t, e : Left(p, t, e)' <=> Left(p, t, e)
         /\ \A p : session[Now].events[p] = << >> =>
              \A t, e : Left(p, t, e)' <=>
                Left(p, t, e) \/ (t = Now /\ In(e, session'[Now].events[p]))
<1>1. Earlier' = Earlier /\ InRun' = InRun /\ \A p : HasEarlier(p)' <=> HasEarlier(p)
  BY SameEarlier DEF InRun
<1>2. \A t \in InRun : t # Now => session'[t] = session[t]
  <2>1. \A t \in InRun : t \in 1..Now BY EarlierFacts DEF InRun
  <2> QED BY <2>1
<1>3. ~\E e : In(e, << >>) BY DEF In
<1>4. Now \in InRun BY DEF InRun
<1> QED BY <1>1, <1>2, <1>3, <1>4 DEF Left

\* The nodes' events are as they were.
SameEvents ==
  /\ Now' = Now /\ DOMAIN session' = DOMAIN session
  /\ \A t \in DOMAIN session : session'[t].events = session[t].events
SameLeft ==
  /\ \A p : HasEarlier(p)' <=> HasEarlier(p)
  /\ \A p, t, e : Left(p, t, e)' <=> Left(p, t, e)

\* A step of the loop itself.
Quietly ==
  \/ SkipHeld \/ StopAtLimit \/ Race \/ NextPass \/ Rethrow \/ Finalize \/ Abort
  \/ UNCHANGED vars
Starts(n) == FastForward(n) \/ HandOver(n) \/ StartBody(n)
Delivers(n) == DeliverError(n) \/ DeliverInterrupt(n) \/ DeliverWait(n) \/ DeliverCompletion(n)
LoopMoves == Quietly \/ Fanout \/ \E n \in Node : Starts(n) \/ Delivers(n)

LEMMA SingleMoves ==
  ASSUME IInv, Forest, Once, Single, SameEvents, Now \in DOMAIN session, LoopMoves
  PROVE  Single'
<1>1. /\ \A t \in DOMAIN session', n \in Node : Len(session'[t].events[n]) <= 1
      /\ \A n \in Node : session'[Now'].events[n] = session[Now].events[n]
  BY DEF Single, SameEvents
<1>2. CASE \E n \in Node : StartBody(n)
  <2>1. PICK n \in Node : StartBody(n) BY <1>2
  <2>2. n \notin activated /\ activated' = activated \cup {n}
    BY <2>1, OnceTake DEF StartBody
  <2>3. live' = live \cup {<<n, execs[n] + 1>>} BY <2>1 DEF StartBody
  <2>4. session[Now].events[n] = << >> BY <2>2 DEF Single
  <2>5. ASSUME NEW r \in live'
        PROVE  /\ r[1] \in activated' /\ session[Now].events[r[1]] = << >>
               /\ \A q \in live' : q[1] = r[1] => q = r
    <3>1. CASE r \in live
      <4>1. r[1] \in activated /\ r[1] # n BY <2>2, <3>1 DEF Single
      <4> QED BY <2>2, <2>3, <3>1, <4>1 DEF Single
    <3>2. CASE r = <<n, execs[n] + 1>>
      <4>1. \A q \in live : q[1] # n BY <2>2 DEF Single
      <4> QED BY <2>2, <2>3, <2>4, <3>2, <4>1
    <3> QED BY <2>3, <3>1, <3>2
  <2>6. \A r \in live' : session'[Now'].events[r[1]] = session[Now].events[r[1]]
    BY DEF SameEvents
  <2> QED BY <1>1, <2>2, <2>5, <2>6 DEF Single
<1>3. CASE ~\E n \in Node : StartBody(n)
  <2>1. live' = live /\ activated \subseteq activated'
    BY <1>3 DEF LoopMoves, Quietly, Starts, Delivers, SkipHeld, StopAtLimit, FastForward, HandOver,
       TakeTrigger, Race, DeliverError, DeliverInterrupt, DeliverWait, DeliverCompletion, Fanout,
       NextPass, Rethrow, Finalize, Abort, vars, bodyVars, runVars
  <2>2. \A r \in live : session'[Now'].events[r[1]] = session[Now].events[r[1]]
    BY DEF SameEvents
  <2> QED BY <1>1, <2>1, <2>2 DEF Single
<1> QED BY <1>2, <1>3

\* Nodes are triggered by the fan-out alone, each successor by its turn.
LEMMA TriggeredMoves ==
  ASSUME IInv, Forest, Once, Quietly \/ \E n \in Node : Starts(n) \/ Delivers(n)
  PROVE  \A n \in Node : Triggered(n)' <=> Triggered(n)
<1>1. CASE \E n \in Node : Starts(n)
  <2>1. PICK n \in Node : Starts(n) BY <1>1
  <2>2. Ready(n) /\ TakeTrigger(n) BY <2>1 DEF Starts, FastForward, HandOver, StartBody
  <2>3. /\ activated' = activated \cup {n} /\ buffer[n] # << >>
        /\ \A m \in Node : m # n => buffer'[m] = buffer[m]
    BY <2>2, OnceTake
  <2> QED BY <2>3 DEF Triggered
<1>2. CASE Quietly \/ \E n \in Node : Delivers(n)
  <2>1. UNCHANGED <<activated, buffer>>
    BY <1>2 DEF Quietly, Delivers, SkipHeld, StopAtLimit, Race, DeliverError, DeliverInterrupt,
       DeliverWait, DeliverCompletion, NextPass, Rethrow, Finalize, Abort, vars, bufVars, runVars
  <2> QED BY <2>1 DEF Triggered
<1> QED BY <1>1, <1>2

LEMMA TriggeredFanout ==
  ASSUME IInv, Fanout
  PROVE  \E n \in Node :
           /\ n = Head(downstream) /\ In(n, downstream) /\ downstream' = Tail(downstream)
           /\ \A m \in Node : m # n => (Triggered(m)' <=> Triggered(m))
           /\ IF n \in JoinNode /\ ~AllCompleted(n) THEN Triggered(n)' <=> Triggered(n)
                                                    ELSE Triggered(n)'
<1>1. downstream \in Seq(Node) /\ downstream # << >> BY DEF Fanout, IInv, TypeOK
<1>2. PICK n \in Node : n = Head(downstream) /\ In(n, downstream) BY <1>1, TailFacts
<1>3. activated' = activated /\ downstream' = Tail(downstream) BY DEF Fanout, runVars
<1>4. ASSUME NEW v, PushTrigger(n, v)
      PROVE  buffer'[n] # << >> /\ \A m \in Node : m # n => buffer'[m] = buffer[m]
  <2>1. buffer' = [buffer EXCEPT ![n] = Append(@, v)] /\ buffer \in [Node -> Seq(Value)]
    BY <1>4 DEF PushTrigger, IInv, TypeOK
  <2>2. buffer'[n] = Append(buffer[n], v) /\ buffer[n] \in Seq(Value) BY <2>1
  <2>3. \A s \in Seq(Value) : Append(s, v) # << >>
    <3> SUFFICES ASSUME NEW s \in Seq(Value) PROVE Append(s, v) # << >>
      OBVIOUS
    <3>1. Len(Append(s, v)) = Len(s) + 1 /\ Len(s) \in Nat OBVIOUS
    <3> QED BY <3>1
  <2> QED BY <2>1, <2>2, <2>3
<1>5. CASE n \in JoinNode /\ ~AllCompleted(n)
  <2>1. UNCHANGED bufVars BY <1>2, <1>5 DEF Fanout
  <2> QED BY <1>2, <1>3, <1>5, <2>1 DEF Triggered, bufVars
<1>6. CASE ~(n \in JoinNode /\ ~AllCompleted(n))
  <2>1. \E v : PushTrigger(n, v) BY <1>2, <1>6 DEF Fanout
  <2>2. buffer'[n] # << >> /\ \A m \in Node : m # n => buffer'[m] = buffer[m] BY <1>4, <2>1
  <2>3. Triggered(n)' /\ \A m \in Node : m # n => (Triggered(m)' <=> Triggered(m))
    BY <1>3, <2>2 DEF Triggered
  <2> QED BY <1>2, <1>3, <1>6, <2>3
<1> QED BY <1>5, <1>6

\* Where everything a node completed on is known, a join that all its
\* predecessors led to has been led to by each.
LEMMA JoinGrounded ==
  ASSUME session \in Seq(Turn), Now \in Nat \ {0}, Retraceable, NEW n \in JoinNode,
         NEW p \in Preds[n], p \in Node, Completes(p)
  PROVE  Leads(p, n, Now)
<1>1. PICK t, e : Left(p, t, e) /\ Closed(t, e, Now) BY DEF Completes
<1>2. e \in NodeEvent
  <2>1. t \in DOMAIN session /\ In(e, session[t].events[p]) BY <1>1, EarlierFacts DEF Left, InRun
  <2> QED BY <2>1, EventFacts
<1>3. e.routes \in SUBSET Route BY <1>2 DEF NodeEvent
<1>4. p \in Preds[n] \ {START} BY GraphAssumption
<1>5. In(n, Targets[p][e.routes]) BY <1>3, <1>4 DEF Retraceable
<1> QED BY <1>1, <1>5 DEF Leads

LEMMA FoundedMoves ==
  ASSUME IInv, Forest, Retraceable, Once, Founded, Retraced, session \in Seq(Turn),
         Now \in Nat \ {0}, SameEvents, SameLeft, LoopMoves
  PROVE  Founded'
<1>1. /\ Now' = Now
      /\ \A p \in Node : \A n, u : Leads(p, n, u) => Leads(p, n, u)'
      /\ \A n, u : Grounded(n, u) => Grounded(n, u)'
  BY GroundedLater DEF SameEvents, SameLeft
<1>2. \A n \in Node : \A t, e : Left(n, t, e)' => Grounded(n, t)'
  BY <1>1 DEF SameLeft, Founded
<1>3. \A n \in Node : \A p \in Preds[n] \ {START} : p \in Node BY GraphAssumption
<1>4. CASE Fanout
  <2>1. phase = "fanout" /\ phase' = "fanout" /\ Active BY <1>4 DEF Fanout, Active
  <2>2. PICK n \in Node :
          /\ n = Head(downstream) /\ In(n, downstream) /\ downstream' = Tail(downstream)
          /\ \A m \in Node : m # n => (Triggered(m)' <=> Triggered(m))
          /\ IF n \in JoinNode /\ ~AllCompleted(n) THEN Triggered(n)' <=> Triggered(n)
                                                   ELSE Triggered(n)'
    BY <1>4, TriggeredFanout
  <2>3. PICK p \in Preds[n] \ {START} : Leads(p, n, Now) BY <2>1, <2>2 DEF Founded
  <2>4. ASSUME n \notin JoinNode PROVE Grounded(n, Now)
    <3>1. \A q \in Preds[n] : q = p BY <2>3, <2>4 DEF Forest
    <3> QED BY <1>3, <2>3, <3>1 DEF Grounded
  <2>5. ASSUME n \in JoinNode, AllCompleted(n) PROVE Grounded(n, Now)
    <3>1. \A q \in Preds[n] : q \in Node /\ Completes(q)
      BY <2>1, <2>5 DEF AllCompleted, Retraced, RetracedBy
    <3>2. \A q \in Preds[n] : Leads(q, n, Now) BY <2>5, <3>1, JoinGrounded
    <3> QED BY <2>3, <3>1, <3>2 DEF Grounded
  <2>6. ~Stopped BY <2>1 DEF Stopped
  <2>7. \A m \in Node : Triggered(m)' => Triggered(m) \/ Grounded(m, Now)
    BY <2>2, <2>4, <2>5
  <2>8. \A m \in Node : Triggered(m) => Triggered(m)' BY <2>2
  <2>9. \A m \in Node : In(m, downstream') => In(m, downstream)
    BY <2>2, <1>4, TailFacts DEF Fanout, IInv, TypeOK
  <2>10. \A m \in Node : In(m, downstream') => \E q \in Preds[m] \ {START} : Leads(q, m, Now)'
    BY <1>1, <1>3, <2>1, <2>9 DEF Founded
  <2>11. \A m \in Node : /\ Triggered(m)' => Grounded(m, Now)'
                         /\ In(m, StartTargets) => Triggered(m)'
    BY <1>1, <2>6, <2>7, <2>8 DEF Founded
  <2> QED BY <1>1, <1>2, <2>10, <2>11 DEF Founded
<1>5. CASE Quietly \/ \E n \in Node : Starts(n) \/ Delivers(n)
  <2>1. \A n \in Node : Triggered(n)' <=> Triggered(n) BY <1>5, TriggeredMoves
  <2>2. ~Stopped' => ~Stopped
    BY <1>5 DEF Quietly, Starts, Delivers, SkipHeld, StopAtLimit, FastForward, HandOver, StartBody,
       Ready, Race, DeliverError, DeliverInterrupt, DeliverWait, DeliverCompletion, Delivered,
       NextPass, Rethrow, Finalize, Abort, vars, loopVars, Stopped
  <2>3. phase' = "fanout" =>
          \A n \in Node : In(n, downstream') => \E p \in Preds[n] \ {START} : Leads(p, n, Now)
    <3>1. CASE \E m \in Node : DeliverCompletion(m)
      <4>1. PICK m \in Node : DeliverCompletion(m) BY <3>1
      <4>2. /\ In(m, pending) /\ task[m] \in Outcome /\ Delivered(m)
            /\ task[m].kind = "done" /\ task[m].ids = {}
            /\ downstream' = Targets[m][task[m].routes] /\ Active
        BY <4>1, DeliveredFacts DEF DeliverCompletion, Delivered, Active
      <4>3. Completes(m) /\ OnRoutes(m, task[m].routes) BY <4>2 DEF Retraced, RetracedBy
      <4>4. PICK t, e : Left(m, t, e) /\ Closed(t, e, Now) BY <4>3 DEF Completes
      <4>5. e.routes = task[m].routes BY <4>3, <4>4 DEF OnRoutes
      <4>6. task[m].routes \in SUBSET Route BY <4>2 DEF Outcome
      <4>7. \A n \in Node : In(n, downstream') => m \in Preds[n] \ {START} /\ Leads(m, n, Now)
        BY <4>2, <4>4, <4>5, <4>6, SuccessorFacts DEF Leads
      <4> QED BY <4>7
    <3>2. CASE ~\E m \in Node : DeliverCompletion(m)
      <4>1. phase' = "fanout" => phase = "fanout" /\ downstream' = downstream
        BY <1>5, <3>2 DEF Quietly, Starts, Delivers, SkipHeld, StopAtLimit, FastForward, HandOver,
           StartBody, TakeTrigger, Ready, Race, DeliverError, DeliverInterrupt, DeliverWait,
           NextPass, Rethrow, Finalize, Abort, vars, loopVars
      <4> QED BY <4>1 DEF Founded
    <3> QED BY <3>1, <3>2
  <2>4. phase' = "fanout" =>
          \A n \in Node : In(n, downstream') => \E p \in Preds[n] \ {START} : Leads(p, n, Now)'
    BY <1>1, <1>3, <2>3
  <2>5. ~Stopped' => \A n \in Node : /\ Triggered(n)' => Grounded(n, Now)'
                                     /\ In(n, StartTargets) => Triggered(n)'
    BY <1>1, <2>1, <2>2 DEF Founded
  <2> QED BY <1>1, <1>2, <2>4, <2>5 DEF Founded
<1> QED BY <1>4, <1>5 DEF LoopMoves

\* A node that the step passes by.
LEMMA LeftSame ==
  ASSUME Now' = Now, NEW p, \A t, e : Left(p, t, e)' <=> Left(p, t, e)
  PROVE  Completes(p)' <=> Completes(p)
<1>1. \A t, e : Closed(t, e, Now)' <=> Closed(t, e, Now) BY DEF Closed
<1> QED BY <1>1 DEF Completes

LEMMA RetracedSame ==
  ASSUME Now' = Now, NEW p \in Node, RetracedBy(p), HasEarlier(p)' <=> HasEarlier(p),
         \A t, e : Left(p, t, e)' <=> Left(p, t, e),
         status'[p] = status[p], In(p, pending') => In(p, pending),
         task'[p] = task[p], rehydrated'[p] = rehydrated[p], p \in activated' <=> p \in activated
  PROVE  RetracedBy(p)'
<1>1. Completes(p)' <=> Completes(p) BY LeftSame
<1>2. ThePrior(p)' = ThePrior(p) BY DEF ThePrior
<1> QED BY <1>1, <1>2 DEF RetracedBy, OnRoutes

\* What a node had been led to by, it still has.
LEMMA HandedOnKept ==
  ASSUME HandedOn, SameLeft, \A p \in Node : status'[p] = "COMPLETED" => status[p] = "COMPLETED",
         \A n \in Node : Triggered(n) => Triggered(n)',
         \A n \in Node : phase = "fanout" /\ In(n, downstream) =>
           \/ phase' = "fanout" /\ In(n, downstream')
           \/ Triggered(n)'
           \/ n \in JoinNode /\ ~AllCompleted(n)
  PROVE  HandedOn'
<1>1. \A n \in Node : ~AllCompleted(n) => ~AllCompleted(n)' BY DEF AllCompleted
<1>2. \A n \in Node : Awaited(n) => Awaited(n)' BY <1>1 DEF Awaited
<1> QED BY <1>2 DEF HandedOn, SameLeft

\* A node that starts takes its prior run, if it has one, for good.
LEMMA RetracedStart ==
  ASSUME IInv, Forest, Once, Matched, Traces, Single, Retraced, session \in Seq(Turn),
         Now \in Nat \ {0}, Now' = Now, SameLeft, NEW n \in Node, Starts(n)
  PROVE  Retraced'
<1>1. Ready(n) /\ TakeTrigger(n) BY DEF Starts, FastForward, HandOver, StartBody
<1>2. /\ n \notin activated /\ status[n] = "NONE" /\ phase = "schedule" /\ phase' = "schedule"
      /\ activated' = activated \cup {n} /\ ~In(n, pending)
  BY <1>1, OnceTake, ReadyFacts DEF IInv, Once, TakeTrigger
<1>3. HandedOn /\ \A p \in Node : RetracedBy(p) BY <1>2 DEF Retraced, Active
<1>4. /\ pending' = Append(pending, n) /\ pending \in Seq(Node)
      /\ rehydrated'[n] = IF rehydrated[n] = << >> THEN << >> ELSE Tail(rehydrated[n])
      /\ status'[n] = "RUNNING"
      /\ \A p \in Node : p # n => status'[p] = status[p] /\ rehydrated'[p] = rehydrated[p]
      /\ \A p \in Node : p # n => task'[p] = task[p]
  BY <1>1 DEF Starts, FastForward, HandOver, StartBody, TakeTrigger, IInv, TypeOK
<1>5. \A p : In(p, pending') <=> In(p, pending) \/ p = n
  BY <1>4, AppendFacts
<1>6. \A t, e : Left(n, t, e) => t < Now
  <2> SUFFICES ASSUME NEW t, NEW e, Left(n, t, e) PROVE t < Now
    OBVIOUS
  <2>1. session[Now].events[n] = << >> BY <1>2 DEF Single
  <2>2. t # Now BY <2>1 DEF Left, In
  <2>3. t \in 1..(Now - 1) BY <2>2, EarlierFacts DEF Left, InRun
  <2> QED BY <2>3
<1>7. HasEarlier(n) => Completes(n)
  <2> SUFFICES ASSUME HasEarlier(n) PROVE Completes(n)
    OBVIOUS
  <2>1. PICK t \in Earlier : session[t].events[n] # << >> BY DEF HasEarlier
  <2>2. t \in DOMAIN session BY <2>1, EarlierFacts
  <2>3. In(Head(session[t].events[n]), session[t].events[n]) BY <2>1, <2>2, EventFacts, HeadFacts
  <2>4. Left(n, t, Head(session[t].events[n])) BY <2>1, <2>3 DEF Left, InRun
  <2> QED BY <1>6, <2>4 DEF Completes, Closed
<1>8. rehydrated'[n] = << >> BY <1>3, <1>4 DEF RetracedBy
<1>9. /\ task'[n].kind = "done" => HasEarlier(n) /\ OnRoutes(n, task'[n].routes)
      /\ HasEarlier(n) => Answered(task'[n])
  <2>1. HasPrior(n) => /\ HasEarlier(n)
                       /\ \A t, e : Left(n, t, e) =>
                            ThePrior(n).routes = e.routes /\ ThePrior(n).ids = e.ids
    BY <1>3 DEF RetracedBy, HasPrior
  <2>2. CASE FastForward(n)
    <3>1. /\ task'[n] = [kind |-> "done", out |-> ThePrior(n).out,
                         routes |-> ThePrior(n).routes, ids |-> {}]
          /\ HasPrior(n) /\ IsFastForwardable(ThePrior(n))
      BY <2>2 DEF FastForward, CanFastForward, IInv, TypeOK
    <3> QED BY <2>1, <3>1 DEF OnRoutes, Answered, IsFastForwardable
  <2>3. CASE HandOver(n)
    <3>1. /\ task'[n] = [kind |-> "done", out |-> ThePrior(n).ids, routes |-> {}, ids |-> {}]
          /\ HasPrior(n) /\ ThePrior(n).ids # {}
      BY <2>3 DEF HandOver, CanHandOver, IInv, TypeOK
    <3>2. ASSUME NEW t, NEW e, Left(n, t, e) PROVE e.routes = {}
      <4>1. e.ids # {} BY <2>1, <3>1, <3>2
      <4>2. t \in DOMAIN session /\ In(e, session[t].events[n])
        BY <3>2, EarlierFacts DEF Left, InRun
      <4> QED BY <4>1, <4>2 DEF Traces
    <3> QED BY <2>1, <3>1, <3>2 DEF OnRoutes, Answered
  <2>4. CASE StartBody(n)
    <3>1. task'[n] = Running BY <2>4 DEF StartBody, IInv, TypeOK
    <3>2. ~HasEarlier(n) BY <2>4, FreshStart
    <3> QED BY <3>1, <3>2 DEF Running, NoTask
  <2> QED BY <2>2, <2>3, <2>4 DEF Starts
<1>10. RetracedBy(n)'
  <2>1. /\ Completes(n)' <=> Completes(n)
        /\ HasEarlier(n)' <=> HasEarlier(n)
        /\ \A t, e : Left(n, t, e)' <=> Left(n, t, e)
    BY LeftSame DEF SameLeft
  <2> QED BY <1>4, <1>7, <1>8, <1>9, <2>1 DEF RetracedBy, OnRoutes
<1>11. \A p \in Node : p # n => RetracedBy(p)'
  BY <1>2, <1>3, <1>4, <1>5, RetracedSame DEF SameLeft
<1>12. HandedOn'
  <2>1. \A m \in Node : Triggered(m)' <=> Triggered(m) BY TriggeredMoves
  <2> QED BY <1>2, <1>3, <1>4, <2>1, HandedOnKept
<1> QED BY <1>10, <1>11, <1>12 DEF Retraced

\* A completion hands on along the routes that the node's event carries.
LEMMA RetracedCompletion ==
  ASSUME IInv, Forest, Once, Retraceable, Retraced, Now' = Now, SameLeft,
         NEW n \in Node, DeliverCompletion(n)
  PROVE  Retraced'
<1>1. /\ Delivered(n) /\ Dequeue(n) /\ task[n].kind = "done" /\ task[n].ids = {}
      /\ In(n, pending) /\ task[n] \in Outcome /\ status[n] = "RUNNING"
      /\ phase' = "fanout" /\ phase = "race" /\ downstream' = Targets[n][task[n].routes]
      /\ activated' = activated /\ rehydrated' = rehydrated
  BY DeliveredFacts DEF DeliverCompletion, Delivered, runVars
<1>2. HandedOn /\ \A p \in Node : RetracedBy(p) BY <1>1 DEF Retraced, Active
<1>3. /\ status'[n] = "COMPLETED"
      /\ \A p \in Node : p # n => status'[p] = status[p] /\ task'[p] = task[p]
      /\ task'[n] = NoTask
      /\ \A p : In(p, pending') <=> In(p, pending) /\ p # n
  BY <1>1, DequeueFacts DEF DeliverCompletion, Dequeue, IInv, TypeOK
<1>4. \A m \in Node : Triggered(m)' <=> Triggered(m) BY TriggeredMoves DEF Delivers
<1>5. /\ Completes(n)' <=> Completes(n)
      /\ \A t, e : Left(n, t, e)' => e.routes = task[n].routes
      /\ Completes(n) /\ task[n].routes \in SUBSET Route
  BY <1>1, <1>2, LeftSame DEF SameLeft, RetracedBy, OnRoutes, Outcome
<1>6. RetracedBy(n)'
  <2>1. rehydrated[n] = << >> \/ n \notin activated BY <1>2 DEF RetracedBy
  <2>2. n \in activated BY <1>1 DEF Once
  <2> QED BY <1>1, <1>3, <1>5, <2>1, <2>2 DEF RetracedBy
<1>7. \A p \in Node : p # n => RetracedBy(p)' BY <1>1, <1>2, <1>3, RetracedSame DEF SameLeft
<1>8. HandedOn'
  <2> SUFFICES ASSUME NEW p \in Node, NEW m \in Node, NEW t, NEW e,
                      status'[p] = "COMPLETED", Left(p, t, e)', In(m, Targets[p][e.routes])
               PROVE  Awaited(m)'
    BY DEF HandedOn
  <2>1. CASE p = n
    <3>1. In(m, downstream') BY <1>1, <1>5, <2>1
    <3> QED BY <1>1, <3>1 DEF Awaited
  <2>2. CASE p # n
    <3>1. Awaited(m) BY <1>2, <1>3, <2>2 DEF HandedOn, SameLeft
    <3>2. CASE Triggered(m) BY <1>4, <3>2 DEF Awaited
    <3>3. CASE m \in JoinNode /\ ~AllCompleted(m)
      <4>1. CASE n \in Preds[m]
        <5>1. n \in Preds[m] \ {START} BY <4>1, GraphAssumption
        <5>2. In(m, Targets[n][task[n].routes]) BY <1>5, <3>3, <5>1 DEF Retraceable
        <5> QED BY <1>1, <5>2 DEF Awaited
      <4>2. CASE n \notin Preds[m]
        <5>1. ~AllCompleted(m)' BY <1>3, <3>3, <4>2 DEF AllCompleted
        <5> QED BY <3>3, <5>1 DEF Awaited
      <4> QED BY <4>1, <4>2
    <3> QED BY <1>1, <3>1, <3>2, <3>3 DEF Awaited
  <2> QED BY <2>1, <2>2
<1> QED BY <1>6, <1>7, <1>8 DEF Retraced

\* No other delivery is of a node that left something before.
LEMMA RetracedDeliver ==
  ASSUME IInv, Forest, Once, Retraced, Now' = Now, SameLeft,
         NEW n \in Node, DeliverError(n) \/ DeliverInterrupt(n) \/ DeliverWait(n)
  PROVE  Retraced'
<1>1. CASE DeliverError(n) BY <1>1 DEF DeliverError, Retraced, Active
<1>2. CASE DeliverInterrupt(n) \/ DeliverWait(n)
  <2>1. /\ Delivered(n) /\ Dequeue(n) /\ task[n].kind = "done"
        /\ task[n].ids # {} \/ (task[n].out = {} /\ task[n].routes = {})
        /\ status[n] = "RUNNING" /\ phase' = "schedule" /\ phase = "race"
        /\ activated' = activated /\ rehydrated' = rehydrated
    BY <1>2, DeliveredFacts DEF DeliverInterrupt, DeliverWait, Delivered, runVars
  <2>2. HandedOn /\ \A p \in Node : RetracedBy(p) BY <2>1 DEF Retraced, Active
  <2>3. /\ status'[n] = "WAITING"
        /\ \A p \in Node : p # n => status'[p] = status[p] /\ task'[p] = task[p]
        /\ \A p : In(p, pending') <=> In(p, pending) /\ p # n
    BY <1>2, <2>1, DequeueFacts DEF DeliverInterrupt, DeliverWait, Dequeue, IInv, TypeOK
  <2>4. n \in activated BY <2>1 DEF Once
  <2>5. ~HasEarlier(n) /\ rehydrated[n] = << >>
    BY <2>1, <2>2, <2>4 DEF RetracedBy, Answered
  <2>6. RetracedBy(n)'
    <3>1. ~HasEarlier(n)' BY <2>5 DEF SameLeft
    <3> QED BY <2>1, <2>3, <2>5, <3>1 DEF RetracedBy
  <2>7. \A p \in Node : p # n => RetracedBy(p)' BY <2>1, <2>2, <2>3, RetracedSame DEF SameLeft
  <2>8. HandedOn'
    <3>1. \A m \in Node : Triggered(m)' <=> Triggered(m) BY <1>2, TriggeredMoves DEF Delivers
    <3>2. \A p \in Node : status'[p] = "COMPLETED" => status[p] = "COMPLETED" BY <2>3
    <3> QED BY <2>1, <2>2, <3>1, <3>2, HandedOnKept
  <2> QED BY <2>6, <2>7, <2>8 DEF Retraced
<1> QED BY <1>1, <1>2

LEMMA RetracedFanout ==
  ASSUME IInv, Retraced, Now' = Now, SameLeft, Fanout PROVE Retraced'
<1>1. /\ phase = "fanout" /\ phase' = "fanout" /\ downstream \in Seq(Node) /\ downstream # << >>
      /\ UNCHANGED <<status, task, pending, rehydrated, activated>>
  BY DEF Fanout, taskVars, nodeVars, runVars, IInv, TypeOK
<1>2. HandedOn /\ \A p \in Node : RetracedBy(p) BY <1>1 DEF Retraced, Active
<1>3. \A p \in Node : RetracedBy(p)' BY <1>1, <1>2, RetracedSame DEF SameLeft
<1>4. PICK n \in Node :
        /\ n = Head(downstream) /\ In(n, downstream) /\ downstream' = Tail(downstream)
        /\ \A m \in Node : m # n => (Triggered(m)' <=> Triggered(m))
        /\ IF n \in JoinNode /\ ~AllCompleted(n) THEN Triggered(n)' <=> Triggered(n)
                                                 ELSE Triggered(n)'
  BY TriggeredFanout
<1>5. \A m : In(m, downstream) /\ m # n => In(m, downstream')
  <2> SUFFICES ASSUME NEW i \in DOMAIN downstream, downstream[i] # n
               PROVE  In(downstream[i], Tail(downstream))
    BY <1>4 DEF In
  <2>1. i # 1 /\ i - 1 \in DOMAIN Tail(downstream) /\ Tail(downstream)[i - 1] = downstream[i]
    BY <1>1, <1>4
  <2> QED BY <2>1 DEF In
<1>6. \A m \in Node : Triggered(m) => Triggered(m)' BY <1>4
<1>7. \A m \in Node : phase = "fanout" /\ In(m, downstream) =>
        \/ phase' = "fanout" /\ In(m, downstream')
        \/ Triggered(m)'
        \/ m \in JoinNode /\ ~AllCompleted(m)
  BY <1>1, <1>4, <1>5
<1>8. HandedOn' BY <1>1, <1>2, <1>6, <1>7, HandedOnKept
<1> QED BY <1>3, <1>8 DEF Retraced

LEMMA RetracedQuiet ==
  ASSUME IInv, Forest, Once, Retraced, Now' = Now, SameLeft, Quietly PROVE Retraced'
<1>1. CASE Rethrow \/ Finalize
  <2>1. ~Active'
    BY <1>1 DEF Rethrow, Finalize, Active
  <2> QED BY <2>1 DEF Retraced
<1>2. CASE SkipHeld \/ StopAtLimit \/ Race \/ NextPass \/ Abort \/ UNCHANGED vars
  <2>1. /\ UNCHANGED <<status, task, pending, rehydrated, activated>>
        /\ Active' => Active
        /\ \/ phase' = phase /\ downstream' = downstream
           \/ phase # "fanout"
           \/ downstream = << >>
    BY <1>2 DEF SkipHeld, StopAtLimit, Race, NextPass, Abort, vars, loopVars, taskVars, nodeVars,
       runVars, Active
  <2>2. \A m \in Node : Triggered(m)' <=> Triggered(m) BY TriggeredMoves
  <2>3. \A m : ~In(m, << >>) BY DEF In
  <2> SUFFICES ASSUME Active PROVE HandedOn' /\ \A p \in Node : RetracedBy(p)'
    BY <2>1 DEF Retraced
  <2>4. HandedOn /\ \A p \in Node : RetracedBy(p) BY DEF Retraced
  <2>5. \A p \in Node : RetracedBy(p)' BY <2>1, <2>4, RetracedSame DEF SameLeft
  <2>6. HandedOn' BY <2>1, <2>2, <2>3, <2>4, HandedOnKept
  <2> QED BY <2>5, <2>6
<1> QED BY <1>1, <1>2 DEF Quietly

\* A step of the loop itself.
LEMMA RetraceMoves ==
  ASSUME SessionInv, Careful, Retraceable, RunInv, RetraceInv,
         OrchestrateAndRecord \/ (Abort /\ UNCHANGED session) \/ SessionOver
           \/ UNCHANGED sessionVars
  PROVE  RetraceInv'
<1>1. /\ session \in Seq(Turn) /\ Now \in Nat \ {0} /\ DOMAIN session = 1..Now /\ IInv
      /\ Forest /\ Once /\ Traces /\ Matched /\ Single /\ Founded /\ Retraced
  BY SessionAssumption DEF SessionInv, SessionTypeOK, RunInv, Now, Careful, RetraceInv
<1>2. LoopMoves
  BY DEF OrchestrateAndRecord, LoopStep, LoopMoves, Quietly, Starts, Delivers, SessionOver,
     sessionVars
<1>3. session' = session \/ session' = [session EXCEPT ![Now].emitted = TRUE]
  BY DEF OrchestrateAndRecord, SessionOver, sessionVars
<1>4. /\ session' \in Seq(Turn) /\ Now' = Now
      /\ \A t \in 1..Now : t # Now => session'[t] = session[t]
      /\ session'[Now].events = session[Now].events
  <2>1. CASE session' = session BY <1>1, <2>1 DEF Now
  <2>2. CASE session' = [session EXCEPT ![Now].emitted = TRUE] BY <1>1, <2>2, EmittedFacts
  <2> QED BY <1>3, <2>1, <2>2
<1>5. SameEvents
  <2>1. session' \in Seq(Turn) => DOMAIN session' = 1..Now' BY DEF Now
  <2> QED BY <1>1, <1>4, <2>1 DEF SameEvents
<1>6. SameLeft BY <1>1, <1>4, LeftLater DEF SameLeft
<1>7. Single'
  <2>1. Now \in DOMAIN session BY <1>1
  <2> QED BY <1>1, <1>2, <1>5, <2>1, SingleMoves
<1>8. Founded' BY <1>1, <1>2, <1>5, <1>6, FoundedMoves
<1>9. Retraced'
  <2>1. CASE Quietly BY <1>1, <1>4, <1>6, <2>1, RetracedQuiet
  <2>2. CASE Fanout BY <1>1, <1>4, <1>6, <2>2, RetracedFanout
  <2>3. ASSUME NEW n \in Node, Starts(n) PROVE Retraced'
    BY <1>1, <1>4, <1>6, <2>3, RetracedStart
  <2>4. ASSUME NEW n \in Node, Delivers(n) PROVE Retraced'
    BY <1>1, <1>4, <1>6, <2>4, RetracedCompletion, RetracedDeliver DEF Delivers
  <2> QED BY <1>2, <2>1, <2>2, <2>3, <2>4 DEF LoopMoves
<1> QED BY <1>7, <1>8, <1>9 DEF RetraceInv

\* A body that ends leaves one event at most, with its routes and questions.
LeavesOne(n, k, e, es) ==
  /\ Settle(n, k, e) /\ e \in Behaviour[n] /\ Record(n, es)
  /\ es \in Seq(NodeEvent) /\ Len(es) <= 1
  /\ \A x : In(x, es) => x.routes = e.routes /\ x.ids = e.ids
  /\ e.yields \/ e.routes # {} \/ e.ids # {} => es # << >>

LEMMA SettleOne ==
  ASSUME IInv, Dispersed = {}, NEW r \in live, NEW e \in Endings(r[1]),
         SettleAndRecord(r[1], r[2], e)
  PROVE  \E n \in Node, k \in Nat, es \in Seq(NodeEvent) : r = <<n, k>> /\ LeavesOne(n, k, e, es)
<1>1. PICK n \in Node, k \in Nat : r = <<n, k>> BY DEF IInv, TypeOK
<1> DEFINE out == IF e.yields THEN {<<n, k>>} ELSE {}
           es == EventsOf(n, out, e.routes, e.ids)
           whole == Part(n, out, e.routes, e.ids)
<1>2. e \in Behaviour[n] /\ e \in Ending BY <1>1, BoundAssumption DEF Endings
<1>3. out \in Value /\ e.routes \in SUBSET Route /\ e.ids \in SUBSET Interrupt
  BY <1>2 DEF Value, Token, Ending
<1>4. Settle(n, k, e) /\ Record(n, es) BY <1>1 DEF SettleAndRecord
<1>5. e.yields => out # {} OBVIOUS
<1> HIDE DEF out
<1>6. whole \in NodeEvent /\ whole.routes = e.routes /\ whole.ids = e.ids
  BY <1>3 DEF Part, NodeEvent, IInv, TypeOK, Value
<1>7. es = IF out = {} /\ e.routes = {} /\ e.ids = {} THEN << >> ELSE <<whole>>
  BY DEF EventsOf
<1> HIDE DEF whole, es
<1>8. /\ <<whole>> \in Seq(NodeEvent) /\ Len(<<whole>>) <= 1 /\ <<whole>> # << >>
      /\ \A x : In(x, <<whole>>) => x = whole
  BY <1>6 DEF In
<1>9. << >> \in Seq(NodeEvent) /\ Len(<< >>) <= 1 /\ \A x : ~In(x, << >>) BY DEF In
<1>10. LeavesOne(n, k, e, es)
  <2>1. es \in Seq(NodeEvent) /\ Len(es) <= 1 /\ \A x : In(x, es) => x = whole
    BY <1>7, <1>8, <1>9
  <2>2. e.yields \/ e.routes # {} \/ e.ids # {} => es # << >> BY <1>5, <1>7, <1>8
  <2> QED BY <1>2, <1>4, <1>6, <2>1, <2>2 DEF LeavesOne
<1>11. es \in Seq(NodeEvent) BY <1>10 DEF LeavesOne
<1> QED BY <1>1, <1>10, <1>11, Zenon

LEMMA RetraceSettle ==
  ASSUME SessionInv, Careful, Retraceable, RunInv, RetraceInv, NEW r \in live,
         NEW e \in Endings(r[1]), SettleAndRecord(r[1], r[2], e)
  PROVE  RetraceInv'
<1>1. /\ IInv /\ TypeOK /\ Accounted /\ session \in Seq(Turn) /\ Now \in 1..MaxTurns
      /\ Now \in Nat \ {0} /\ DOMAIN session = 1..Now
      /\ Forest /\ Once /\ Fresh /\ Single /\ Founded /\ Retraced /\ Dispersed = {}
  BY SessionAssumption DEF SessionInv, SessionTypeOK, RunInv, Now, Careful, RetraceInv, Retraceable, IInv
<1>2. PICK n \in Node, k \in Nat, es \in Seq(NodeEvent) : r = <<n, k>> /\ LeavesOne(n, k, e, es)
  BY <1>1, SettleOne
<1>3. /\ Settle(n, k, e) /\ e \in Behaviour[n] /\ Record(n, es) /\ Len(es) <= 1
      /\ \A x : In(x, es) => x.routes = e.routes /\ x.ids = e.ids
      /\ e.yields \/ e.routes # {} \/ e.ids # {} => es # << >>
  BY <1>2 DEF LeavesOne
<1>4. /\ n \in activated /\ session[Now].events[n] = << >>
      /\ \A q \in live : q[1] = n => q = r
  BY <1>1, <1>2 DEF Single
<1>5. /\ session' \in Seq(Turn) /\ Now' = Now
      /\ \A t \in 1..Now : t # Now => session'[t] = session[t]
      /\ \A m \in Node : m # n => session'[Now].events[m] = session[Now].events[m]
      /\ session'[Now].events[n] = es
  <2>1. session'[Now].events[n] = session[Now].events[n] \o es BY <1>1, <1>3, RecordFacts
  <2>2. << >> \o es = es BY ConcatEmptySeq
  <2> QED BY <1>1, <1>3, <1>4, <2>1, <2>2, RecordFacts
<1>6. /\ live' = live \ {r} /\ phase' = phase /\ phase \in {"race", "cleanup"}
      /\ UNCHANGED <<status, pending, activated, rehydrated, buffer, downstream, execs>>
  BY <1>2, <1>3 DEF Settle, bufVars, nodeVars, runVars
<1>7. ~HasEarlier(n)
  BY <1>1, <1>2, <1>6 DEF Fresh, Stopped
<1>8. /\ \A p : HasEarlier(p)' <=> HasEarlier(p)
      /\ \A p \in Node : p # n => \A t, x : Left(p, t, x)' <=> Left(p, t, x)
      /\ \A t, x : Left(n, t, x)' <=> Left(n, t, x) \/ (t = Now /\ In(x, es))
  <2>1. /\ \A p : HasEarlier(p)' <=> HasEarlier(p)
        /\ \A p : session'[Now].events[p] = session[Now].events[p] =>
             \A t, x : Left(p, t, x)' <=> Left(p, t, x)
        /\ \A p : session[Now].events[p] = << >> =>
             \A t, x : Left(p, t, x)' <=>
               Left(p, t, x) \/ (t = Now /\ In(x, session'[Now].events[p]))
    BY <1>1, <1>5, LeftLater
  <2>2. \A p \in Node : p # n => \A t, x : Left(p, t, x)' <=> Left(p, t, x)
    <3> SUFFICES ASSUME NEW p \in Node, p # n PROVE \A t, x : Left(p, t, x)' <=> Left(p, t, x)
      OBVIOUS
    <3>1. session'[Now].events[p] = session[Now].events[p] BY <1>5
    <3> QED BY <2>1, <3>1, Zenon
  <2>3. session'[Now].events[n] = es /\ session[Now].events[n] = << >> BY <1>4, <1>5
  <2>4. \A t, x : Left(n, t, x)' <=>
          Left(n, t, x) \/ (t = Now /\ In(x, session'[Now].events[n]))
    BY <2>1, <2>3, Zenon
  <2> QED BY <2>1, <2>2, <2>3, <2>4
<1>9. \A t, x : ~Left(n, t, x)
  <2>1. \A x : ~In(x, << >>) BY DEF In
  <2> QED BY <1>4, <1>7, <2>1 DEF Left, InRun, HasEarlier
<1>10. Single'
  <2>1. DOMAIN session' = 1..Now
    <3>1. session' \in Seq(Turn) => DOMAIN session' = 1..Now' BY DEF Now
    <3> QED BY <1>5, <3>1
  <2>2. \A t \in DOMAIN session', m \in Node : Len(session'[t].events[m]) <= 1
    BY <1>1, <1>3, <1>5, <2>1 DEF Single
  <2>3. \A q \in live' : q \in live /\ q[1] # n BY <1>4, <1>6
  <2>4. live \subseteq Node \X Nat BY <1>1 DEF TypeOK
  <2>5. \A q \in live : q[1] \in Node BY <2>4
  <2>6. \A q \in live' : /\ q[1] \in activated' /\ session'[Now'].events[q[1]] = << >>
                         /\ \A s \in live' : s[1] = q[1] => s = q
    BY <1>1, <1>5, <1>6, <2>3, <2>5 DEF Single
  <2>7. \A m \in Node : session'[Now'].events[m] # << >> => m \in activated'
    BY <1>1, <1>4, <1>5, <1>6 DEF Single
  <2> QED BY <2>2, <2>6, <2>7 DEF Single
<1>11. \A m : Triggered(m)' <=> Triggered(m) BY <1>6 DEF Triggered
<1>12. Founded'
  <2>1. \A p \in Node : \A t, x : Left(p, t, x) => Left(p, t, x)' BY <1>8
  <2>2. \A m, u : Grounded(m, u) => Grounded(m, u)' BY <2>1, GroundedLater
  <2>3. ~Stopped /\ ~Stopped' /\ phase' # "fanout" BY <1>6 DEF Stopped
  <2>4. Triggered(n) BY <1>4 DEF Triggered
  <2>5. \A m \in Node : \A t, x : Left(m, t, x)' => Grounded(m, t)'
    <3>1. Grounded(n, Now) BY <1>1, <2>3, <2>4 DEF Founded
    <3> QED BY <1>1, <1>8, <1>9, <2>2, <3>1 DEF Founded
  <2>6. \A m \in Node : /\ Triggered(m)' => Grounded(m, Now)'
                        /\ In(m, StartTargets) => Triggered(m)'
    BY <1>1, <1>5, <1>11, <2>2, <2>3 DEF Founded
  <2> QED BY <2>3, <2>5, <2>6 DEF Founded
<1>13. Retraced'
  <2> SUFFICES ASSUME Active' PROVE HandedOn' /\ \A p \in Node : RetracedBy(p)'
    BY DEF Retraced
  <2>1. phase = "race" /\ HandedOn /\ \A p \in Node : RetracedBy(p)
    BY <1>1, <1>6 DEF Active, Retraced
  <2>2. In(n, pending) /\ k = execs[n] /\ status[n] = "RUNNING"
    <3>1. ~Failing BY <2>1 DEF Failing
    <3>2. In(r[1], pending) /\ r[2] = execs[r[1]] BY <1>1, <3>1 DEF Accounted, LiveIsPending
    <3> QED BY <1>1, <1>2, <3>2 DEF IInv, Tracked
  <2>3. /\ \A p \in Node : p # n => task'[p] = task[p]
        /\ task'[n].kind = e.kind /\ task'[n].routes = e.routes /\ task'[n].ids = e.ids
    BY <1>1, <1>3, <2>2 DEF Settle, TypeOK
  <2>4. RetracedBy(n)'
    <3>1. rehydrated[n] = << >> BY <1>4, <2>1 DEF RetracedBy
    <3>2. ~HasEarlier(n)' BY <1>7, <1>8
    <3>3. \A t, x : Left(n, t, x)' => x.routes = task'[n].routes BY <1>3, <1>8, <1>9, <2>3
    <3>4. task'[n].kind = "done" /\ task'[n].ids = {} => Completes(n)'
      <4> SUFFICES ASSUME e.kind = "done", e.ids = {} PROVE Completes(n)'
        BY <2>3
      <4>1. es # << >> BY <1>3 DEF Retraceable
      <4>2. In(Head(es), es) /\ Head(es).ids = {} BY <1>3, <4>1, HeadFacts
      <4>3. Left(n, Now, Head(es))' /\ Closed(Now, Head(es), Now)
        <5>1. Left(n, Now, Head(es))' <=> Left(n, Now, Head(es)) \/ In(Head(es), es)
          BY <1>5, <1>8
        <5> QED BY <4>2, <5>1 DEF Closed
      <4> QED BY <1>5, <4>3 DEF Completes, Closed
    <3> QED BY <1>6, <2>2, <3>1, <3>2, <3>3, <3>4 DEF RetracedBy, OnRoutes
  <2>5. \A p \in Node : p # n => RetracedBy(p)' BY <1>5, <1>6, <1>8, <2>1, <2>3, RetracedSame
  <2>6. HandedOn'
    <3>1. \A m \in Node : Awaited(m) => Awaited(m)' BY <1>6, <1>11 DEF Awaited, AllCompleted
    <3> QED BY <1>6, <1>8, <2>1, <2>2, <3>1 DEF HandedOn
  <2> QED BY <2>4, <2>5, <2>6
<1> QED BY <1>10, <1>12, <1>13 DEF RetraceInv

\* The turn that follows belongs to the run in progress, or a new run begins.
LEMMA NewTurnLeft ==
  ASSUME session \in Seq(Turn), Now \in Nat \ {0}, NEW ids \in SUBSET Interrupt,
         NEW b \in BOOLEAN, session' = Append(session, NewTurn(ids, b))
  PROVE  /\ InRun' = EventsForCurrentRun(session) \cup {Now + 1}
         /\ \/ \A p \in Node : \A t, e : ~Left(p, t, e)'
            \/ \A p \in Node : \A t, e : Left(p, t, e)' <=> Left(p, t, e)
         /\ \A p \in Node : \A t, e : Left(p, t, e)' => HasEarlier(p)'
<1> DEFINE kept == EventsForCurrentRun(session)
<1>1. /\ Now' = Now + 1 /\ \A t \in 1..Now : session'[t] = session[t]
      /\ \A n \in Node : session'[Now + 1].events[n] = << >>
  BY NewTurnFacts
<1>2. /\ Earlier' = kept /\ kept \subseteq Earlier \cup {Now} /\ kept \subseteq DOMAIN session
  BY NewEarlier
<1>3. /\ DOMAIN session = 1..Now /\ Len(session) = Now /\ Earlier \subseteq 1..(Now - 1)
      /\ \A t \in Earlier : t \in Nat
  BY EarlierFacts DEF Now
<1>4. kept # {} => Now \in kept /\ Earlier \subseteq kept
  <2> SUFFICES ASSUME NEW t \in kept PROVE Now \in kept /\ Earlier \subseteq kept
    OBVIOUS
  <2>1. t \in 1..Now BY <1>2, <1>3
  <2>2. PICK from \in 1..t : /\ session[from].emitted /\ session[from].paused
                             /\ \A u \in from..Now : session[u].emitted => session[u].paused
    BY <1>3 DEF EventsForCurrentRun
  <2>3. from \in 1..Now /\ Now \in from..Now BY <2>1, <2>2
  <2>4. Now \in kept BY <1>3, <2>2, <2>3 DEF EventsForCurrentRun
  <2>5. ASSUME NEW v \in Earlier PROVE v \in kept
    <3> DEFINE s == SubSeq(session, 1, Now - 1)
    <3>1. Now - 1 \in Nat /\ Now - 1 <= Len(session) BY <1>3
    <3>2. /\ Len(s) = Now - 1 /\ DOMAIN s = 1..(Now - 1)
          /\ \A i \in 1..(Now - 1) : s[i] = session[i]
      BY <3>1, PrefixFacts
    <3>3. v \in EventsForCurrentRun(s) BY DEF Earlier
    <3> HIDE DEF s
    <3>4. v \in 1..(Now - 1) BY <1>3
    <3>5. PICK start \in 1..v : /\ s[start].emitted /\ s[start].paused
                                /\ \A u \in start..(Now - 1) : s[u].emitted => s[u].paused
      BY <3>2, <3>3 DEF EventsForCurrentRun
    <3>6. start \in 1..(Now - 1) /\ \A u \in start..(Now - 1) : u \in 1..(Now - 1)
      BY <3>4, <3>5
    <3>7. session[start].emitted /\ session[start].paused BY <3>2, <3>5, <3>6
    <3>8. ASSUME NEW u \in start..Now PROVE session[u].emitted => session[u].paused
      <4>1. CASE u = Now BY <2>2, <2>3, <4>1
      <4>2. CASE u # Now
        <5>1. u \in start..(Now - 1) BY <3>6, <4>2
        <5> QED BY <3>2, <3>5, <3>6, <5>1
      <4> QED BY <4>1, <4>2
    <3>9. v \in 1..Now BY <3>4
    <3> QED BY <1>3, <3>5, <3>7, <3>8, <3>9 DEF EventsForCurrentRun
  <2> QED BY <2>4, <2>5
<1>5. InRun' = kept \cup {Now + 1} BY <1>1, <1>2 DEF InRun
<1> HIDE DEF kept
<1>6. \A p \in Node : \A t, e : Left(p, t, e)' <=> t \in kept /\ In(e, session[t].events[p])
  <2>1. \A e : ~In(e, << >>) BY DEF In
  <2>2. \A t \in kept : session'[t] = session[t] BY <1>1, <1>2, <1>3
  <2> QED BY <1>1, <1>5, <2>1, <2>2 DEF Left
<1>7. CASE kept = {} BY <1>5, <1>6, <1>7 DEF kept
<1>8. CASE kept # {}
  <2>1. kept = InRun BY <1>2, <1>4, <1>8 DEF InRun
  <2>2. \A p \in Node : \A t, e : Left(p, t, e)' <=> Left(p, t, e) BY <1>6, <2>1 DEF Left
  <2>3. ASSUME NEW p \in Node, NEW t, NEW e, Left(p, t, e)' PROVE HasEarlier(p)'
    <3>1. t \in kept /\ In(e, session[t].events[p]) BY <1>6, <2>3
    <3>2. session[t].events[p] # << >> BY <3>1 DEF In
    <3>3. session'[t] = session[t] BY <1>1, <1>2, <1>3, <3>1
    <3> QED BY <1>2, <3>1, <3>2, <3>3 DEF HasEarlier
  <2> QED BY <1>5, <2>2, <2>3 DEF kept
<1> QED BY <1>7, <1>8

\* Of a node that left one thing in the turns that are kept, that is what it
\* resumes from, and nothing else.
LEMMA ThePriorOnly ==
  ASSUME NEW s \in Seq(Turn), NEW turns, NEW n \in Node,
         \A t \in DOMAIN s : Len(s[t].events[n]) <= 1,
         \A t, u \in DOMAIN s : t \in turns /\ u \in turns /\ s[t].events[n] # << >>
                                  /\ s[u].events[n] # << >> => t = u,
         NEW prior, prior = ReconstructNodeRuns(s, turns)[n], prior # << >>
  PROVE  /\ \E t \in DOMAIN s : t \in turns /\ s[t].events[n] # << >>
         /\ Tail(prior) = << >>
         /\ \A u \in DOMAIN s : \A f : u \in turns /\ In(f, s[u].events[n]) =>
              Head(prior).routes = f.routes /\ Head(prior).ids = f.ids
<1> DEFINE parts == [t \in DOMAIN s |-> IF t \in turns THEN s[t].events[n] ELSE << >>]
           es == NodeEventsIn(s, turns, n)
           Run(e) == [out |-> e.out, routes |-> e.routes, ids |-> e.ids,
                      answered |-> e.ids \cap ResolvedIn(s, turns), input |-> e.input]
<1>1. es \in Seq(NodeEvent) /\ \A e : In(e, es) <=>
        \E u \in DOMAIN s : u \in turns /\ In(e, s[u].events[n])
  BY NodeEventsFacts
<1>2. prior = [i \in DOMAIN es |-> Run(es[i])] BY DEF ReconstructNodeRuns
<1>3. \A t \in DOMAIN s : s[t].events[n] \in Seq(NodeEvent) BY EventFacts
<1>4. parts \in Seq(Seq(NodeEvent)) /\ DOMAIN parts = DOMAIN s /\ DOMAIN s = 1..Len(parts)
      /\ \A t \in DOMAIN s : parts[t] = IF t \in turns THEN s[t].events[n] ELSE << >>
  <2>1. parts \in [1..Len(s) -> Seq(NodeEvent)] /\ Len(s) \in Nat BY <1>3
  <2>2. \A t \in DOMAIN s : parts[t] = IF t \in turns THEN s[t].events[n] ELSE << >>
    OBVIOUS
  <2>3. DOMAIN s = 1..Len(s) OBVIOUS
  <2> HIDE DEF parts
  <2> QED BY <2>1, <2>2, <2>3
<1>5. es = FlattenSeq(parts) BY DEF NodeEventsIn
<1> HIDE DEF es, parts
<1>6. es # << >>
  <2>1. es = << >> => DOMAIN es = {} OBVIOUS
  <2>2. ASSUME es = << >> PROVE prior = << >>
    <3> HIDE DEF Run
    <3> QED BY <1>2, <2>1, <2>2
  <2> QED BY <2>2
<1>7. In(Head(es), es) BY <1>1, <1>6, HeadFacts
<1>8. PICK t \in DOMAIN s : t \in turns /\ In(Head(es), s[t].events[n]) BY <1>1, <1>7
<1>9. s[t].events[n] # << >> BY <1>3, <1>8, HeadFacts
<1>10. \A i \in 1..Len(parts) : i # t => parts[i] = << >> BY <1>4, <1>8, <1>9
<1>11. es = s[t].events[n]
  <2>1. t \in 1..Len(parts) BY <1>4
  <2>2. FlattenSeq(parts) = parts[t] BY <1>4, <1>10, <2>1, FlattenSingle
  <2> QED BY <1>4, <1>5, <1>8, <2>2
<1>12. Len(es) = 1 /\ DOMAIN es = {1} /\ es[1] = Head(es)
  <2>1. Len(es) <= 1 /\ es \in Seq(NodeEvent) BY <1>1, <1>11
  <2>2. Len(es) # 0 /\ Len(es) \in Nat /\ DOMAIN es = 1..Len(es)
    BY <1>6, <2>1, EmptySeq
  <2>3. Len(es) = 1
    <3>1. \A k \in Nat : k <= 1 /\ k # 0 => k = 1
      OBVIOUS
    <3> QED BY <2>1, <2>2, <3>1, Zenon
  <2>4. Head(es) = es[1]
    <3>1. \A q \in Seq(NodeEvent) : q # << >> => Head(q) = q[1]
      OBVIOUS
    <3> QED BY <1>6, <2>1, <3>1
  <2>5. 1..1 = {1}
    OBVIOUS
  <2> QED BY <2>2, <2>3, <2>4, <2>5
<1>13. prior = <<Run(Head(es))>>
  <2> HIDE DEF Run
  <2>1. prior = [i \in {1} |-> Run(Head(es))] BY <1>2, <1>12
  <2>2. \A x : [i \in {1} |-> x] = <<x>>
    OBVIOUS
  <2> QED BY <2>1, <2>2
<1>14. Head(prior) = Run(Head(es)) /\ Tail(prior) = << >>
  <2>1. \A x : Head(<<x>>) = x /\ Tail(<<x>>) = << >>
    OBVIOUS
  <2> HIDE DEF Run
  <2> QED BY <1>13, <2>1
<1>15. ASSUME NEW u \in DOMAIN s, NEW f, u \in turns, In(f, s[u].events[n])
       PROVE  Head(prior).routes = f.routes /\ Head(prior).ids = f.ids
  <2>1. s[u].events[n] # << >> BY <1>3, <1>15, HeadFacts
  <2>2. u = t BY <1>8, <1>9, <1>15, <2>1
  <2>3. f = Head(es) BY <1>11, <1>12, <1>15, <2>2 DEF In
  <2> QED BY <1>14, <2>3
<1> QED BY <1>8, <1>9, <1>14, <1>15

\* Where a turn begins, what it resumes from is what the run has left.
LEMMA RetraceBegins ==
  ASSUME Begins, \A t \in DOMAIN session, n \in Node : Len(session[t].events[n]) <= 1,
         \A n \in Node : session[Now].events[n] = << >>,
         \A n \in Node : \A t, e : Left(n, t, e) => Grounded(n, t),
         \A n \in Node : rehydrated[n] # << >> =>
           /\ HasEarlier(n) /\ Tail(rehydrated[n]) = << >>
           /\ \A t, e : Left(n, t, e) => ThePrior(n).routes = e.routes /\ ThePrior(n).ids = e.ids
  PROVE  RetraceInv
<1>1. /\ phase = "schedule" /\ live = {} /\ activated = {} /\ pending = << >>
      /\ \A n \in Node : status[n] = "NONE"
      /\ \A n \in Node : buffer[n] = IF In(n, StartTargets) THEN <<{}>> ELSE << >>
  BY DEF Begins, None, SeedBuffer
<1>2. Single BY <1>1 DEF Single
<1>3. \A n \in Node : Triggered(n) <=> In(n, StartTargets)
  <2>1. <<{}>> # << >>
    OBVIOUS
  <2> QED BY <1>1, <2>1 DEF Triggered
<1>4. Founded BY <1>1, <1>3 DEF Founded, Grounded
<1>5. \A n : ~In(n, << >>) BY DEF In
<1>6. Retraced BY <1>1, <1>5 DEF Retraced, RetracedBy, HandedOn
<1> QED BY <1>2, <1>4, <1>6 DEF RetraceInv

\* The next message continues the run, or begins another.
LEMMA RetraceResume ==
  ASSUME SessionInv, Careful, RunInv, RetraceInv, Begins', OncePerRun',
         PlainText \/ \E ids \in SUBSET Interrupt : Reply(ids)
  PROVE  RetraceInv'
<1> DEFINE kept == EventsForCurrentRun(session)
<1>1. session \in Seq(Turn) /\ Now \in Nat \ {0} /\ DOMAIN session = 1..Now /\ Single /\ Founded
  BY SessionAssumption DEF SessionInv, SessionTypeOK, Now, RetraceInv
<1>2. PICK ids \in SUBSET Interrupt :
        /\ session' = Append(session, NewTurn(ids, FALSE))
        /\ rehydrated' = ReconstructNodeRuns(session', kept \cup {Now + 1})
  <2>1. {} \in SUBSET Interrupt OBVIOUS
  <2>2. CASE PlainText BY <2>1, <2>2 DEF PlainText, Resume, Restart
  <2>3. ASSUME NEW ids \in SUBSET Interrupt, Reply(ids)
        PROVE  /\ session' = Append(session, NewTurn(ids, FALSE))
               /\ rehydrated' = ReconstructNodeRuns(session', kept \cup {Now + 1})
    BY <2>3 DEF Reply, Resume, Restart
  <2> HIDE DEF kept
  <2> QED BY <2>2, <2>3
<1>3. /\ session' \in Seq(Turn) /\ Now' = Now + 1 /\ DOMAIN session' = 1..(Now + 1)
      /\ \A t \in 1..Now : session'[t] = session[t]
      /\ \A n \in Node : session'[Now + 1].events[n] = << >>
  <2>1. session' \in Seq(Turn) => DOMAIN session' = 1..Now' BY DEF Now
  <2> QED BY <1>1, <1>2, <2>1, NewTurnFacts
<1>4. InRun' = kept \cup {Now + 1}
  BY <1>1, <1>2, NewTurnLeft
<1>5. \/ \A p \in Node : \A t, e : ~Left(p, t, e)'
      \/ \A p \in Node : \A t, e : Left(p, t, e)' <=> Left(p, t, e)
  BY <1>1, <1>2, NewTurnLeft
<1>6. \A p \in Node : \A t, e : Left(p, t, e)' => HasEarlier(p)'
  BY <1>1, <1>2, NewTurnLeft
<1> HIDE DEF kept
<1>7. \A t \in DOMAIN session', n \in Node : Len(session'[t].events[n]) <= 1
  <2>1. Len(<< >>) <= 1
    OBVIOUS
  <2>2. \A t \in 1..(Now + 1) : t \in 1..Now \/ t = Now + 1 BY <1>1
  <2> QED BY <1>1, <1>3, <2>1, <2>2 DEF Single
<1>8. \A n \in Node : \A t, e : Left(n, t, e)' => Grounded(n, t)'
  <2>1. CASE \A p \in Node : \A t, e : ~Left(p, t, e)' BY <2>1
  <2>2. CASE \A p \in Node : \A t, e : Left(p, t, e)' <=> Left(p, t, e)
    <3>1. \A n, u : Grounded(n, u) => Grounded(n, u)' BY <2>2, GroundedLater
    <3> QED BY <1>1, <2>2, <3>1 DEF Founded
  <2> QED BY <1>5, <2>1, <2>2
<1>9. ASSUME NEW n \in Node, rehydrated'[n] # << >>
      PROVE  /\ HasEarlier(n)' /\ Tail(rehydrated'[n]) = << >>
             /\ \A t, e : Left(n, t, e)' =>
                  ThePrior(n)'.routes = e.routes /\ ThePrior(n)'.ids = e.ids
  <2> DEFINE turns == kept \cup {Now + 1}
  <2>1. rehydrated'[n] = ReconstructNodeRuns(session', turns)[n] BY <1>2
  <2>2. turns = InRun' /\ InRun' = Earlier' \cup {Now'} BY <1>4 DEF InRun
  <2> HIDE DEF turns
  <2>3. \A t, u \in DOMAIN session' : t \in turns /\ u \in turns
          /\ session'[t].events[n] # << >> /\ session'[u].events[n] # << >> => t = u
    <3>1. \A t, u \in turns : t < u /\ session'[t].events[n] # << >>
            => session'[u].events[n] = << >>
      BY <2>2 DEF OncePerRun
    <3>2. \A t, u \in 1..(Now + 1) : t < u \/ u < t \/ t = u BY <1>1
    <3> QED BY <1>3, <3>1, <3>2
  <2>4. \A t \in DOMAIN session' : Len(session'[t].events[n]) <= 1 BY <1>7
  <2> DEFINE prior == rehydrated'[n]
  <2>5. prior = ReconstructNodeRuns(session', turns)[n] /\ prior # << >> BY <1>9, <2>1
  <2>6. ThePrior(n)' = Head(prior) BY DEF ThePrior
  <2> HIDE DEF prior
  <2>7. /\ \E t \in DOMAIN session' : t \in turns /\ session'[t].events[n] # << >>
        /\ Tail(prior) = << >>
        /\ \A u \in DOMAIN session' : \A f : u \in turns /\ In(f, session'[u].events[n]) =>
             Head(prior).routes = f.routes /\ Head(prior).ids = f.ids
    BY <1>3, <2>3, <2>4, <2>5, ThePriorOnly
  <2>8. HasEarlier(n)'
    <3>1. PICK t \in DOMAIN session' : t \in turns /\ session'[t].events[n] # << >> BY <2>7
    <3>2. PICK e : In(e, session'[t].events[n]) BY <1>3, <3>1, EventFacts, HeadFacts
    <3>3. Left(n, t, e)' BY <2>2, <3>1, <3>2 DEF Left
    <3> QED BY <1>6, <3>3
  <2>9. \A t, e : Left(n, t, e)' => t \in turns /\ t \in DOMAIN session' /\ In(e, session'[t].events[n])
    <3>1. \A t, e : Left(n, t, e)' => t \in InRun' /\ In(e, session'[t].events[n])
      BY DEF Left
    <3>2. InRun' \subseteq DOMAIN session'
      <4>1. kept \subseteq 1..Now BY <1>1 DEF kept, EventsForCurrentRun
      <4>2. \A t \in 1..Now : t \in 1..(Now + 1) BY <1>1
      <4>3. Now + 1 \in 1..(Now + 1) BY <1>1
      <4> QED BY <1>3, <1>4, <4>1, <4>2, <4>3
    <3> QED BY <2>2, <3>1, <3>2
  <2> QED BY <2>6, <2>7, <2>8, <2>9 DEF prior
<1>10. \A n \in Node : session'[Now'].events[n] = << >> BY <1>3
<1>11. (/\ Begins
        /\ \A t \in DOMAIN session, n \in Node : Len(session[t].events[n]) <= 1
        /\ \A n \in Node : session[Now].events[n] = << >>
        /\ \A n \in Node : \A t, e : Left(n, t, e) => Grounded(n, t)
        /\ \A n \in Node : rehydrated[n] # << >> =>
             /\ HasEarlier(n) /\ Tail(rehydrated[n]) = << >>
             /\ \A t, e : Left(n, t, e) =>
                  ThePrior(n).routes = e.routes /\ ThePrior(n).ids = e.ids
        => RetraceInv)'
  BY RetraceBegins, PTL
<1> QED BY <1>7, <1>8, <1>9, <1>10, <1>11

\* A refused reply leaves the run as it was.
LEMMA RetraceRefuse ==
  ASSUME SessionInv, RetraceInv, NEW i \in Interrupt, RefuseReply(i)
  PROVE  RetraceInv'
<1>1. /\ session \in Seq(Turn) /\ Now \in Nat \ {0} /\ DOMAIN session = 1..Now
      /\ Single /\ Founded /\ live \subseteq Node \X Nat
  BY SessionAssumption DEF SessionInv, SessionTypeOK, Now, RetraceInv, IInv, TypeOK
<1>2. /\ session' = Append(session, NewTurn({i}, TRUE)) /\ {i} \in SUBSET Interrupt
      /\ phase' = "threw" /\ UNCHANGED <<live, activated>>
  BY DEF RefuseReply, bodyVars, runVars
<1>3. /\ session' \in Seq(Turn) /\ Now' = Now + 1 /\ DOMAIN session' = 1..(Now + 1)
      /\ \A t \in 1..Now : session'[t] = session[t]
      /\ \A n \in Node : session'[Now + 1].events[n] = << >>
  <2>1. session' \in Seq(Turn) => DOMAIN session' = 1..Now' BY DEF Now
  <2> QED BY <1>1, <1>2, <2>1, NewTurnFacts
<1>4. Single'
  <2>1. Len(<< >>) <= 1
    OBVIOUS
  <2>2. \A t \in 1..(Now + 1) : t \in 1..Now \/ t = Now + 1 BY <1>1
  <2>3. \A t \in DOMAIN session', n \in Node : Len(session'[t].events[n]) <= 1
    BY <1>1, <1>3, <2>1, <2>2 DEF Single
  <2>4. \A r \in live : r[1] \in Node BY <1>1
  <2>5. \A r \in live' : session'[Now'].events[r[1]] = << >> BY <1>2, <1>3, <2>4
  <2>6. \A n \in Node : session'[Now'].events[n] = << >> BY <1>3
  <2> QED BY <1>1, <1>2, <2>3, <2>5, <2>6 DEF Single
<1>5. Founded'
  <2>1. \/ \A p \in Node : \A t, e : ~Left(p, t, e)'
        \/ \A p \in Node : \A t, e : Left(p, t, e)' <=> Left(p, t, e)
    BY <1>1, <1>2, NewTurnLeft
  <2>2. Stopped' /\ phase' # "fanout" BY <1>2 DEF Stopped
  <2>3. CASE \A p \in Node : \A t, e : ~Left(p, t, e)' BY <2>2, <2>3 DEF Founded
  <2>4. CASE \A p \in Node : \A t, e : Left(p, t, e)' <=> Left(p, t, e)
    <3>1. \A n, u : Grounded(n, u) => Grounded(n, u)' BY <2>4, GroundedLater
    <3> QED BY <1>1, <2>2, <2>4, <3>1 DEF Founded
  <2> QED BY <2>1, <2>3, <2>4
<1>6. Retraced' BY <1>2 DEF Retraced, Active
<1> QED BY <1>4, <1>5, <1>6 DEF RetraceInv

LEMMA RetraceInit == SessionInit /\ Retraceable => RetraceInv
<1> SUFFICES ASSUME SessionInit, Retraceable PROVE RetraceInv
  OBVIOUS
<1>1. Begins BY InitBegins DEF SessionInit
<1> DEFINE T == NewTurn({}, FALSE)
<1>2. \A n \in Node : T.events[n] = << >> BY DEF NewTurn
<1>3. session = <<T>> BY DEF SessionInit
<1> HIDE DEF T
<1>4. Now = 1 /\ DOMAIN session = {1} /\ session[1] = T BY <1>3 DEF Now
<1>5. InRun = {1}
  <2>1. DOMAIN SubSeq(session, 1, Now - 1) = {} BY <1>3, <1>4
  <2> QED BY <1>4, <2>1 DEF InRun, Earlier, EventsForCurrentRun
<1>6. \A e : ~In(e, << >>) BY DEF In
<1>7. \A n \in Node : \A t, e : ~Left(n, t, e) BY <1>2, <1>4, <1>5, <1>6 DEF Left
<1>8. \A n \in Node : rehydrated[n] = << >> BY DEF SessionInit, Init, Retraceable
<1>9. Len(<< >>) <= 1
  OBVIOUS
<1> QED BY <1>1, <1>2, <1>4, <1>7, <1>8, <1>9, RetraceBegins

LEMMA RetraceStep ==
  ASSUME SessionInv, Careful, Retraceable, RunInv, RetraceInv, [SessionNext]_sessionVars
  PROVE  RetraceInv'
<1>1. SessionInv' /\ RunInv' BY SessionInvStep, RunInvStep
<1>2. TypeOK /\ session \in Seq(Turn) BY DEF SessionInv, SessionTypeOK, IInv
<1>3. CASE OrchestrateAndRecord \/ (Abort /\ UNCHANGED session) \/ SessionOver
             \/ UNCHANGED sessionVars
  BY <1>3, RetraceMoves
<1>4. CASE \E r \in live : \E e \in Endings(r[1]) : SettleAndRecord(r[1], r[2], e)
  BY <1>4, RetraceSettle
<1>5. CASE PlainText \/ \E ids \in SUBSET Interrupt : Reply(ids)
  BY <1>1, <1>2, <1>5, UserBegins, RetraceResume DEF RunInv
<1>6. CASE \E i \in Interrupt : RefuseReply(i) BY <1>6, RetraceRefuse
<1> QED BY <1>3, <1>4, <1>5, <1>6 DEF SessionNext, SessionStep, UserStep

\* A turn that returns has matched all it could resume from.
Reused == phase = "returned" => \A n \in Node : rehydrated[n] = << >>

LEMMA ReusedFinalize ==
  ASSUME SessionInv, Careful, Retraceable, RunInv, RetraceInv, Finalize PROVE Reused'
<1>1. /\ IInv /\ Accounted /\ Forest /\ Once /\ Founded /\ Retraced
      /\ session \in Seq(Turn) /\ Now \in Nat \ {0}
  BY SessionAssumption DEF SessionInv, SessionTypeOK, Careful, RunInv, RetraceInv
<1>2. /\ phase = "schedule" /\ pending = << >> /\ ~Stopped
      /\ UNCHANGED <<rehydrated, buffer, status, activated>>
  BY DEF Finalize, Stopped, bufVars, nodeVars, runVars
<1>3. HandedOn /\ \A p \in Node : RetracedBy(p) BY <1>1, <1>2 DEF Retraced, Active
<1> SUFFICES ASSUME phase' = "returned", NEW m \in Node, rehydrated[m] # << >> PROVE FALSE
  BY <1>2 DEF Reused
<1>4. \A n \in Node : Triggered(n) => n \in activated
  <2>1. NoRunnableTriggerLost'
    <3>1. NoRunnableTriggerLost BY <1>2 DEF NoRunnableTriggerLost
    <3>2. [Next]_vars BY DEF Next, LoopStep
    <3> QED BY <1>1, <3>1, <3>2, LosesNoTrigger
  <2>2. \A n \in Node : buffer[n] # << >> => status[n] = "WAITING"
    BY <1>2, <2>1 DEF NoRunnableTriggerLost
  <2> QED BY <1>1, <2>2 DEF Once, Triggered
<1> DEFINE S == {n \in Node : HasEarlier(n) /\ n \notin activated}
<1>5. m \in S BY <1>3 DEF RetracedBy
<1>6. PICK n \in S : Preds[n] \cap S = {} BY <1>5 DEF Retraceable
<1>7. PICK t \in Earlier : session[t].events[n] # << >> BY <1>6 DEF HasEarlier
<1>8. t \in 1..(Now - 1) /\ t \in DOMAIN session BY <1>1, <1>7, EarlierFacts
<1>9. Left(n, t, Head(session[t].events[n]))
  BY <1>1, <1>6, <1>7, <1>8, EventFacts, HeadFacts DEF Left, InRun
<1>10. Grounded(n, t) BY <1>1, <1>6, <1>9 DEF Founded
<1>11. ~Triggered(n) BY <1>4, <1>6
<1>12. ~In(n, StartTargets) BY <1>1, <1>2, <1>6, <1>11 DEF Founded
<1>13. Preds[n] # {} /\ \A p \in Preds[n] : p \in Node /\ Leads(p, n, t)
  BY <1>10, <1>12 DEF Grounded
<1>14. ASSUME NEW p \in Preds[n]
       PROVE  status[p] = "COMPLETED" /\ Awaited(n)
  <2>1. p \in Node /\ Leads(p, n, t) BY <1>13
  <2>2. PICK u, f : Left(p, u, f) /\ Closed(u, f, t) /\ In(n, Targets[p][f.routes])
    BY <2>1 DEF Leads
  <2>3. u \in Earlier
    <3>1. u # Now
      <4>1. ~(Now < t) /\ Now # t BY <1>1, <1>8
      <4> QED BY <2>2, <4>1 DEF Closed
    <3> QED BY <2>2, <3>1 DEF Left, InRun
  <2>4. session[u].events[p] # << >> BY <2>2 DEF Left, In
  <2>5. HasEarlier(p) BY <2>3, <2>4 DEF HasEarlier
  <2>6. p \in activated BY <1>6, <2>1, <2>5
  <2>7. ~In(p, pending) BY <1>2 DEF In
  <2>8. status[p] # "RUNNING" BY <1>1, <1>2, <2>1, <2>7 DEF Accounted, RunningIsPending, Failing
  <2>9. status[p] = "COMPLETED" BY <1>3, <2>1, <2>5, <2>6, <2>8 DEF RetracedBy
  <2> QED BY <1>3, <1>6, <2>1, <2>2, <2>9 DEF HandedOn
<1>15. AllCompleted(n) BY <1>13, <1>14 DEF AllCompleted
<1> QED BY <1>2, <1>11, <1>13, <1>14, <1>15 DEF Awaited

LEMMA ReusedStep ==
  ASSUME SessionInv, Careful, Retraceable, RunInv, RetraceInv, Reused, [SessionNext]_sessionVars
  PROVE  Reused'
<1>1. TypeOK /\ session \in Seq(Turn) BY DEF SessionInv, SessionTypeOK, IInv
<1>2. CASE [Next]_vars
  <2>1. CASE Finalize BY <2>1, ReusedFinalize
  <2>2. CASE ~Finalize /\ phase' = "returned"
    <3>1. UNCHANGED vars
      BY <1>2, <2>2 DEF Next, Terminated, LoopStep, BodyStep, Abort, SkipHeld, StopAtLimit,
         FastForward, HandOver, StartBody, TakeTrigger, Ready, Race, DeliverError,
         DeliverInterrupt, DeliverWait, DeliverCompletion, Fanout, NextPass, Rethrow, Settle,
         loopVars
    <3> QED BY <3>1 DEF Reused, vars, loopVars, runVars
  <2>3. CASE phase' # "returned" BY <2>3 DEF Reused
  <2> QED BY <2>1, <2>2, <2>3
<1>3. CASE Begins' BY <1>3 DEF Begins, Reused
<1>4. CASE \E i \in Interrupt : RefuseReply(i) BY <1>4 DEF RefuseReply, Reused
<1> QED BY <1>1, <1>2, <1>3, <1>4, TurnCases

\* A turn that resumes a run and returns has matched every run it found in the
\* session with an activation, over any number of turns: none of the work that
\* is recorded is orphaned, when a join's predecessors lead to it on whatever
\* route they take (reconstructNodeRuns, startNodeTask).
THEOREM RecordedWorkIsKept ==
  SessionSpec =>
    [](Forest /\ CarefulClient /\ AsksOnly /\ Retraceable => RecordedWorkIsReused)
<1> DEFINE J == /\ SessionInv /\ (Careful => RunInv)
                /\ (Careful /\ Retraceable => RetraceInv /\ Reused)
<1>1. SessionInit => J
  <2>1. SessionInit => phase = "schedule" BY DEF SessionInit, Init
  <2> QED BY <2>1, SessionInvInit, RunInvInit, RetraceInit DEF Reused
<1>2. J /\ [SessionNext]_sessionVars => J'
  <2>1. (Careful' <=> Careful) /\ (Retraceable' <=> Retraceable)
    BY DEF Careful, Forest, AsksOnly, Retraceable
  <2> QED BY <2>1, SessionInvStep, RunInvStep, RetraceStep, ReusedStep
<1>3. J => (Forest /\ CarefulClient /\ AsksOnly /\ Retraceable => RecordedWorkIsReused)
  <2>1. DOMAIN << >> = {} OBVIOUS
  <2> QED BY <2>1 DEF Reused, RecordedWorkIsReused, Careful
<1> QED BY <1>1, <1>2, <1>3, PTL DEF SessionSpec
=============================================================================
