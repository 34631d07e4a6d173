---------------------------- MODULE LiveFlowProofs ----------------------------
(***************************************************************************)
(* Why a live session loses no request and leaves nothing reading: at most *)
(* one connection whose send loop started is not cut, it is the current    *)
(* one of the innermost flow, and only its send loop may wait in the queue.*)
(* A handle always names the last connection of its own flow that issued   *)
(* one, because a flow that transferred never comes back to its connection.*)
(***************************************************************************)
EXTENDS LiveFlow, TLAPS, SequenceTheorems

Busy == {"receive", "tool", "leaving", "teardown"}
Idle == {"connect", "done", "failed"}

\* Reads are parked on an open and empty queue only, each once.
QueueOK ==
  /\ next \in 1..(MaxRequests + 1)
  /\ waiters # << >> => queue = << >> /\ ~shut
  /\ \A i, j \in DOMAIN waiters : waiters[i] = waiters[j] => i = j
  /\ \A i \in DOMAIN waiters :
       waiters[i] \in DOMAIN conns /\ conns[waiters[i]].loop = "parked"

\* A connection that was cut is closed and reads nothing; one that was not is
\* that of the innermost flow, or its send loop never started.
ConnsOK ==
  \A c \in DOMAIN conns :
    /\ conns[c].cut => ~conns[c].open /\ conns[c].loop # "parked"
    /\ ~conns[c].cut => conns[c].loop = "off" \/ (c = Current /\ Top.at \in Busy)

\* The connections a flow opened itself.
Own(f) == {c \in DOMAIN conns : conns[c].flow = f.id}

\* The flows are nested in the order of the connections they left.
FlowsOK ==
  /\ \A d \in DOMAIN flows : flows[d].id <= Len(conns)
  /\ \A d, e \in DOMAIN flows : d < e => flows[d].id < flows[e].id /\ flows[d].at = "nested"
  /\ \A d \in DOMAIN flows : flows[d].at \notin Idle => flows[d].conn \in DOMAIN conns
  /\ Top.at \in {"history", "receive", "tool", "leaving"}
       => Current = Len(conns) /\ conns[Current].flow = Top.id
  /\ \A c \in DOMAIN conns : conns[c].flow < c

\* The handle of a flow is the latest one issued to it; a flow without one has
\* opened one connection at most, and does not reconnect.  A flow that failed
\* tells why.
HandlesOK ==
  \A d \in DOMAIN flows :
    /\ flows[d].at = "failed" => flows[d].why \in Kinds
    /\ flows[d].why = "reconnect" => flows[d].handle # 0
    /\ flows[d].handle = 0 /\ flows[d].at = "connect" => Own(flows[d]) = {}
    /\ flows[d].handle # 0 => /\ flows[d].handle \in Own(flows[d])
                              /\ conns[flows[d].handle].issued
    /\ \A c \in Own(flows[d]) : conns[c].issued => c <= flows[d].handle

IInv ==
  /\ TypeOK
  /\ QueueOK
  /\ ConnsOK
  /\ FlowsOK
  /\ HandlesOK
  /\ HandedOverInOrder
  /\ ResumesItsOwnSession

---------------------------------------------------------------------------
(* Lemmas about sequences                                                  *)

\* A function on the indices of a sequence is a sequence of its length.
LEMMA Retyped ==
  ASSUME NEW S, NEW s \in Seq(S), NEW T, NEW f \in [DOMAIN s -> T]
  PROVE  f \in Seq(T) /\ Len(f) = Len(s) /\ DOMAIN f = 1..Len(s)
<1>1. Len(s) \in Nat /\ DOMAIN s = 1..Len(s)
  BY LenProperties
<1> DEFINE n == Len(s)
<1>2. n \in Nat /\ f \in [1..n -> T]
  BY <1>1
<1>3. f \in Seq(T)
  <2> HIDE DEF n
  <2> QED BY <1>2, SeqDef
<1>4. DOMAIN f = 1..Len(f) /\ Len(f) \in Nat
  BY <1>3, LenProperties
<1> QED BY <1>1, <1>2, <1>3, <1>4

\* What RemoveAt leaves of a sequence, and where.
LEMMA Removed ==
  ASSUME NEW S, NEW s \in Seq(S), NEW k \in 1..Len(s)
  PROVE  /\ RemoveAt(s, k) \in Seq(S)
         /\ Len(RemoveAt(s, k)) = Len(s) - 1
         /\ \A i \in 1..(Len(s) - 1) :
              RemoveAt(s, k)[i] = s[IF i < k THEN i ELSE i + 1]
<1>1. Len(s) \in Nat /\ \A i \in 1..Len(s) : s[i] \in S
  BY LenProperties, ElementOfSeq
<1> DEFINE l == SubSeq(s, 1, k - 1)
           r == SubSeq(s, k + 1, Len(s))
<1>2. /\ l \in Seq(S) /\ Len(l) = k - 1
      /\ \A i \in 1..(k - 1) : l[i] = s[i]
  <2>1. \A i \in 1..(k - 1) : s[i] \in S
    BY <1>1
  <2>2. /\ l \in Seq(S) /\ Len(l) = IF 1 <= k - 1 THEN k - 1 - 1 + 1 ELSE 0
        /\ \A i \in 1..(k - 1 - 1 + 1) : l[i] = s[1 + i - 1]
    BY <2>1, SubSeqProperties
  <2> HIDE DEF l
  <2> QED BY <2>2
<1>3. /\ r \in Seq(S) /\ Len(r) = Len(s) - k
      /\ \A i \in 1..(Len(s) - k) : r[i] = s[k + i]
  <2>1. \A i \in (k + 1)..Len(s) : s[i] \in S
    BY <1>1
  <2>2. /\ r \in Seq(S)
        /\ Len(r) = IF k + 1 <= Len(s) THEN Len(s) - (k + 1) + 1 ELSE 0
        /\ \A i \in 1..(Len(s) - (k + 1) + 1) : r[i] = s[k + 1 + i - 1]
    BY <1>1, <2>1, SubSeqProperties
  <2> HIDE DEF r
  <2> QED BY <1>1, <2>2
<1>4. RemoveAt(s, k) = l \o r
  BY DEF RemoveAt
<1> HIDE DEF l, r
<1>5. /\ l \o r \in Seq(S) /\ Len(l \o r) = Len(s) - 1
      /\ \A i \in 1..(Len(s) - 1) : (l \o r)[i] = IF i <= Len(l) THEN l[i] ELSE r[i - Len(l)]
  BY <1>1, <1>2, <1>3, ConcatProperties
<1>6. \A i \in 1..(Len(s) - 1) : (l \o r)[i] = s[IF i < k THEN i ELSE i + 1]
  <2> SUFFICES ASSUME NEW i \in 1..(Len(s) - 1)
               PROVE  (l \o r)[i] = s[IF i < k THEN i ELSE i + 1]
    OBVIOUS
  <2>1. CASE i < k
    BY <1>1, <1>2, <1>5, <2>1
  <2>2. CASE ~(i < k)
    <3>1. i - (k - 1) \in 1..(Len(s) - k) /\ k + (i - (k - 1)) = i + 1
      BY <1>1, <2>2
    <3> QED BY <1>1, <1>2, <1>3, <1>5, <2>2, <3>1
  <2> QED BY <2>1, <2>2
<1> QED BY <1>4, <1>5, <1>6

---------------------------------------------------------------------------
(* Kinds of steps                                                          *)

\* The sequences of connections and flows as functions.
LEMMA Shapes ==
  ASSUME TypeOK
  PROVE  /\ Len(conns) \in Nat /\ DOMAIN conns = 1..Len(conns)
         /\ conns \in [1..Len(conns) -> Conn]
         /\ Depth \in Nat /\ Depth >= 1 /\ DOMAIN flows = 1..Depth
         /\ flows \in [1..Depth -> FlowState]
         /\ Top \in FlowState /\ Current \in Nat
<1>1. /\ Len(conns) \in Nat /\ DOMAIN conns = 1..Len(conns)
      /\ conns \in [1..Len(conns) -> Conn]
  BY LenProperties DEF TypeOK
<1>2. /\ Depth \in Nat /\ DOMAIN flows = 1..Depth /\ flows \in [1..Depth -> FlowState]
  BY LenProperties DEF TypeOK, Depth
<1>3. Depth >= 1
  BY <1>2, EmptySeq DEF TypeOK, Depth
<1>4. Top \in FlowState
  BY <1>2, <1>3 DEF Top
<1>5. Current \in Nat
  BY <1>4 DEF Current, FlowState
<1> QED BY <1>1, <1>2, <1>3, <1>4, <1>5

\* Setting the state of the innermost flow.
LEMMA SetTopTyped ==
  ASSUME TypeOK, NEW f \in FlowState, SetTop(f)
  PROVE  /\ flows' \in Seq(FlowState) /\ flows' # << >> /\ Depth' = Depth
         /\ DOMAIN flows' = DOMAIN flows /\ flows'[Depth] = f /\ Top' = f
         /\ \A d \in DOMAIN flows : d # Depth => flows'[d] = flows[d]
<1>1. /\ Depth \in Nat /\ Depth >= 1 /\ DOMAIN flows = 1..Depth
      /\ flows \in [1..Depth -> FlowState]
  BY Shapes
<1>2. flows' = [flows EXCEPT ![Depth] = f]
  BY DEF SetTop
<1>3. flows' \in [DOMAIN flows -> FlowState]
  BY <1>1, <1>2
<1>4. flows' \in Seq(FlowState) /\ Len(flows') = Len(flows) /\ DOMAIN flows' = 1..Len(flows)
  BY <1>3, Retyped DEF TypeOK
<1>5. flows' # << >>
  BY <1>1, <1>4, EmptySeq DEF Depth
<1>6. flows'[Depth] = f /\ \A d \in DOMAIN flows : d # Depth => flows'[d] = flows[d]
  BY <1>1, <1>2
<1> QED BY <1>1, <1>4, <1>5, <1>6 DEF Depth, Top

\* A step that opens no connection and tells no flow of a handle leaves the
\* sessions of the flows as they are.
LEMMA SessionsMoved ==
  ASSUME IInv, NEW f \in FlowState, SetTop(f),
         f.id = Top.id, f.handle = Top.handle, f.conn = Top.conn,
         f.at \in {"history", "receive", "tool", "leaving"}
           => Top.at \in {"history", "receive", "tool", "leaving"},
         f.at \notin Idle => Top.at \notin Idle,
         f.at = "failed" => f.why \in Kinds,
         f.why = "reconnect" => f.handle # 0,
         f.at = "connect" /\ f.handle = 0 => Top.at = "connect",
         conns' \in Seq(Conn), Len(conns') = Len(conns),
         \A c \in DOMAIN conns : /\ conns'[c].flow = conns[c].flow
                                 /\ conns'[c].resume = conns[c].resume
                                 /\ conns'[c].issued = conns[c].issued
  PROVE  FlowsOK' /\ HandlesOK' /\ ResumesItsOwnSession'
<1>1. /\ Depth \in Nat /\ Depth >= 1 /\ DOMAIN flows = 1..Depth
      /\ flows \in [1..Depth -> FlowState] /\ DOMAIN conns = 1..Len(conns) /\ Len(conns) \in Nat
  BY Shapes DEF IInv
<1>2. /\ flows' \in Seq(FlowState) /\ flows' # << >> /\ Depth' = Depth
      /\ DOMAIN flows' = DOMAIN flows /\ flows'[Depth] = f /\ Top' = f
      /\ \A d \in DOMAIN flows : d # Depth => flows'[d] = flows[d]
  BY SetTopTyped DEF IInv
<1>3. Top = flows[Depth] /\ Current = Top.conn /\ Current' = Current
  BY <1>2 DEF Top, Current
<1>4. DOMAIN conns' = DOMAIN conns
  BY <1>1, LenProperties
<1>5. FlowsOK'
  <2>1. \A d \in DOMAIN flows : flows'[d].id = flows[d].id
    BY <1>2, <1>3
  <2>2. \A d, e \in DOMAIN flows : d < e => d # Depth
    BY <1>1
  <2>3. \A d, e \in DOMAIN flows : d < e => flows'[d].at = "nested"
    BY <1>2, <2>2 DEF IInv, FlowsOK
  <2>4. \A d \in DOMAIN flows : flows'[d].at \notin Idle => flows'[d].conn \in DOMAIN conns
    BY <1>1, <1>2, <1>3 DEF IInv, FlowsOK
  <2>5. Top.at \in {"history", "receive", "tool", "leaving"} => Current \in DOMAIN conns
    BY <1>1, <1>3 DEF IInv, FlowsOK, Idle
  <2> QED BY <1>2, <1>3, <1>4, <2>1, <2>3, <2>4, <2>5 DEF IInv, FlowsOK
<1>6. HandlesOK'
  <2>1. \A d \in DOMAIN flows : Own(flows[d])' = Own(flows[d])
    BY <1>1, <1>2, <1>3, <1>4 DEF Own
  <2> SUFFICES ASSUME NEW d \in DOMAIN flows
               PROVE  /\ flows'[d].at = "failed" => flows'[d].why \in Kinds
                      /\ flows'[d].why = "reconnect" => flows'[d].handle # 0
                      /\ flows'[d].handle = 0 /\ flows'[d].at = "connect" => Own(flows[d])' = {}
                      /\ flows'[d].handle # 0 => /\ flows'[d].handle \in Own(flows[d])'
                                                 /\ conns'[flows'[d].handle].issued
                      /\ \A c \in Own(flows[d])' : conns'[c].issued => c <= flows'[d].handle
    BY <1>2 DEF HandlesOK
  <2>2. flows'[d].handle = flows[d].handle
    BY <1>2, <1>3
  <2>3. Own(flows[d]) \subseteq DOMAIN conns
    BY DEF Own
  <2> QED BY <1>1, <1>2, <1>3, <2>1, <2>2, <2>3 DEF IInv, HandlesOK
<1>7. ResumesItsOwnSession'
  <2> SUFFICES ASSUME NEW c \in DOMAIN conns
               PROVE  LET earlier == {b \in 1..(c - 1) : conns'[b].flow = conns'[c].flow}
                      IN IF conns'[c].resume = 0 THEN earlier = {}
                         ELSE /\ conns'[c].resume \in earlier /\ conns'[conns'[c].resume].issued
                              /\ \A b \in earlier : conns'[b].issued => b <= conns'[c].resume
    BY <1>4 DEF ResumesItsOwnSession
  <2>1. 1..(c - 1) \subseteq DOMAIN conns
    BY <1>1
  <2>2. {b \in 1..(c - 1) : conns'[b].flow = conns'[c].flow}
          = {b \in 1..(c - 1) : conns[b].flow = conns[c].flow}
    BY <2>1
  <2> QED BY <2>1, <2>2 DEF IInv, ResumesItsOwnSession
<1> QED BY <1>5, <1>6, <1>7

\* A step that leaves the flows alone too.
LEMMA SessionsKept ==
  ASSUME IInv, UNCHANGED flows, conns' \in Seq(Conn), Len(conns') = Len(conns),
         \A c \in DOMAIN conns : /\ conns'[c].flow = conns[c].flow
                                 /\ conns'[c].resume = conns[c].resume
                                 /\ conns'[c].issued = conns[c].issued
  PROVE  FlowsOK' /\ HandlesOK' /\ ResumesItsOwnSession'
<1>1. /\ Depth \in Nat /\ Depth >= 1 /\ DOMAIN flows = 1..Depth
      /\ flows \in [1..Depth -> FlowState] /\ Top \in FlowState
  BY Shapes DEF IInv
<1>2. SetTop(Top)
  BY <1>1 DEF SetTop, Top
<1>3. /\ Top.why = "reconnect" => Top.handle # 0
      /\ Top.at = "failed" => Top.why \in Kinds
  BY <1>1 DEF IInv, HandlesOK, Top
<1> QED BY <1>1, <1>2, <1>3, SessionsMoved

\* A step of one connection that leaves the queue and the flows alone.
LEMMA ConnMoved ==
  ASSUME IInv, UNCHANGED <<queueVars, flows>>,
         budget' \in Nat, aborted' \in BOOLEAN, gone' \in BOOLEAN,
         NEW c \in DOMAIN conns, NEW k \in Conn, conns' = [conns EXCEPT ![c] = k],
         k.flow = conns[c].flow, k.resume = conns[c].resume, k.issued = conns[c].issued,
         k.loop = conns[c].loop \/ (conns[c].loop # "parked" /\ k.loop # "parked"),
         k.cut => ~k.open /\ k.loop # "parked",
         conns[c].cut => k.cut, conns[c].loop = "off" => k.loop = "off",
         k.hand = Close => shut /\ queue = << >>
  PROVE  IInv'
<1>1. /\ DOMAIN conns = 1..Len(conns) /\ Len(conns) \in Nat
      /\ conns \in [1..Len(conns) -> Conn]
  BY Shapes DEF IInv
<1>2. conns' \in [DOMAIN conns -> Conn]
  BY <1>1
<1>3. conns' \in Seq(Conn) /\ Len(conns') = Len(conns) /\ DOMAIN conns' = DOMAIN conns
  BY <1>1, <1>2, Retyped DEF IInv, TypeOK
<1>4. conns'[c] = k /\ \A b \in DOMAIN conns : b # c => conns'[b] = conns[b]
  BY <1>1
<1>5. FlowsOK' /\ HandlesOK' /\ ResumesItsOwnSession'
  BY <1>3, <1>4, SessionsKept
<1>6. TypeOK'
  BY <1>3 DEF IInv, TypeOK, queueVars
<1>7. QueueOK'
  BY <1>3, <1>4 DEF IInv, QueueOK, queueVars
<1>8. ConnsOK'
  <2>1. Top' = Top /\ Current' = Current
    BY DEF Top, Current, Depth
  <2> QED BY <1>3, <1>4, <2>1 DEF IInv, ConnsOK
<1>9. HandedOverInOrder'
  BY <1>3, <1>4 DEF IInv, HandedOverInOrder, queueVars
<1> QED BY <1>5, <1>6, <1>7, <1>8, <1>9 DEF IInv

\* A step of the innermost flow that leaves the queue and the connections alone.
LEMMA TopMoved ==
  ASSUME IInv, UNCHANGED <<queueVars, conns>>,
         budget' \in Nat, aborted' \in BOOLEAN, gone' \in BOOLEAN,
         NEW f \in FlowState, SetTop(f),
         f.id = Top.id, f.handle = Top.handle, f.conn = Top.conn,
         f.at \in {"history", "receive", "tool", "leaving"}
           => Top.at \in {"history", "receive", "tool", "leaving"},
         f.at \notin Idle => Top.at \notin Idle,
         Top.at \in Busy => f.at \in Busy,
         f.at = "failed" => f.why \in Kinds,
         f.why = "reconnect" => f.handle # 0,
         f.at = "connect" /\ f.handle = 0 => Top.at = "connect"
  PROVE  IInv'
<1>1. /\ Depth \in Nat /\ Depth >= 1 /\ DOMAIN flows = 1..Depth
      /\ flows \in [1..Depth -> FlowState] /\ DOMAIN conns = 1..Len(conns) /\ Len(conns) \in Nat
  BY Shapes DEF IInv
<1>2. /\ flows' \in Seq(FlowState) /\ flows' # << >> /\ Depth' = Depth
      /\ DOMAIN flows' = DOMAIN flows /\ flows'[Depth] = f /\ Top' = f
      /\ \A d \in DOMAIN flows : d # Depth => flows'[d] = flows[d]
  BY SetTopTyped DEF IInv
<1>3. Top = flows[Depth] /\ Current = Top.conn /\ Current' = Current
  BY <1>2 DEF Top, Current
<1>4. TypeOK'
  BY <1>2 DEF IInv, TypeOK, queueVars
<1>5. QueueOK' /\ HandedOverInOrder'
  BY DEF IInv, QueueOK, HandedOverInOrder, queueVars
<1>6. ConnsOK'
  BY <1>2, <1>3 DEF IInv, ConnsOK
<1>7. FlowsOK' /\ HandlesOK' /\ ResumesItsOwnSession'
  BY SessionsMoved DEF IInv, TypeOK
<1> QED BY <1>4, <1>5, <1>6, <1>7 DEF IInv

\* Cutting a connection takes its read out of the queue and closes it.
LEMMA CutAway ==
  ASSUME IInv, NEW c \in DOMAIN conns, waiters' = Withdrawn(c), conns' = Cut(c),
         UNCHANGED <<next, queue, taken, shut>>
  PROVE  /\ conns' \in Seq(Conn) /\ Len(conns') = Len(conns) /\ DOMAIN conns' = DOMAIN conns
         /\ \A b \in DOMAIN conns : b # c => conns'[b] = conns[b]
         /\ conns'[c].flow = conns[c].flow /\ conns'[c].resume = conns[c].resume
         /\ conns'[c].issued = conns[c].issued /\ conns'[c].hand = conns[c].hand
         /\ conns'[c].cut /\ ~conns'[c].open /\ conns'[c].loop # "parked"
         /\ waiters' \in Seq(Nat) /\ QueueOK' /\ HandedOverInOrder'
<1>1. /\ DOMAIN conns = 1..Len(conns) /\ Len(conns) \in Nat
      /\ conns \in [1..Len(conns) -> Conn]
  BY Shapes DEF IInv
<1> DEFINE k == [conns[c] EXCEPT !.cut = TRUE, !.open = FALSE,
                                 !.loop = IF @ = "parked" THEN "done" ELSE @]
<1>2. conns' = [conns EXCEPT ![c] = k]
  BY <1>1 DEF Cut
<1>3. /\ k \in Conn /\ k.flow = conns[c].flow /\ k.resume = conns[c].resume
      /\ k.issued = conns[c].issued /\ k.hand = conns[c].hand
      /\ k.cut /\ ~k.open /\ k.loop # "parked"
  BY <1>1 DEF Conn
<1> HIDE DEF k
<1>4. conns' \in [DOMAIN conns -> Conn] /\ conns'[c] = k
  BY <1>1, <1>2, <1>3
<1>5. conns' \in Seq(Conn) /\ Len(conns') = Len(conns) /\ DOMAIN conns' = DOMAIN conns
  BY <1>1, <1>4, Retyped DEF IInv, TypeOK
<1>6. \A b \in DOMAIN conns : b # c => conns'[b] = conns[b]
  BY <1>1, <1>2
<1>7. /\ waiters' \in Seq(Nat)
      /\ waiters' # << >> => waiters # << >>
      /\ \A i, j \in DOMAIN waiters' : waiters'[i] = waiters'[j] => i = j
      /\ \A i \in DOMAIN waiters' : /\ waiters'[i] # c
                                    /\ \E j \in DOMAIN waiters : waiters'[i] = waiters[j]
  <2>1. waiters \in Seq(Nat) /\ DOMAIN waiters = 1..Len(waiters) /\ Len(waiters) \in Nat
    BY LenProperties DEF IInv, TypeOK
  <2>2. CASE \E i \in DOMAIN waiters : waiters[i] = c
    <3> DEFINE p == CHOOSE i \in DOMAIN waiters : waiters[i] = c
    <3>1. p \in 1..Len(waiters) /\ waiters[p] = c /\ waiters' = RemoveAt(waiters, p)
      BY <2>1, <2>2 DEF Withdrawn
    <3> HIDE DEF p
    <3>2. /\ waiters' \in Seq(Nat) /\ Len(waiters') = Len(waiters) - 1
          /\ \A i \in 1..(Len(waiters) - 1) : waiters'[i] = waiters[IF i < p THEN i ELSE i + 1]
      BY <2>1, <3>1, Removed
    <3>3. DOMAIN waiters' = 1..(Len(waiters) - 1)
      BY <3>2, LenProperties
    <3>4. waiters # << >>
      BY <2>1, <3>1, EmptySeq
    <3> DEFINE at(i) == IF i < p THEN i ELSE i + 1
    <3>5. \A i \in DOMAIN waiters' :
            at(i) \in DOMAIN waiters /\ at(i) # p /\ waiters'[i] = waiters[at(i)]
      <4>1. \A i \in DOMAIN waiters' : at(i) \in 1..Len(waiters) /\ at(i) # p
        BY <2>1, <3>1, <3>3
      <4> QED BY <2>1, <3>2, <3>3, <4>1
    <3>6. \A i, j \in DOMAIN waiters' : at(i) = at(j) => i = j
      BY <3>1, <3>3
    <3> HIDE DEF at
    <3>7. \A i, j \in DOMAIN waiters : waiters[i] = waiters[j] => i = j
      BY DEF IInv, QueueOK
    <3> QED BY <2>1, <3>1, <3>2, <3>4, <3>5, <3>6, <3>7
  <2>3. CASE ~ \E i \in DOMAIN waiters : waiters[i] = c
    BY <2>1, <2>3 DEF Withdrawn, IInv, QueueOK
  <2> QED BY <2>2, <2>3
<1>8. QueueOK'
  BY <1>5, <1>6, <1>7 DEF IInv, QueueOK
<1>9. HandedOverInOrder'
  BY <1>3, <1>4, <1>5, <1>6 DEF IInv, HandedOverInOrder
<1> QED BY <1>3, <1>4, <1>5, <1>6, <1>7, <1>8, <1>9

---------------------------------------------------------------------------
(* The caller and the queue                                                *)

\* Concatenation is associative.
LEMMA Associative ==
  ASSUME NEW t \in Seq(Nat), NEW u \in Seq(Nat), NEW v \in Seq(Nat)
  PROVE  (t \o u) \o v = t \o (u \o v)
OBVIOUS

\* The numbers up to n in order are those up to n - 1 followed by n.
LEMMA OneMore ==
  ASSUME NEW s \in Seq(Nat), NEW n \in Nat \ {0}, s = [i \in 1..(n - 1) |-> i]
  PROVE  Append(s, n) = [i \in 1..n |-> i]
<1>1. Len(s) \in Nat /\ DOMAIN s = 1..Len(s) /\ DOMAIN s = 1..(n - 1) /\ n - 1 \in Nat
  BY LenProperties
<1>2. Len(s) = n - 1
  BY <1>1
<1> DEFINE u == Append(s, n)
           v == [i \in 1..n |-> i]
<1>3. u \in Seq(Nat) /\ Len(u) = n
  BY <1>1, <1>2, AppendProperties
<1>4. \A i \in 1..n : u[i] = i
  BY <1>1, <1>2, AppendProperties
<1>5. v \in Seq(Nat) /\ Len(v) = n
  <2>1. v \in [DOMAIN u -> Nat]
    BY <1>3, LenProperties
  <2> QED BY <1>3, <2>1, Retyped
<1> HIDE DEF u
<1>6. u = v
  BY <1>3, <1>4, <1>5, SeqEqual
<1> QED BY <1>6 DEF u

\* A request sent is the next one of the sequence.
LEMMA Sent ==
  ASSUME NEW t \in Seq(Nat), NEW q \in Seq(Nat), NEW n \in Nat \ {0},
         t \o q = [i \in 1..(n - 1) |-> i]
  PROVE  t \o Append(q, n) = [i \in 1..n |-> i]
<1> DEFINE e == <<n>>
           s == t \o q
<1>1. e \in Seq(Nat) /\ Append(q, n) = q \o e
  BY AppendIsConcat
<1>2. s \in Seq(Nat) /\ Append(s, n) = s \o e
  BY ConcatProperties, AppendIsConcat
<1> HIDE DEF e
<1>3. s \o e = t \o (q \o e)
  BY <1>1, Associative
<1>4. Append(s, n) = [i \in 1..n |-> i]
  BY <1>2, OneMore
<1> QED BY <1>1, <1>2, <1>3, <1>4

\* A request taken from the buffer stays where it is in the sequence.
LEMMA Took ==
  ASSUME NEW t \in Seq(Nat), NEW q \in Seq(Nat), q # << >>, NEW n \in Nat \ {0},
         t \o q = [i \in 1..(n - 1) |-> i]
  PROVE  /\ Append(t, Head(q)) \o Tail(q) = [i \in 1..(n - 1) |-> i]
         /\ Head(q) \in 1..(n - 1)
<1>1. /\ Head(q) \in Nat /\ Tail(q) \in Seq(Nat) /\ <<Head(q)>> \in Seq(Nat)
      /\ q = <<Head(q)>> \o Tail(q)
  <2>1. /\ Head(q) \in Nat /\ Head(q) = q[1] /\ Tail(q) \in Seq(Nat)
        /\ Len(Tail(q)) = Len(q) - 1 /\ Len(q) \in Nat
        /\ \A i \in 1..(Len(q) - 1) : Tail(q)[i] = q[i + 1]
    BY HeadTailProperties, LenProperties
  <2> DEFINE h == <<Head(q)>>
  <2>2. h \in Seq(Nat) /\ Len(h) = 1 /\ h[1] = q[1]
    BY <2>1
  <2> HIDE DEF h
  <2>3. /\ h \o Tail(q) \in Seq(Nat) /\ Len(h \o Tail(q)) = Len(q)
        /\ \A i \in 1..Len(q) : (h \o Tail(q))[i] = IF i <= 1 THEN h[i] ELSE Tail(q)[i - 1]
    <3> DEFINE r == Tail(q)
    <3> HIDE DEF r
    <3>1. r \in Seq(Nat) /\ Len(h) + Len(r) = Len(q)
      BY <2>1, <2>2 DEF r
    <3>2. /\ h \o r \in Seq(Nat) /\ Len(h \o r) = Len(h) + Len(r)
          /\ \A i \in 1..(Len(h) + Len(r)) : (h \o r)[i] = IF i <= Len(h) THEN h[i] ELSE r[i - Len(h)]
      <4>1. \A u, v \in Seq(Nat) :
              /\ u \o v \in Seq(Nat) /\ Len(u \o v) = Len(u) + Len(v)
              /\ \A i \in 1..(Len(u) + Len(v)) :
                   (u \o v)[i] = IF i <= Len(u) THEN u[i] ELSE v[i - Len(u)]
        BY ConcatProperties
      <4> QED BY <2>2, <3>1, <4>1
    <3> QED BY <2>2, <3>1, <3>2 DEF r
  <2>4. \A i \in 1..Len(q) : q[i] = (h \o Tail(q))[i]
    BY <2>1, <2>2, <2>3
  <2>5. q = h \o Tail(q)
    BY <2>3, <2>4, SeqEqual
  <2> QED BY <2>1, <2>2, <2>5 DEF h
<1>2. Append(t, Head(q)) \o Tail(q) = t \o q
  <2> DEFINE h == <<Head(q)>>
             r == Tail(q)
  <2>1. Append(t, Head(q)) = t \o h
    BY <1>1, AppendIsConcat
  <2>2. h \in Seq(Nat) /\ r \in Seq(Nat) /\ q = h \o r
    BY <1>1
  <2> HIDE DEF h, r
  <2>3. (t \o h) \o r = t \o (h \o r)
    BY <2>2, Associative
  <2>4. Append(t, Head(q)) \o r = t \o q
    BY <2>1, <2>2, <2>3
  <2> QED BY <2>4 DEF r
<1>3. /\ Len(t) \in Nat /\ Len(q) \in Nat \ {0} /\ q[1] = Head(q)
      /\ Len(t \o q) = Len(t) + Len(q) /\ (t \o q)[Len(t) + 1] = q[1]
  <2>1. Len(t) \in Nat /\ Len(q) \in Nat \ {0} /\ q[1] = Head(q)
    BY LenProperties, EmptySeq
  <2>2. /\ Len(t \o q) = Len(t) + Len(q)
        /\ \A i \in 1..(Len(t) + Len(q)) :
             (t \o q)[i] = IF i <= Len(t) THEN t[i] ELSE q[i - Len(t)]
    BY ConcatProperties
  <2>3. Len(t) + 1 \in 1..(Len(t) + Len(q)) /\ (Len(t) + 1) - Len(t) = 1 /\ ~(Len(t) + 1 <= Len(t))
    BY <2>1
  <2>4. (t \o q)[Len(t) + 1] = q[1]
    BY <2>2, <2>3
  <2> QED BY <2>1, <2>2, <2>4
<1>4. Len(t) + Len(q) = n - 1
  <2>1. t \o q \in Seq(Nat)
    BY ConcatProperties
  <2>2. DOMAIN (t \o q) = 1..Len(t \o q) /\ Len(t \o q) \in Nat
    BY <2>1, LenProperties
  <2>3. DOMAIN (t \o q) = 1..(n - 1)
    OBVIOUS
  <2> QED BY <1>3, <2>2, <2>3
<1>5. Head(q) = Len(t) + 1
  BY <1>3, <1>4
<1> QED BY <1>2, <1>3, <1>4, <1>5

\* The invariant is kept when the caller sends a request.
LEMMA SendKeeps == IInv /\ SendRequest => IInv'
<1> SUFFICES ASSUME IInv, SendRequest PROVE IInv'
  OBVIOUS
<1> USE LiveAssumption
<1>1. /\ ~shut /\ next \in 1..MaxRequests /\ next' = next + 1
      /\ UNCHANGED <<shut, flows, budget, aborted, gone>>
  BY DEF SendRequest, IInv, QueueOK
<1>2. /\ DOMAIN conns = 1..Len(conns) /\ Len(conns) \in Nat
      /\ conns \in [1..Len(conns) -> Conn]
  BY Shapes DEF IInv
<1>3. /\ taken \in Seq(Nat) /\ queue \in Seq(Nat) /\ waiters \in Seq(Nat)
      /\ DOMAIN waiters = 1..Len(waiters) /\ Len(waiters) \in Nat
      /\ taken \o queue = [i \in 1..(next - 1) |-> i] /\ (next + 1) - 1 = next
  BY <1>1, LenProperties DEF IInv, TypeOK, HandedOverInOrder
<1>4. CASE waiters = << >>
  <2>1. queue' = Append(queue, next) /\ UNCHANGED <<conns, waiters, taken>>
    BY <1>4 DEF SendRequest
  <2>2. queue' \in Seq(Nat)
    BY <1>1, <1>3, <2>1, AppendProperties
  <2>3. TypeOK' /\ QueueOK'
    BY <1>1, <1>4, <2>1, <2>2 DEF IInv, TypeOK, QueueOK
  <2>4. ConnsOK' /\ FlowsOK' /\ HandlesOK' /\ ResumesItsOwnSession'
    BY <1>1, <2>1
    DEF IInv, ConnsOK, FlowsOK, HandlesOK, ResumesItsOwnSession, Own, Top, Depth, Current
  <2>5. HandedOverInOrder'
    <3> DEFINE n == next
    <3>0. n \in Nat \ {0} /\ taken \o queue = [i \in 1..(n - 1) |-> i] /\ next' - 1 = n
      BY <1>1, <1>3
    <3>1. taken' \o queue' = [i \in 1..(next' - 1) |-> i]
      <4> HIDE DEF n
      <4>1. taken \o Append(queue, n) = [i \in 1..n |-> i]
        BY <1>3, <3>0, Sent
      <4> QED BY <2>1, <3>0, <4>1 DEF n
    <3>2. \A c \in DOMAIN conns : conns[c].hand # Close
      BY <1>1 DEF IInv, HandedOverInOrder
    <3> QED BY <2>1, <3>1, <3>2 DEF HandedOverInOrder
  <2> QED BY <2>3, <2>4, <2>5 DEF IInv
<1>5. CASE waiters # << >>
  <2> DEFINE c == Head(waiters)
             k == [conns[c] EXCEPT !.loop = "got", !.hand = next]
  <2>1. /\ c = waiters[1] /\ 1 \in DOMAIN waiters /\ queue = << >>
        /\ c \in DOMAIN conns /\ conns[c].loop = "parked"
    <3>1. Len(waiters) # 0
      BY <1>3, <1>5, EmptySeq
    <3> QED BY <1>3, <1>5, <3>1 DEF IInv, QueueOK
  <2>2. /\ conns' = Given(conns, c, next) /\ waiters' = Tail(waiters)
        /\ taken' = Append(taken, next) /\ queue' = queue
    BY <1>5 DEF SendRequest
  <2> HIDE DEF c
  <2>3. conns' = [conns EXCEPT ![c] = k]
    BY <1>2, <2>1, <2>2 DEF Given
  <2>4. /\ k \in Conn /\ k.flow = conns[c].flow /\ k.resume = conns[c].resume
        /\ k.issued = conns[c].issued /\ k.cut = conns[c].cut /\ k.open = conns[c].open
        /\ k.loop = "got" /\ k.hand = next
    <3>1. conns[c] \in Conn /\ next \in Nat
      BY <1>1, <1>2, <2>1
    <3> QED BY <3>1 DEF Conn
  <2> HIDE DEF k
  <2>5. conns' \in Seq(Conn) /\ Len(conns') = Len(conns) /\ DOMAIN conns' = DOMAIN conns
    <3>1. conns' \in [DOMAIN conns -> Conn]
      BY <1>2, <2>3, <2>4
    <3> QED BY <1>2, <3>1, Retyped DEF IInv, TypeOK
  <2>6. conns'[c] = k /\ \A b \in DOMAIN conns : b # c => conns'[b] = conns[b]
    BY <1>2, <2>1, <2>3
  <2>7. FlowsOK' /\ HandlesOK' /\ ResumesItsOwnSession'
    BY <1>1, <2>4, <2>5, <2>6, SessionsKept
  <2>8. /\ waiters' \in Seq(Nat) /\ DOMAIN waiters' = 1..(Len(waiters) - 1)
        /\ \A i \in DOMAIN waiters' : waiters'[i] = waiters[i + 1]
    BY <1>3, <1>5, <2>2, HeadTailProperties, LenProperties
  <2>9. \A i \in DOMAIN waiters' : i + 1 \in DOMAIN waiters /\ waiters'[i] # c
    <3>1. \A i \in DOMAIN waiters' : i + 1 \in DOMAIN waiters /\ i + 1 # 1
      BY <1>3, <2>8
    <3>2. \A i \in DOMAIN waiters : waiters[i] = c => i = 1
      BY <2>1 DEF IInv, QueueOK
    <3> QED BY <2>8, <3>1, <3>2
  <2>10. TypeOK'
    BY <1>1, <1>3, <2>2, <2>5, <2>8, AppendProperties DEF IInv, TypeOK
  <2>11. QueueOK'
    <3>1. \A i, j \in DOMAIN waiters' : waiters'[i] = waiters'[j] => i = j
      <4>1. \A i, j \in DOMAIN waiters : waiters[i] = waiters[j] => i = j
        BY DEF IInv, QueueOK
      <4>2. \A i, j \in DOMAIN waiters' : i + 1 = j + 1 => i = j
        BY <2>8
      <4> QED BY <2>8, <2>9, <4>1, <4>2
    <3>2. \A i \in DOMAIN waiters' :
            waiters'[i] \in DOMAIN conns' /\ conns'[waiters'[i]].loop = "parked"
      BY <2>5, <2>6, <2>8, <2>9 DEF IInv, QueueOK
    <3> QED BY <1>1, <2>1, <2>2, <3>1, <3>2 DEF QueueOK
  <2>12. ConnsOK'
    BY <1>1, <2>1, <2>4, <2>5, <2>6 DEF IInv, ConnsOK, Top, Depth, Current
  <2>13. HandedOverInOrder'
    <3> DEFINE n == next
    <3>0. n \in Nat \ {0} /\ taken \o queue = [i \in 1..(n - 1) |-> i] /\ next' - 1 = n
      BY <1>1, <1>3
    <3>1. taken' \o queue' = [i \in 1..(next' - 1) |-> i]
      <4> HIDE DEF n
      <4>1. Append(taken, n) \o queue = Append(taken, n) /\ taken \o queue = taken
        <5>1. Append(taken, n) \in Seq(Nat)
          BY <1>3, <3>0, AppendProperties
        <5> QED BY <1>3, <2>1, <5>1, ConcatEmptySeq
      <4>2. Append(taken, n) = [i \in 1..n |-> i]
        <5>1. taken = [i \in 1..(n - 1) |-> i]
          BY <3>0, <4>1
        <5> QED BY <1>3, <3>0, <5>1, OneMore
      <4> QED BY <2>2, <3>0, <4>1, <4>2 DEF n
    <3>2. k.hand # Close /\ \A b \in DOMAIN conns : conns[b].hand # Close
      BY <1>1, <2>4 DEF IInv, HandedOverInOrder, Close
    <3> QED BY <2>5, <2>6, <3>1, <3>2 DEF HandedOverInOrder
  <2> QED BY <2>7, <2>10, <2>11, <2>12, <2>13 DEF IInv
<1> QED BY <1>4, <1>5

\* The invariant is kept when the caller closes the queue.
LEMMA CloseKeeps == IInv /\ CloseQueue => IInv'
<1> SUFFICES ASSUME IInv, CloseQueue PROVE IInv'
  OBVIOUS
<1> USE LiveAssumption
<1>1. /\ DOMAIN conns = 1..Len(conns) /\ Len(conns) \in Nat
      /\ conns \in [1..Len(conns) -> Conn]
  BY Shapes DEF IInv
<1>2. /\ ~shut /\ shut' /\ waiters' = << >> /\ shut' = TRUE
      /\ UNCHANGED <<next, queue, taken, flows, budget, aborted, gone>>
  BY DEF CloseQueue
<1>3. conns' = [c \in DOMAIN conns |->
        IF Contains(waiters, c)
        THEN [conns[c] EXCEPT !.loop = "got", !.hand = Close] ELSE conns[c]]
  BY DEF CloseQueue
<1>4. \A c \in DOMAIN conns :
        /\ conns'[c] \in Conn
        /\ conns'[c].flow = conns[c].flow /\ conns'[c].resume = conns[c].resume
        /\ conns'[c].issued = conns[c].issued /\ conns'[c].open = conns[c].open
        /\ conns'[c].cut = conns[c].cut
        /\ conns'[c].loop = "parked" => conns[c].loop = "parked"
        /\ conns[c].loop = "off" => conns'[c].loop = "off"
        /\ conns'[c].hand # Close \/ conns[c].hand = Close \/ Contains(waiters, c)
  <2>1. Close \in Nat
    BY DEF Close
  <2>2. \A c \in DOMAIN conns : Contains(waiters, c) => conns[c].loop = "parked"
    <3>1. DOMAIN waiters = 1..Len(waiters)
      BY LenProperties DEF IInv, TypeOK
    <3> QED BY <3>1 DEF Contains, IInv, QueueOK
  <2> QED BY <1>1, <1>3, <2>1, <2>2 DEF Conn
<1>5. conns' \in Seq(Conn) /\ Len(conns') = Len(conns) /\ DOMAIN conns' = DOMAIN conns
  <2>1. conns' \in [DOMAIN conns -> Conn]
    BY <1>3, <1>4
  <2> QED BY <1>1, <2>1, Retyped DEF IInv, TypeOK
<1>6. FlowsOK' /\ HandlesOK' /\ ResumesItsOwnSession'
  BY <1>2, <1>4, <1>5, SessionsKept
<1>7. TypeOK' /\ QueueOK'
  <2>1. waiters' \in Seq(Nat) /\ DOMAIN waiters' = {}
    BY <1>2, EmptySeq, LenProperties
  <2> QED BY <1>2, <1>5, <2>1 DEF IInv, TypeOK, QueueOK
<1>8. ConnsOK'
  BY <1>2, <1>4, <1>5 DEF IInv, ConnsOK, Top, Depth, Current
<1>9. HandedOverInOrder'
  <2>1. \A c \in DOMAIN conns : conns[c].hand # Close
    BY <1>2 DEF IInv, HandedOverInOrder
  <2>2. \A c \in DOMAIN conns : Contains(waiters, c) => queue = << >>
    <3>1. DOMAIN waiters = 1..Len(waiters) /\ (waiters = << >> => Len(waiters) = 0)
      BY LenProperties, EmptySeq DEF IInv, TypeOK
    <3> QED BY <3>1 DEF Contains, IInv, QueueOK
  <2> QED BY <1>2, <1>4, <1>5, <2>1, <2>2 DEF IInv, HandedOverInOrder
<1> QED BY <1>6, <1>7, <1>8, <1>9 DEF IInv

\* The invariant is kept when the caller aborts.
LEMMA AbortKeeps == IInv /\ Abort => IInv'
<1> SUFFICES ASSUME IInv, Abort PROVE IInv'
  OBVIOUS
<1>1. /\ DOMAIN conns = 1..Len(conns) /\ Len(conns) \in Nat
      /\ conns \in [1..Len(conns) -> Conn]
  BY Shapes DEF IInv
<1>2. /\ aborted' = TRUE /\ waiters' = << >>
      /\ UNCHANGED <<next, queue, taken, shut, flows, budget, gone>>
  BY DEF Abort
<1>3. conns' = [c \in DOMAIN conns |->
        IF conns[c].loop = "parked" THEN [conns[c] EXCEPT !.loop = "done"] ELSE conns[c]]
  BY DEF Abort
<1>4. \A c \in DOMAIN conns :
        /\ conns'[c] \in Conn
        /\ conns'[c].flow = conns[c].flow /\ conns'[c].resume = conns[c].resume
        /\ conns'[c].issued = conns[c].issued /\ conns'[c].open = conns[c].open
        /\ conns'[c].cut = conns[c].cut /\ conns'[c].loop # "parked"
        /\ conns[c].loop = "off" => conns'[c].loop = "off"
        /\ conns'[c].hand = conns[c].hand
  BY <1>1, <1>3 DEF Conn
<1>5. conns' \in Seq(Conn) /\ Len(conns') = Len(conns) /\ DOMAIN conns' = DOMAIN conns
  <2>1. conns' \in [DOMAIN conns -> Conn]
    BY <1>3, <1>4
  <2> QED BY <1>1, <2>1, Retyped DEF IInv, TypeOK
<1>6. FlowsOK' /\ HandlesOK' /\ ResumesItsOwnSession'
  BY <1>2, <1>4, <1>5, SessionsKept
<1>7. TypeOK' /\ QueueOK'
  <2>1. waiters' \in Seq(Nat) /\ DOMAIN waiters' = {}
    BY <1>2, EmptySeq, LenProperties
  <2> QED BY <1>2, <1>5, <2>1 DEF IInv, TypeOK, QueueOK
<1>8. ConnsOK'
  BY <1>2, <1>4, <1>5 DEF IInv, ConnsOK, Top, Depth, Current
<1>9. HandedOverInOrder'
  BY <1>2, <1>4, <1>5 DEF IInv, HandedOverInOrder
<1> QED BY <1>6, <1>7, <1>8, <1>9 DEF IInv

---------------------------------------------------------------------------
(* The send loops                                                          *)

\* The invariant is kept when a send loop parks its read.
LEMMA ParkKeeps ==
  ASSUME IInv, NEW c \in DOMAIN conns, Park(c)
  PROVE  IInv'
<1>1. /\ DOMAIN conns = 1..Len(conns) /\ Len(conns) \in Nat
      /\ conns \in [1..Len(conns) -> Conn]
  BY Shapes DEF IInv
<1>2. /\ conns[c].loop = "top" /\ ~conns[c].cut /\ queue = << >> /\ ~shut
      /\ conns' = [conns EXCEPT ![c].loop = "parked"] /\ waiters' = Append(waiters, c)
      /\ UNCHANGED <<next, queue, taken, shut, flows, budget, aborted, gone>>
  BY DEF Park, Stopped
<1>3. /\ conns'[c] \in Conn /\ conns'[c].loop = "parked"
      /\ conns'[c].flow = conns[c].flow /\ conns'[c].resume = conns[c].resume
      /\ conns'[c].issued = conns[c].issued /\ conns'[c].cut = conns[c].cut
      /\ conns'[c].hand = conns[c].hand
      /\ \A b \in DOMAIN conns : b # c => conns'[b] = conns[b]
  BY <1>1, <1>2 DEF Conn
<1>4. conns' \in Seq(Conn) /\ Len(conns') = Len(conns) /\ DOMAIN conns' = DOMAIN conns
  <2>1. conns' \in [DOMAIN conns -> Conn]
    BY <1>1, <1>2, <1>3
  <2> QED BY <1>1, <2>1, Retyped DEF IInv, TypeOK
<1>5. FlowsOK' /\ HandlesOK' /\ ResumesItsOwnSession'
  BY <1>2, <1>3, <1>4, SessionsKept
<1> DEFINE n == Len(waiters)
<1>6. /\ n \in Nat /\ DOMAIN waiters = 1..n /\ waiters' \in Seq(Nat)
      /\ DOMAIN waiters' = 1..(n + 1) /\ waiters'[n + 1] = c
      /\ \A i \in 1..n : waiters'[i] = waiters[i]
  <2>1. waiters \in Seq(Nat) /\ c \in Nat
    BY <1>1 DEF IInv, TypeOK
  <2> QED BY <1>2, <2>1, AppendProperties, LenProperties
<1> HIDE DEF n
<1>7. TypeOK'
  BY <1>2, <1>4, <1>6 DEF IInv, TypeOK
<1>8. QueueOK'
  <2>1. \A i \in 1..n : waiters[i] # c
    BY <1>2, <1>6 DEF IInv, QueueOK
  <2>2. \A i, j \in 1..n : waiters[i] = waiters[j] => i = j
    BY <1>6 DEF IInv, QueueOK
  <2>3. \A i, j \in DOMAIN waiters' : waiters'[i] = waiters'[j] => i = j
    BY <1>6, <2>1, <2>2
  <2>4. \A i \in DOMAIN waiters' :
          waiters'[i] \in DOMAIN conns' /\ conns'[waiters'[i]].loop = "parked"
    <3>1. \A i \in 1..n : waiters'[i] \in DOMAIN conns /\ conns[waiters'[i]].loop = "parked"
      BY <1>6 DEF IInv, QueueOK
    <3> QED BY <1>3, <1>4, <1>6, <2>1, <3>1
  <2> QED BY <1>2, <2>3, <2>4 DEF IInv, QueueOK
<1>9. ConnsOK'
  BY <1>2, <1>3, <1>4 DEF IInv, ConnsOK, Top, Depth, Current
<1>10. HandedOverInOrder'
  BY <1>2, <1>3, <1>4 DEF IInv, HandedOverInOrder
<1> QED BY <1>5, <1>7, <1>8, <1>9, <1>10 DEF IInv

\* The invariant is kept when a send loop takes a buffered request.
LEMMA TakeKeeps ==
  ASSUME IInv, NEW c \in DOMAIN conns, TakeRequest(c)
  PROVE  IInv'
<1> USE LiveAssumption
<1>1. /\ DOMAIN conns = 1..Len(conns) /\ Len(conns) \in Nat
      /\ conns \in [1..Len(conns) -> Conn]
  BY Shapes DEF IInv
<1>2. /\ conns[c].loop = "top" /\ ~conns[c].cut /\ queue # << >>
      /\ conns' = Given(conns, c, Head(queue))
      /\ queue' = Tail(queue) /\ taken' = Append(taken, Head(queue))
      /\ UNCHANGED <<next, shut, waiters, flows, budget, aborted, gone>>
  BY DEF TakeRequest, Stopped
<1>3. /\ taken \in Seq(Nat) /\ queue \in Seq(Nat) /\ next \in 1..(MaxRequests + 1)
      /\ taken \o queue = [i \in 1..(next - 1) |-> i]
  BY DEF IInv, TypeOK, QueueOK, HandedOverInOrder
<1>4. /\ taken' \o queue' = [i \in 1..(next - 1) |-> i]
      /\ Head(queue) \in 1..(next - 1)
  <2> DEFINE n == next
  <2>1. n \in Nat \ {0} /\ taken \o queue = [i \in 1..(n - 1) |-> i]
    BY <1>3
  <2> HIDE DEF n
  <2>2. /\ Append(taken, Head(queue)) \o Tail(queue) = [i \in 1..(n - 1) |-> i]
        /\ Head(queue) \in 1..(n - 1)
    BY <1>2, <1>3, <2>1, Took
  <2> QED BY <1>2, <2>2 DEF n
<1>5. /\ conns'[c] \in Conn /\ conns'[c].loop = "got" /\ conns'[c].hand = Head(queue)
      /\ conns'[c].flow = conns[c].flow /\ conns'[c].resume = conns[c].resume
      /\ conns'[c].issued = conns[c].issued /\ conns'[c].cut = conns[c].cut
      /\ \A b \in DOMAIN conns : b # c => conns'[b] = conns[b]
  <2>1. Head(queue) \in Nat
    BY <1>3, <1>4
  <2> QED BY <1>1, <1>2, <2>1 DEF Conn, Given
<1>6. conns' \in Seq(Conn) /\ Len(conns') = Len(conns) /\ DOMAIN conns' = DOMAIN conns
  <2>1. conns' \in [DOMAIN conns -> Conn]
    BY <1>1, <1>2, <1>5 DEF Given
  <2> QED BY <1>1, <2>1, Retyped DEF IInv, TypeOK
<1>7. FlowsOK' /\ HandlesOK' /\ ResumesItsOwnSession'
  BY <1>2, <1>5, <1>6, SessionsKept
<1>8. TypeOK'
  <2>1. queue' \in Seq(Nat) /\ taken' \in Seq(Nat)
    BY <1>2, <1>3, HeadTailProperties, AppendProperties
  <2> QED BY <1>2, <1>6, <2>1 DEF IInv, TypeOK
<1>9. QueueOK'
  <2>1. waiters = << >> /\ DOMAIN waiters = {}
    BY <1>2, EmptySeq, LenProperties DEF IInv, QueueOK
  <2> QED BY <1>2, <2>1 DEF IInv, QueueOK
<1>10. ConnsOK'
  <2>1. Top' = Top /\ Current' = Current
    BY <1>2 DEF Top, Depth, Current
  <2>2. ~conns'[c].cut /\ c = Current /\ Top.at \in Busy
    BY <1>2, <1>5 DEF IInv, ConnsOK
  <2>3. \A b \in DOMAIN conns \ {c} :
          /\ conns'[b].cut => ~conns'[b].open /\ conns'[b].loop # "parked"
          /\ ~conns'[b].cut => conns'[b].loop = "off" \/ (b = Current /\ Top.at \in Busy)
    BY <1>5 DEF IInv, ConnsOK
  <2> QED BY <1>6, <2>1, <2>2, <2>3 DEF ConnsOK
<1>11. HandedOverInOrder'
  <2>1. Head(queue) # Close
    BY <1>3, <1>4 DEF Close
  <2>2. \A b \in DOMAIN conns : conns[b].hand # Close
    BY <1>2 DEF IInv, HandedOverInOrder
  <2>3. \A b \in DOMAIN conns : conns'[b].hand # Close
    BY <1>5, <2>1, <2>2
  <2>4. taken' \o queue' = [i \in 1..(next' - 1) |-> i]
    <3> HIDE DEF Close
    <3>1. next' = next
      BY <1>2
    <3> QED BY <1>4, <3>1
  <2>5. Close' = Close
    BY DEF Close
  <2> QED BY <1>6, <2>3, <2>4, <2>5 DEF HandedOverInOrder
<1> QED BY <1>7, <1>8, <1>9, <1>10, <1>11 DEF IInv

\* The invariant is kept by every step of a send loop and of a server's side.
LEMMA SendLoopKeeps ==
  ASSUME IInv, NEW c \in DOMAIN conns, SendLoop(c) \/ ServerEnds(c)
  PROVE  IInv'
<1> USE LiveAssumption
<1>1. conns \in [1..Len(conns) -> Conn] /\ DOMAIN conns = 1..Len(conns)
  BY Shapes DEF IInv
<1>2. conns[c] \in Conn /\ conns[c].cut => ~conns[c].open /\ conns[c].loop # "parked"
  BY <1>1 DEF IInv, ConnsOK
<1>3. Close \in Nat /\ Nobody \in Nat /\ Close # Nobody
  BY DEF Close, Nobody
<1>4. /\ budget \in Nat /\ aborted \in BOOLEAN /\ gone \in BOOLEAN
      /\ conns[c].hand = Close => shut /\ queue = << >>
  BY DEF IInv, TypeOK, HandedOverInOrder
<1>5. CASE StopSending(c)
  <2> DEFINE k == [conns[c] EXCEPT !.loop = "done"]
  <2>1. /\ conns' = [conns EXCEPT ![c] = k] /\ k \in Conn /\ conns[c].loop = "top"
        /\ UNCHANGED <<queueVars, flows, budget, aborted, gone>>
    BY <1>1, <1>5 DEF StopSending, Conn
  <2> QED BY <1>1, <1>2, <1>4, <2>1, ConnMoved DEF Conn
<1>6. CASE TakeRequest(c)
  BY <1>6, TakeKeeps
<1>7. CASE TakeClose(c)
  <2> DEFINE k == [conns[c] EXCEPT !.loop = "got", !.hand = Close]
  <2>1. /\ conns' = [conns EXCEPT ![c] = k] /\ k \in Conn /\ conns[c].loop = "top"
        /\ queue = << >> /\ shut
        /\ UNCHANGED <<queueVars, flows, budget, aborted, gone>>
    BY <1>1, <1>3, <1>7 DEF TakeClose, NothingLeft, Given, Conn
  <2> QED BY <1>1, <1>2, <1>4, <2>1, ConnMoved DEF Conn
<1>8. CASE Park(c)
  BY <1>8, ParkKeeps
<1>9. CASE Dispatch(c)
  <2> DEFINE k == [conns[c] EXCEPT !.loop = "top", !.hand = Nobody]
  <2>1. /\ conns' = [conns EXCEPT ![c] = k] /\ k \in Conn /\ conns[c].loop = "got"
        /\ UNCHANGED <<queueVars, flows, budget, aborted, gone>>
    BY <1>1, <1>3, <1>9 DEF Dispatch, Conn
  <2> QED BY <1>1, <1>2, <1>3, <1>4, <2>1, ConnMoved DEF Conn
<1>10. CASE DispatchClose(c)
  <2> DEFINE k == [conns[c] EXCEPT !.loop = "done", !.hand = Nobody, !.open = FALSE]
  <2>1. /\ conns' = [conns EXCEPT ![c] = k] /\ k \in Conn /\ conns[c].loop = "got"
        /\ UNCHANGED <<queueVars, flows, budget, aborted, gone>>
    BY <1>1, <1>3, <1>10 DEF DispatchClose, Conn
  <2> QED BY <1>1, <1>2, <1>3, <1>4, <2>1, ConnMoved DEF Conn
<1>11. CASE DispatchFails(c)
  <2>1. /\ conns[c].loop = "got" /\ UNCHANGED <<queueVars, flows, budget, aborted, gone>>
    BY <1>11 DEF DispatchFails
  <2>2. CASE conns' = [conns EXCEPT ![c].loop = "done", ![c].hand = Nobody]
    <3> DEFINE k == [conns[c] EXCEPT !.loop = "done", !.hand = Nobody]
    <3>1. conns' = [conns EXCEPT ![c] = k] /\ k \in Conn
      BY <1>1, <1>3, <2>2 DEF Conn
    <3> QED BY <1>1, <1>2, <1>3, <1>4, <2>1, <3>1, ConnMoved DEF Conn
  <2>3. ASSUME NEW kind \in Kinds,
               conns' = [conns EXCEPT ![c].loop = "done", ![c].hand = Nobody,
                                      ![c].failed = kind, ![c].cut = TRUE, ![c].open = FALSE]
        PROVE  IInv'
    <3> DEFINE k == [conns[c] EXCEPT !.loop = "done", !.hand = Nobody,
                                     !.failed = kind, !.cut = TRUE, !.open = FALSE]
    <3>1. conns' = [conns EXCEPT ![c] = k] /\ k \in Conn
      BY <1>1, <1>3, <2>3 DEF Conn
    <3> QED BY <1>1, <1>2, <1>3, <1>4, <2>1, <3>1, ConnMoved DEF Conn
  <2> QED BY <1>11, <2>2, <2>3 DEF DispatchFails
<1>12. CASE ServerEnds(c)
  <2>1. PICK how \in {"no", "closed"} \union Kinds : conns' = [conns EXCEPT ![c].ended = how]
    BY <1>12 DEF ServerEnds
  <2> DEFINE k == [conns[c] EXCEPT !.ended = how]
  <2>2. /\ conns' = [conns EXCEPT ![c] = k] /\ k \in Conn
        /\ UNCHANGED <<queueVars, flows, budget, aborted, gone>>
    <3>1. conns[c] \in Conn /\ UNCHANGED <<queueVars, flows, budget, aborted, gone>>
      BY <1>1, <1>12 DEF ServerEnds
    <3>2. k \in Conn
      BY <3>1 DEF Conn
    <3> QED BY <1>1, <2>1, <3>1, <3>2
  <2> QED BY <1>1, <1>2, <1>4, <2>2, ConnMoved DEF Conn
<1> QED BY <1>5, <1>6, <1>7, <1>8, <1>9, <1>10, <1>11, <1>12 DEF SendLoop

---------------------------------------------------------------------------
(* The flows                                                               *)

\* What becomes of an error in a receive loop is a teardown.
LEMMA ThrownTyped ==
  ASSUME NEW f \in FlowState, NEW kind \in Kinds
  PROVE  /\ Thrown(f, kind) \in FlowState /\ Thrown(f, kind).at = "teardown"
         /\ Thrown(f, kind).id = f.id /\ Thrown(f, kind).handle = f.handle
         /\ Thrown(f, kind).conn = f.conn
         /\ Thrown(f, kind).why = "reconnect" => f.handle # 0
BY DEF Thrown, CanReconnect, FlowState, Kinds

\* What a flow does after a teardown: it ends, or it connects again with a handle.
LEMMA AfterTyped ==
  ASSUME NEW f \in FlowState, NEW c \in Conn, f.why = "reconnect" => f.handle # 0
  PROVE  /\ After(f, c) \in FlowState /\ After(f, c).at \in Idle
         /\ After(f, c).id = f.id /\ After(f, c).handle = f.handle
         /\ After(f, c).conn = f.conn
         /\ After(f, c).why = "reconnect" => f.handle # 0
         /\ After(f, c).at = "failed" => After(f, c).why \in Kinds
         /\ After(f, c).at = "connect" => After(f, c).why = "reconnect"
<1>1. c.failed \in {"no"} \union Kinds /\ f.why \in {"return", "reconnect"} \union Kinds
  BY DEF Conn, FlowState
<1>2. CASE f.why \in Kinds
  <2>1. After(f, c) = [f EXCEPT !.at = "failed"]
    BY <1>2 DEF After
  <2> QED BY <1>2, <2>1 DEF FlowState, Idle, Kinds
<1>3. CASE f.why \notin Kinds /\ aborted
  <2>1. After(f, c) = [f EXCEPT !.at = "done"]
    BY <1>3 DEF After
  <2> QED BY <2>1 DEF FlowState, Idle
<1>4. CASE f.why \notin Kinds /\ ~aborted /\ c.failed # "no"
  <2>1. After(f, c) = [f EXCEPT !.at = "failed", !.why = c.failed] /\ c.failed \in Kinds
    BY <1>1, <1>4 DEF After
  <2> QED BY <2>1 DEF FlowState, Idle, Kinds
<1>5. CASE f.why \notin Kinds /\ ~aborted /\ c.failed = "no" /\ f.why = "return"
  <2>1. After(f, c) = [f EXCEPT !.at = "done"]
    BY <1>5 DEF After
  <2> QED BY <1>5, <2>1 DEF FlowState, Idle
<1>6. CASE f.why \notin Kinds /\ ~aborted /\ c.failed = "no" /\ f.why # "return"
  <2>1. f.why = "reconnect"
    BY <1>1, <1>6
  <2>2. CASE f.tries < MaxAttempts
    <3>1. After(f, c) = [f EXCEPT !.at = "connect", !.tries = @ + 1]
      BY <1>6, <2>2 DEF After
    <3>2. f.tries + 1 \in Nat
      BY DEF FlowState
    <3>3. After(f, c) \in FlowState
      BY <3>1, <3>2 DEF FlowState
    <3> QED BY <2>1, <3>1, <3>3 DEF FlowState, Idle
  <2>3. CASE ~(f.tries < MaxAttempts)
    <3>1. After(f, c) = [f EXCEPT !.at = "failed", !.why = "fatal"]
      BY <1>6, <2>3 DEF After
    <3> QED BY <2>1, <3>1 DEF FlowState, Idle, Kinds
  <2> QED BY <2>2, <2>3
<1> QED BY <1>2, <1>3, <1>4, <1>5, <1>6

\* The steps of the innermost flow that leave the connections alone.
Local ==
  \/ NotConnected \/ ConnectFails \/ HistoryFails
  \/ ReceiveTooLate \/ ReceiveGoAway \/ ReceiveCall \/ ReceiveEnd
  \/ ToolAnswered \/ ToolAnswerFails \/ Settle \/ ConsumerStops

\* They keep the invariant.
LEMMA LocalKeeps == IInv /\ Local => IInv'
<1> SUFFICES ASSUME IInv, Local PROVE IInv'
  OBVIOUS
<1>1. Top \in FlowState
  BY Shapes DEF IInv
<1>2. /\ budget \in Nat /\ aborted \in BOOLEAN /\ gone \in BOOLEAN
      /\ Top.why = "reconnect" => Top.handle # 0
      /\ Top.at = "failed" => Top.why \in Kinds
  BY Shapes DEF IInv, TypeOK, HandlesOK, Top
<1>3. CASE NotConnected
  <2> DEFINE f == [Top EXCEPT !.at = "done", !.why = "return"]
  <2>1. f \in FlowState /\ SetTop(f) /\ Top.at = "connect"
    BY <1>1, <1>3 DEF NotConnected, At, Go, FlowState
  <2> QED BY <1>1, <1>2, <1>3, <2>1, TopMoved DEF NotConnected, FlowState, Idle, Busy
<1>4. CASE ConnectFails
  <2>1. /\ Top.at = "connect" /\ UNCHANGED <<queueVars, conns, budget, aborted, gone>>
    BY <1>4 DEF ConnectFails, At
  <2>2. CASE SetTop([Top EXCEPT !.tries = @ + 1])
    <3> DEFINE f == [Top EXCEPT !.tries = @ + 1]
    <3>1. f \in FlowState
      BY <1>1 DEF FlowState
    <3> QED BY <1>1, <1>2, <2>1, <2>2, <3>1, TopMoved DEF FlowState, Idle, Busy
  <2>3. ASSUME NEW kind \in Kinds, Go("failed", kind) PROVE IInv'
    <3> DEFINE f == [Top EXCEPT !.at = "failed", !.why = kind]
    <3>1. f \in FlowState /\ SetTop(f) /\ f.why # "reconnect"
      BY <1>1, <2>3 DEF FlowState, Go, Kinds
    <3> QED BY <1>1, <1>2, <2>1, <3>1, TopMoved DEF FlowState, Idle, Busy
  <2> QED BY <1>4, <2>2, <2>3 DEF ConnectFails
<1>5. CASE ReceiveTooLate
  <2> DEFINE f == [Top EXCEPT !.at = "teardown", !.why = "return"]
  <2>1. f \in FlowState
    BY <1>1 DEF FlowState
  <2>2. SetTop(f) /\ Top.at = "receive" /\ UNCHANGED <<queueVars, conns, aborted, gone>>
    BY <1>5 DEF ReceiveTooLate, At, Go
  <2>3. budget' \in Nat
    BY <1>2, <1>5 DEF ReceiveTooLate
  <2>4. /\ f.at = "teardown" /\ f.why = "return" /\ f.id = Top.id
        /\ f.handle = Top.handle /\ f.conn = Top.conn
    BY <1>1 DEF FlowState
  <2> HIDE DEF f
  <2> QED BY <1>2, <2>1, <2>2, <2>3, <2>4, TopMoved DEF Idle, Busy
<1>6. CASE ReceiveGoAway
  <2> DEFINE f == Thrown(Top, "recoverable")
  <2>1. /\ SetTop(f) /\ Top.at = "receive" /\ budget' \in Nat
        /\ UNCHANGED <<queueVars, conns, aborted, gone>>
    BY <1>2, <1>6 DEF ReceiveGoAway, Receives, At
  <2>2. /\ f \in FlowState /\ f.at = "teardown" /\ f.id = Top.id /\ f.handle = Top.handle
        /\ f.conn = Top.conn /\ (f.why = "reconnect" => f.handle # 0)
    BY <1>1, ThrownTyped DEF Kinds
  <2> HIDE DEF f
  <2> QED BY <1>2, <2>1, <2>2, TopMoved DEF Idle, Busy
<1>7. CASE ReceiveCall
  <2> DEFINE f == [Top EXCEPT !.at = "tool", !.why = "return"]
  <2>1. f \in FlowState
    BY <1>1 DEF FlowState
  <2>2. SetTop(f) /\ Top.at = "receive" /\ UNCHANGED <<queueVars, conns, aborted, gone>>
    BY <1>7 DEF ReceiveCall, Receives, At, Go
  <2>3. budget' \in Nat
    BY <1>2, <1>7 DEF ReceiveCall, Receives
  <2>4. /\ f.at = "tool" /\ f.why = "return" /\ f.id = Top.id
        /\ f.handle = Top.handle /\ f.conn = Top.conn
    BY <1>1 DEF FlowState
  <2> HIDE DEF f
  <2> QED BY <1>2, <2>1, <2>2, <2>3, <2>4, TopMoved DEF Idle, Busy
<1>8. CASE ReceiveEnd
  <2>1. /\ Top.at = "receive" /\ UNCHANGED <<queueVars, conns, budget, aborted, gone>>
    BY <1>8 DEF ReceiveEnd, At
  <2>2. CASE conns[Current].ended = "closed"
    <3> DEFINE f == [Top EXCEPT !.at = "teardown", !.why = "return"]
    <3>1. f \in FlowState /\ SetTop(f)
      BY <1>1, <1>8, <2>2 DEF ReceiveEnd, Go, FlowState
    <3> QED BY <1>1, <1>2, <2>1, <3>1, TopMoved DEF FlowState, Idle, Busy
  <2>3. CASE conns[Current].ended # "closed"
    <3> DEFINE f == Thrown(Top, conns[Current].ended)
    <3>1. conns[Current].ended \in Kinds
      <4>1. Current \in DOMAIN conns
        BY <2>1, Shapes DEF IInv, FlowsOK, Idle, Top, Current
      <4> QED BY <1>8, <2>3, <4>1, Shapes DEF IInv, ReceiveEnd, Conn
    <3>2. /\ f \in FlowState /\ f.at = "teardown" /\ f.id = Top.id /\ f.handle = Top.handle
          /\ f.conn = Top.conn /\ (f.why = "reconnect" => f.handle # 0)
      BY <1>1, <3>1, ThrownTyped
    <3>3. SetTop(f)
      BY <1>8, <2>3 DEF ReceiveEnd
    <3> HIDE DEF f
    <3> QED BY <1>2, <2>1, <3>2, <3>3, TopMoved DEF Idle, Busy
  <2> QED BY <2>2, <2>3
<1>9. CASE ToolAnswered
  <2>1. /\ Top.at = "tool" /\ UNCHANGED <<queueVars, conns, budget, aborted, gone>>
    BY <1>9 DEF ToolAnswered, At
  <2>2. ASSUME NEW place \in {"receive", "teardown", "leaving"}, Go(place, "return") PROVE IInv'
    <3> DEFINE f == [Top EXCEPT !.at = place, !.why = "return"]
    <3>1. f \in FlowState /\ SetTop(f)
      BY <1>1, <2>2 DEF Go, FlowState
    <3> QED BY <1>1, <1>2, <2>1, <3>1, TopMoved DEF FlowState, Idle, Busy
  <2> QED BY <1>9, <2>2 DEF ToolAnswered
<1>10. CASE ToolAnswerFails
  <2>1. /\ Top.at = "tool" /\ UNCHANGED <<queueVars, conns, budget, aborted, gone>>
    BY <1>10 DEF ToolAnswerFails, At
  <2>2. PICK kind \in Kinds : SetTop(Thrown(Top, kind))
    BY <1>10 DEF ToolAnswerFails
  <2> DEFINE f == Thrown(Top, kind)
  <2>3. /\ f \in FlowState /\ f.at = "teardown" /\ f.id = Top.id /\ f.handle = Top.handle
        /\ f.conn = Top.conn /\ (f.why = "reconnect" => f.handle # 0)
    BY <1>1, ThrownTyped
  <2>4. SetTop(f)
    BY <2>2
  <2> HIDE DEF f
  <2> QED BY <1>2, <2>1, <2>3, <2>4, TopMoved DEF Idle, Busy
<1>11. CASE Settle
  <2>1. /\ Top.at = "settling" /\ SetTop(After(Top, conns[Current]))
        /\ UNCHANGED <<queueVars, conns, budget, aborted, gone>>
    BY <1>11 DEF Settle, Settled, At
  <2>2. conns[Current] \in Conn
    <3>1. Current \in DOMAIN conns
      BY <2>1, Shapes DEF IInv, FlowsOK, Idle, Top, Current
    <3> QED BY <3>1, Shapes DEF IInv
  <2> DEFINE f == After(Top, conns[Current])
  <2>3. /\ f \in FlowState /\ f.at \in Idle /\ f.id = Top.id /\ f.handle = Top.handle
        /\ f.conn = Top.conn /\ (f.why = "reconnect" => f.handle # 0)
        /\ (f.at = "failed" => f.why \in Kinds)
        /\ (f.at = "connect" => f.why = "reconnect")
    BY <1>1, <1>2, <2>2, AfterTyped
  <2> HIDE DEF f
  <2>4. SetTop(f)
    BY <2>1 DEF f
  <2> QED BY <1>2, <2>1, <2>3, <2>4, TopMoved DEF Idle, Busy
<1>12. CASE ConsumerStops
  <2>1. gone' = TRUE /\ UNCHANGED <<queueVars, conns, flows, budget, aborted>>
    BY <1>12 DEF ConsumerStops
  <2>2. SetTop(Top)
    BY <2>1, Shapes DEF SetTop, Top, IInv
  <2> QED BY <1>1, <1>2, <2>1, <2>2, TopMoved DEF IInv, HandlesOK
<1>13. CASE HistoryFails
  <2>1. PICK kind \in Kinds : Go("failed", kind)
    BY <1>13 DEF HistoryFails
  <2> DEFINE f == [Top EXCEPT !.at = "failed", !.why = kind]
  <2>2. f \in FlowState /\ SetTop(f) /\ f.why # "reconnect"
    BY <1>1, <2>1 DEF FlowState, Go, Kinds
  <2>3. Top.at = "history" /\ UNCHANGED <<queueVars, conns, budget, aborted, gone>>
    BY <1>13 DEF HistoryFails, At
  <2> QED BY <1>1, <1>2, <2>2, <2>3, TopMoved DEF FlowState, Idle, Busy
<1> QED BY <1>3, <1>4, <1>5, <1>6, <1>7, <1>8, <1>9, <1>10, <1>11, <1>12, <1>13 DEF Local

\* The invariant is kept when the history is sent: the send loop that starts is
\* that of the innermost flow's connection.
LEMMA HistoryKeeps == IInv /\ SendHistory => IInv'
<1> SUFFICES ASSUME IInv, SendHistory PROVE IInv'
  OBVIOUS
<1> DEFINE c == Current
           f == [Top EXCEPT !.at = "receive", !.why = "return"]
           k == [conns[c] EXCEPT !.loop = "top"]
<1>1. /\ Top \in FlowState /\ DOMAIN conns = 1..Len(conns) /\ Len(conns) \in Nat
      /\ conns \in [1..Len(conns) -> Conn]
      /\ DOMAIN flows = 1..Depth /\ Depth \in Nat /\ Depth >= 1
  BY Shapes DEF IInv
<1>2. /\ Top.at = "history" /\ SetTop(f) /\ conns' = [conns EXCEPT ![c] = k]
      /\ UNCHANGED <<queueVars, budget, aborted, gone>>
  BY DEF SendHistory, At, Go
<1>3. c \in DOMAIN conns
  BY <1>1, <1>2 DEF IInv, FlowsOK, Idle, Top, Current
<1>4. /\ f \in FlowState /\ f.at = "receive" /\ f.why = "return" /\ f.id = Top.id
      /\ f.handle = Top.handle /\ f.conn = c
  BY <1>1 DEF FlowState, Current
<1> HIDE DEF f, c
<1>5. /\ k \in Conn /\ k.flow = conns[c].flow /\ k.resume = conns[c].resume
      /\ k.issued = conns[c].issued /\ k.hand = conns[c].hand /\ k.cut = conns[c].cut
      /\ k.open = conns[c].open /\ k.loop = "top"
  <2>1. conns[c] \in Conn
    BY <1>1, <1>3
  <2> QED BY <2>1 DEF Conn
<1> HIDE DEF k
<1>6. conns'[c] = k /\ \A b \in DOMAIN conns : b # c => conns'[b] = conns[b]
  BY <1>1, <1>2, <1>3
<1>7. conns' \in Seq(Conn) /\ Len(conns') = Len(conns) /\ DOMAIN conns' = DOMAIN conns
  <2>1. conns' \in [DOMAIN conns -> Conn]
    BY <1>1, <1>2, <1>5
  <2> QED BY <1>1, <2>1, Retyped DEF IInv, TypeOK
<1>8. /\ flows' \in Seq(FlowState) /\ flows' # << >> /\ Top' = f /\ Current' = c
  BY <1>2, <1>4, SetTopTyped DEF IInv, Current
<1>9. FlowsOK' /\ HandlesOK' /\ ResumesItsOwnSession'
  <2>1. \A b \in DOMAIN conns : /\ conns'[b].flow = conns[b].flow
                                /\ conns'[b].resume = conns[b].resume
                                /\ conns'[b].issued = conns[b].issued
    BY <1>5, <1>6
  <2>2. f.conn = Top.conn
    BY <1>4 DEF c, Current
  <2> QED BY <1>2, <1>4, <1>7, <2>1, <2>2, SessionsMoved DEF Idle
<1>10. TypeOK'
  BY <1>2, <1>7, <1>8 DEF IInv, TypeOK, queueVars
<1>11. QueueOK'
  <2>1. \A b \in DOMAIN conns : conns[b].loop # "parked"
    BY <1>2 DEF IInv, ConnsOK, Busy
  <2>2. \A i \in DOMAIN waiters : waiters[i] # c
    BY <1>3, <2>1 DEF IInv, QueueOK
  <2> QED BY <1>2, <1>6, <1>7, <2>2 DEF IInv, QueueOK, queueVars
<1>12. ConnsOK'
  <2>1. \A b \in DOMAIN conns : conns[b].cut \/ conns[b].loop = "off"
    BY <1>2 DEF IInv, ConnsOK, Busy
  <2> QED BY <1>4, <1>5, <1>6, <1>7, <1>8, <2>1 DEF IInv, ConnsOK, Busy
<1>13. HandedOverInOrder'
  BY <1>2, <1>5, <1>6, <1>7 DEF IInv, HandedOverInOrder, queueVars
<1> QED BY <1>9, <1>10, <1>11, <1>12, <1>13 DEF IInv

\* The invariant is kept by a teardown: its connection is cut.
LEMMA TeardownKeeps == IInv /\ Teardown => IInv'
<1> SUFFICES ASSUME IInv, Teardown PROVE IInv'
  OBVIOUS
<1> DEFINE f == [Top EXCEPT !.at = "settling"]
<1>1. /\ Top \in FlowState /\ DOMAIN flows = 1..Depth /\ Depth \in Nat /\ Depth >= 1
      /\ flows \in [1..Depth -> FlowState]
  BY Shapes DEF IInv
<1>2. /\ Top.at = "teardown" /\ waiters' = Withdrawn(Current) /\ conns' = Cut(Current) /\ SetTop(f)
      /\ UNCHANGED <<next, queue, taken, shut, budget, aborted, gone>>
  BY DEF Teardown, At
<1>3. f \in FlowState
  BY <1>1 DEF FlowState
<1>4. /\ f.at = "settling" /\ f.id = Top.id /\ f.handle = Top.handle /\ f.conn = Top.conn
      /\ f.why = Top.why
  BY <1>1 DEF FlowState
<1> HIDE DEF f
<1>5. Current \in DOMAIN conns
  BY <1>1, <1>2 DEF IInv, FlowsOK, Idle, Top, Current
<1>6. Top.why = "reconnect" => Top.handle # 0
  BY <1>1 DEF IInv, HandlesOK, Top
<1> DEFINE c == Current
<1>7. /\ conns' \in Seq(Conn) /\ Len(conns') = Len(conns) /\ DOMAIN conns' = DOMAIN conns
      /\ \A b \in DOMAIN conns : b # c => conns'[b] = conns[b]
      /\ conns'[c].flow = conns[c].flow /\ conns'[c].resume = conns[c].resume
      /\ conns'[c].issued = conns[c].issued /\ conns'[c].hand = conns[c].hand
      /\ conns'[c].cut /\ ~conns'[c].open /\ conns'[c].loop # "parked"
      /\ waiters' \in Seq(Nat) /\ QueueOK' /\ HandedOverInOrder'
  <2> HIDE DEF c
  <2>1. c \in DOMAIN conns /\ waiters' = Withdrawn(c) /\ conns' = Cut(c)
    BY <1>2, <1>5 DEF c
  <2> QED BY <1>2, <2>1, CutAway
<1>8. \A b \in DOMAIN conns : /\ conns'[b].flow = conns[b].flow
                              /\ conns'[b].resume = conns[b].resume
                              /\ conns'[b].issued = conns[b].issued
  BY <1>7
<1>9. FlowsOK' /\ HandlesOK' /\ ResumesItsOwnSession'
  BY <1>2, <1>3, <1>4, <1>6, <1>7, <1>8, SessionsMoved DEF Idle
<1>10. TypeOK'
  <2>1. flows' \in Seq(FlowState) /\ flows' # << >>
    BY <1>2, <1>3, SetTopTyped DEF IInv
  <2> QED BY <1>2, <1>7, <2>1 DEF IInv, TypeOK
<1>11. ConnsOK'
  BY <1>7 DEF IInv, ConnsOK
<1> QED BY <1>7, <1>9, <1>10, <1>11 DEF IInv

\* The invariant is kept when a flow is told of a handle: it is the connection's
\* own, and no later connection belongs to the flow.
LEMMA HandleKeeps == IInv /\ ReceiveHandle => IInv'
<1> SUFFICES ASSUME IInv, ReceiveHandle PROVE IInv'
  OBVIOUS
<1> DEFINE c == Current
           f == [Top EXCEPT !.handle = c]
           k == [conns[c] EXCEPT !.issued = TRUE]
<1>1. /\ Top \in FlowState /\ DOMAIN flows = 1..Depth /\ Depth \in Nat /\ Depth >= 1
      /\ flows \in [1..Depth -> FlowState] /\ Top = flows[Depth]
      /\ DOMAIN conns = 1..Len(conns) /\ Len(conns) \in Nat
      /\ conns \in [1..Len(conns) -> Conn]
  BY Shapes DEF IInv, Top
<1>2. /\ Top.at = "receive" /\ SetTop(f) /\ conns' = [conns EXCEPT ![c].issued = TRUE]
      /\ UNCHANGED <<queueVars, aborted, gone>>
  BY DEF ReceiveHandle, Receives, At
<1>3. budget' \in Nat
  BY DEF ReceiveHandle, Receives, IInv, TypeOK
<1>4. c \in DOMAIN conns /\ c = Len(conns) /\ conns[c].flow = Top.id /\ Top.conn = c
  BY <1>1, <1>2 DEF IInv, FlowsOK, Idle, Current
<1> HIDE DEF c
<1>5. /\ conns' = [conns EXCEPT ![c] = k] /\ k \in Conn /\ k.issued
      /\ k.flow = conns[c].flow /\ k.resume = conns[c].resume /\ k.cut = conns[c].cut
      /\ k.open = conns[c].open /\ k.loop = conns[c].loop /\ k.hand = conns[c].hand
  <2>1. conns[c] \in Conn
    BY <1>1, <1>4
  <2> QED BY <1>1, <1>2, <1>4, <2>1 DEF Conn
<1> HIDE DEF k
<1>6. conns' \in Seq(Conn) /\ Len(conns') = Len(conns) /\ DOMAIN conns' = DOMAIN conns
  <2>1. conns' \in [DOMAIN conns -> Conn]
    BY <1>1, <1>5
  <2> QED BY <1>1, <2>1, Retyped DEF IInv, TypeOK
<1>7. conns'[c] = k /\ \A b \in DOMAIN conns : b # c => conns'[b] = conns[b]
  BY <1>1, <1>4, <1>5
<1>8. /\ f \in FlowState /\ f.at = Top.at /\ f.id = Top.id /\ f.handle = c
      /\ f.conn = Top.conn /\ f.why = Top.why
  <2>1. c \in Nat
    BY <1>1, <1>4
  <2> QED BY <1>1, <2>1 DEF FlowState
<1> HIDE DEF f
<1>9. /\ flows' \in Seq(FlowState) /\ flows' # << >> /\ Depth' = Depth
      /\ DOMAIN flows' = DOMAIN flows /\ flows'[Depth] = f /\ Top' = f
      /\ \A d \in DOMAIN flows : d # Depth => flows'[d] = flows[d]
  BY <1>2, <1>8, SetTopTyped DEF IInv
<1>10. Current = c /\ Current' = c
  BY <1>4, <1>8, <1>9 DEF Current
<1>11. TypeOK'
  BY <1>2, <1>3, <1>6, <1>9 DEF IInv, TypeOK, queueVars
<1>12. QueueOK' /\ HandedOverInOrder'
  BY <1>2, <1>5, <1>6, <1>7 DEF IInv, QueueOK, HandedOverInOrder, queueVars
<1>13. ConnsOK'
  BY <1>2, <1>5, <1>6, <1>7, <1>8, <1>9, <1>10 DEF IInv, ConnsOK
<1>14. \A b \in DOMAIN conns : conns'[b].flow = conns[b].flow /\ conns'[b].resume = conns[b].resume
  BY <1>5, <1>7
<1>15. \A d \in DOMAIN flows : d # Depth => flows[d].id < Top.id
  BY <1>1 DEF IInv, FlowsOK
<1>16. FlowsOK'
  <2>1. \A d \in DOMAIN flows : flows'[d].id = flows[d].id
    BY <1>1, <1>8, <1>9
  <2>2. \A d, e \in DOMAIN flows : d < e => d # Depth
    BY <1>1
  <2>3. \A d, e \in DOMAIN flows : d < e => flows'[d].at = "nested"
    BY <1>9, <2>2 DEF IInv, FlowsOK
  <2>4. \A d \in DOMAIN flows : flows'[d].at \notin Idle => flows'[d].conn \in DOMAIN conns
    BY <1>1, <1>8, <1>9 DEF IInv, FlowsOK
  <2> QED BY <1>4, <1>6, <1>8, <1>9, <1>10, <1>14, <2>1, <2>3, <2>4 DEF IInv, FlowsOK
<1>17. HandlesOK'
  <2>1. \A d \in DOMAIN flows : Own(flows[d])' = Own(flows[d])
    BY <1>1, <1>6, <1>8, <1>9, <1>14 DEF Own
  <2> SUFFICES ASSUME NEW d \in DOMAIN flows
               PROVE  /\ flows'[d].at = "failed" => flows'[d].why \in Kinds
                      /\ flows'[d].why = "reconnect" => flows'[d].handle # 0
                      /\ flows'[d].handle = 0 /\ flows'[d].at = "connect" => Own(flows[d])' = {}
                      /\ flows'[d].handle # 0 => /\ flows'[d].handle \in Own(flows[d])'
                                                 /\ conns'[flows'[d].handle].issued
                      /\ \A b \in Own(flows[d])' : conns'[b].issued => b <= flows'[d].handle
    BY <1>9 DEF HandlesOK
  <2>2. CASE d = Depth
    <3>1. c \in Own(flows[d]) /\ c # 0
      BY <1>1, <1>4, <2>2 DEF Own
    <3>2. \A b \in Own(flows[d]) : b <= c
      BY <1>1, <1>4 DEF Own
    <3> QED BY <1>2, <1>5, <1>7, <1>8, <1>9, <2>1, <2>2, <3>1, <3>2
  <2>3. CASE d # Depth
    <3>1. c \notin Own(flows[d])
      BY <1>1, <1>4, <1>15, <2>3 DEF Own, FlowState
    <3>2. \A b \in Own(flows[d]) : conns'[b] = conns[b]
      BY <1>7, <3>1 DEF Own
    <3> QED BY <1>9, <2>1, <2>3, <3>2 DEF IInv, HandlesOK
  <2> QED BY <2>2, <2>3
<1>18. ResumesItsOwnSession'
  <2> SUFFICES ASSUME NEW a \in DOMAIN conns
               PROVE  LET earlier == {b \in 1..(a - 1) : conns'[b].flow = conns'[a].flow}
                      IN IF conns'[a].resume = 0 THEN earlier = {}
                         ELSE /\ conns'[a].resume \in earlier /\ conns'[conns'[a].resume].issued
                              /\ \A b \in earlier : conns'[b].issued => b <= conns'[a].resume
    BY <1>6 DEF ResumesItsOwnSession
  <2>1. \A b \in 1..(a - 1) : b \in DOMAIN conns /\ conns'[b] = conns[b]
    BY <1>1, <1>4, <1>7
  <2>2. {b \in 1..(a - 1) : conns'[b].flow = conns'[a].flow}
          = {b \in 1..(a - 1) : conns[b].flow = conns[a].flow}
    BY <1>14, <2>1
  <2> QED BY <1>14, <2>1, <2>2 DEF IInv, ResumesItsOwnSession
<1> QED BY <1>11, <1>12, <1>13, <1>16, <1>17, <1>18 DEF IInv

\* The invariant is kept when a flow opens a connection: no earlier one has a
\* send loop that is not cut, and it resumes the latest handle of its flow.
LEMMA ConnectKeeps == IInv /\ Connect => IInv'
<1> SUFFICES ASSUME IInv, Connect PROVE IInv'
  OBVIOUS
<1>0. PICK replays \in BOOLEAN :
        /\ conns' = Append(conns, NewConnection(Top.id, Top.handle,
                                                IF replays THEN "off" ELSE "top"))
        /\ SetTop([Top EXCEPT !.at = IF replays THEN "history" ELSE "receive",
                              !.conn = Len(conns) + 1])
  BY DEF Connect
<1> DEFINE n == Len(conns) + 1
           loop == IF replays THEN "off" ELSE "top"
           place == IF replays THEN "history" ELSE "receive"
           k == NewConnection(Top.id, Top.handle, loop)
           f == [Top EXCEPT !.at = place, !.conn = n]
<1>1. /\ Top \in FlowState /\ DOMAIN flows = 1..Depth /\ Depth \in Nat /\ Depth >= 1
      /\ flows \in [1..Depth -> FlowState] /\ Top = flows[Depth]
      /\ DOMAIN conns = 1..Len(conns) /\ Len(conns) \in Nat
      /\ conns \in [1..Len(conns) -> Conn] /\ conns \in Seq(Conn)
  BY Shapes DEF IInv, TypeOK, Top
<1>2. /\ Top.at = "connect" /\ SetTop(f) /\ conns' = Append(conns, k)
      /\ UNCHANGED <<queueVars, budget, aborted, gone>>
  BY <1>0 DEF Connect, At
<1>3. /\ k \in Conn /\ k.flow = Top.id /\ k.resume = Top.handle /\ ~k.issued /\ ~k.cut
      /\ k.hand = Nobody /\ k.loop = loop /\ loop # "parked"
  BY <1>1 DEF NewConnection, Conn, FlowState, Nobody
<1>5. n \in Nat /\ n = Len(conns) + 1
  BY <1>1
<1> HIDE DEF k, n
<1>4. /\ f \in FlowState /\ f.at = place /\ place \in {"history", "receive"}
      /\ (loop = "off" \/ place = "receive") /\ f.conn = n /\ f.id = Top.id
      /\ f.handle = Top.handle /\ f.why = Top.why
  BY <1>1, <1>5 DEF FlowState
<1> HIDE DEF f, loop, place
<1>6. /\ conns' \in Seq(Conn) /\ Len(conns') = n /\ DOMAIN conns' = 1..n /\ conns'[n] = k
      /\ \A b \in DOMAIN conns : conns'[b] = conns[b]
  BY <1>1, <1>2, <1>3, <1>5, AppendProperties, LenProperties
<1>7. /\ flows' \in Seq(FlowState) /\ flows' # << >> /\ Depth' = Depth
      /\ DOMAIN flows' = DOMAIN flows /\ flows'[Depth] = f /\ Top' = f
      /\ \A d \in DOMAIN flows : d # Depth => flows'[d] = flows[d]
  BY <1>2, <1>4, SetTopTyped DEF IInv
<1>8. Current' = n
  BY <1>4, <1>7 DEF Current
<1>9. \A b \in DOMAIN conns : conns[b].cut \/ conns[b].loop = "off"
  BY <1>2 DEF IInv, ConnsOK, Busy
<1>10. \A b \in 1..n : b \in DOMAIN conns \/ b = n
  BY <1>1, <1>5
<1>11. DOMAIN conns \subseteq 1..n /\ n \notin DOMAIN conns
  BY <1>1, <1>5
<1>12. Top.id \in Nat /\ Top.id < n
  BY <1>1, <1>5 DEF IInv, FlowsOK, FlowState
<1>13. TypeOK'
  BY <1>2, <1>6, <1>7 DEF IInv, TypeOK, queueVars
<1>14. QueueOK'
  BY <1>2, <1>6, <1>11 DEF IInv, QueueOK, queueVars
<1>15. HandedOverInOrder'
  <2>1. k.hand # Close
    BY <1>3, LiveAssumption DEF Nobody, Close
  <2> QED BY <1>2, <1>6, <1>10, <2>1 DEF IInv, HandedOverInOrder, queueVars
<1>16. ConnsOK'
  BY <1>3, <1>4, <1>6, <1>7, <1>8, <1>9, <1>10 DEF IInv, ConnsOK, Busy
<1>17. FlowsOK'
  <2>1. \A d \in DOMAIN flows : flows'[d].id = flows[d].id
    BY <1>1, <1>4, <1>7
  <2>2. \A d, e \in DOMAIN flows : d < e => d # Depth
    BY <1>1
  <2>3. \A d, e \in DOMAIN flows : d < e => flows'[d].at = "nested"
    BY <1>7, <2>2 DEF IInv, FlowsOK
  <2>4. \A d \in DOMAIN flows : flows'[d].at \notin Idle => flows'[d].conn \in DOMAIN conns'
    BY <1>1, <1>4, <1>5, <1>6, <1>7, <1>11 DEF IInv, FlowsOK
  <2>5. \A d \in DOMAIN flows : flows[d].id <= n
    <3>1. \A d \in DOMAIN flows : flows[d].id \in Nat
      BY <1>1 DEF FlowState
    <3> QED BY <1>1, <1>5, <3>1 DEF IInv, FlowsOK
  <2>6. \A c \in DOMAIN conns' : conns'[c].flow < c
    BY <1>3, <1>6, <1>10, <1>12 DEF IInv, FlowsOK
  <2>7. \A d, e \in DOMAIN flows : d < e => flows[d].id < flows[e].id
    BY DEF IInv, FlowsOK
  <2>8. Current' = Len(conns') /\ conns'[Current'].flow = Top'.id
    BY <1>3, <1>4, <1>6, <1>7, <1>8
  <2> QED BY <1>6, <1>7, <2>1, <2>3, <2>4, <2>5, <2>6, <2>7, <2>8 DEF FlowsOK
<1>18. \A d \in DOMAIN flows : d # Depth => flows[d].id < Top.id
  BY <1>1 DEF IInv, FlowsOK
<1>19. HandlesOK'
  <2> SUFFICES ASSUME NEW d \in DOMAIN flows
               PROVE  /\ flows'[d].at = "failed" => flows'[d].why \in Kinds
                      /\ flows'[d].why = "reconnect" => flows'[d].handle # 0
                      /\ flows'[d].handle = 0 /\ flows'[d].at = "connect" => Own(flows[d])' = {}
                      /\ flows'[d].handle # 0 => /\ flows'[d].handle \in Own(flows[d])'
                                                 /\ conns'[flows'[d].handle].issued
                      /\ \A b \in Own(flows[d])' : conns'[b].issued => b <= flows'[d].handle
    BY <1>7 DEF HandlesOK
  <2>1. flows'[d].handle = flows[d].handle /\ flows'[d].why = flows[d].why
    BY <1>1, <1>4, <1>7
  <2>2. Own(flows[d]) \subseteq DOMAIN conns
    BY DEF Own
  <2>3. CASE d = Depth
    <3>1. Own(flows[d])' = Own(flows[d]) \union {n}
      BY <1>1, <1>3, <1>4, <1>5, <1>6, <1>7, <1>10, <1>11, <2>3 DEF Own
    <3> QED BY <1>1, <1>2, <1>3, <1>4, <1>6, <1>7, <2>1, <2>2, <2>3, <3>1 DEF IInv, HandlesOK
  <2>4. CASE d # Depth
    <3>1. k.flow # flows[d].id
      BY <1>1, <1>3, <1>12, <1>18, <2>4 DEF FlowState
    <3>2. Own(flows[d])' = Own(flows[d])
      BY <1>6, <1>7, <1>10, <1>11, <2>4, <3>1 DEF Own
    <3> QED BY <1>6, <1>7, <2>1, <2>2, <2>4, <3>2 DEF IInv, HandlesOK
  <2> QED BY <2>3, <2>4
<1>20. ResumesItsOwnSession'
  <2> SUFFICES ASSUME NEW a \in 1..n
               PROVE  LET earlier == {b \in 1..(a - 1) : conns'[b].flow = conns'[a].flow}
                      IN IF conns'[a].resume = 0 THEN earlier = {}
                         ELSE /\ conns'[a].resume \in earlier /\ conns'[conns'[a].resume].issued
                              /\ \A b \in earlier : conns'[b].issued => b <= conns'[a].resume
    BY <1>6 DEF ResumesItsOwnSession
  <2>1. \A b \in 1..(a - 1) : b \in DOMAIN conns /\ conns'[b] = conns[b]
    BY <1>1, <1>5, <1>6
  <2>2. CASE a \in DOMAIN conns
    <3>1. conns'[a] = conns[a]
      BY <1>6, <2>2
    <3>2. {b \in 1..(a - 1) : conns'[b].flow = conns'[a].flow}
            = {b \in 1..(a - 1) : conns[b].flow = conns[a].flow}
      BY <2>1, <3>1
    <3> QED BY <2>1, <2>2, <3>1, <3>2 DEF IInv, ResumesItsOwnSession
  <2>3. CASE a = n
    <3>1. {b \in 1..(a - 1) : conns'[b].flow = conns'[a].flow} = Own(Top)
      BY <1>1, <1>3, <1>5, <1>6, <2>1, <2>3 DEF Own
    <3>2. /\ Top.handle = 0 => Own(Top) = {}
          /\ Top.handle # 0 => Top.handle \in Own(Top) /\ conns[Top.handle].issued
          /\ \A b \in Own(Top) : conns[b].issued => b <= Top.handle
      BY <1>1, <1>2 DEF IInv, HandlesOK
    <3>3. Own(Top) \subseteq DOMAIN conns
      BY DEF Own
    <3> QED BY <1>3, <1>6, <2>3, <3>1, <3>2, <3>3
  <2> QED BY <1>10, <2>2, <2>3
<1> QED BY <1>13, <1>14, <1>15, <1>16, <1>17, <1>19, <1>20 DEF IInv

\* The invariant is kept when another agent takes over: its flow owns nothing,
\* being named by the last connection.
LEMMA TransferKeeps == IInv /\ Transfer => IInv'
<1> SUFFICES ASSUME IInv, Transfer PROVE IInv'
  OBVIOUS
<1> DEFINE c == Current
           g == [Top EXCEPT !.at = "nested"]
           m == [flows EXCEPT ![Depth].at = "nested"]
           h == NewFlow(c, NestedHandle)
           n == Depth
<1>1. /\ Top \in FlowState /\ DOMAIN flows = 1..n /\ n \in Nat /\ n >= 1
      /\ flows \in [1..n -> FlowState] /\ Top = flows[n] /\ n = Depth
      /\ DOMAIN conns = 1..Len(conns) /\ Len(conns) \in Nat
      /\ conns \in [1..Len(conns) -> Conn] /\ conns \in Seq(Conn)
  BY Shapes DEF IInv, TypeOK, Top
<1>2. /\ Top.at = "leaving" /\ waiters' = Withdrawn(c) /\ conns' = Cut(c)
      /\ flows' = Append(m, h) /\ UNCHANGED <<next, queue, taken, shut, budget, aborted, gone>>
  BY DEF Transfer, At
<1>3. c \in DOMAIN conns /\ c = Len(conns) /\ conns[c].flow = Top.id /\ c = Current
  BY <1>1, <1>2 DEF IInv, FlowsOK, Idle, Current
<1> HIDE DEF c, n
<1>4. /\ conns' \in Seq(Conn) /\ Len(conns') = Len(conns) /\ DOMAIN conns' = DOMAIN conns
      /\ \A b \in DOMAIN conns : b # c => conns'[b] = conns[b]
      /\ conns'[c].flow = conns[c].flow /\ conns'[c].resume = conns[c].resume
      /\ conns'[c].issued = conns[c].issued /\ conns'[c].hand = conns[c].hand
      /\ conns'[c].cut /\ ~conns'[c].open /\ conns'[c].loop # "parked"
      /\ waiters' \in Seq(Nat) /\ QueueOK' /\ HandedOverInOrder'
  BY <1>2, <1>3, CutAway
<1>5. /\ g \in FlowState /\ g.at = "nested" /\ g.id = Top.id /\ g.conn = Top.conn
      /\ g.handle = Top.handle /\ g.why = Top.why
  BY <1>1 DEF FlowState
<1>6. /\ h \in FlowState /\ h.at = "connect" /\ h.id = c /\ h.handle = 0 /\ h.why = "return"
  BY <1>1, <1>3 DEF NewFlow, NestedHandle, FlowState
<1>7. /\ m \in Seq(FlowState) /\ Len(m) = n /\ m[n] = g
      /\ \A d \in 1..n : d # n => m[d] = flows[d]
  <2>1. m = [flows EXCEPT ![n] = g]
    BY <1>1
  <2>2. m \in [DOMAIN flows -> FlowState]
    BY <1>1, <1>5, <2>1
  <2>3. m \in Seq(FlowState) /\ Len(m) = Len(flows)
    BY <2>2, Retyped DEF IInv, TypeOK
  <2> QED BY <1>1, <2>1, <2>3 DEF Depth
<1> HIDE DEF g, h, m
<1>8. /\ flows' \in Seq(FlowState) /\ Depth' = n + 1 /\ DOMAIN flows' = 1..(n + 1)
      /\ flows'[n + 1] = h /\ flows'[n] = g /\ \A d \in 1..n : d # n => flows'[d] = flows[d]
  <2>1. /\ flows' \in Seq(FlowState) /\ Len(flows') = n + 1
        /\ flows'[n + 1] = h /\ \A d \in 1..n : flows'[d] = m[d]
    BY <1>1, <1>2, <1>6, <1>7, AppendProperties
  <2>2. DOMAIN flows' = 1..(n + 1) /\ Depth' = n + 1
    BY <2>1, LenProperties DEF Depth
  <2>3. n \in 1..n
    BY <1>1
  <2> QED BY <1>7, <2>1, <2>2, <2>3
<1>9. flows' # << >> /\ Top' = h
  <2>1. Top' = h
    BY <1>8 DEF Top
  <2>2. Len(flows') # 0
    <3>1. Len(flows') = n + 1
      BY <1>8 DEF Depth
    <3> QED BY <1>1, <3>1
  <2> QED BY <1>8, <2>1, <2>2, EmptySeq
<1>10. \A d \in 1..n : /\ flows'[d].id = flows[d].id /\ flows'[d].conn = flows[d].conn
                       /\ flows'[d].handle = flows[d].handle /\ flows'[d].why = flows[d].why
                       /\ flows'[d].at = "nested" /\ flows[d].at # "failed"
  <2>1. \A d \in 1..n : d # n => flows[d].at = "nested"
    BY <1>1 DEF IInv, FlowsOK
  <2> QED BY <1>1, <1>2, <1>5, <1>8, <2>1
<1>11. \A d \in 1..(n + 1) : d \in 1..n \/ d = n + 1
  BY <1>1
<1>12. \A b \in DOMAIN conns : /\ conns'[b].flow = conns[b].flow
                               /\ conns'[b].resume = conns[b].resume
                               /\ conns'[b].issued = conns[b].issued
  BY <1>4
<1>13. TypeOK'
  BY <1>2, <1>4, <1>8, <1>9 DEF IInv, TypeOK
<1>14. ConnsOK'
  BY <1>3, <1>4 DEF IInv, ConnsOK
<1>15. \A d \in 1..n : flows[d].id \in Nat /\ flows[d].id < c
  <2>1. Top.id < c
    BY <1>3 DEF IInv, FlowsOK
  <2>2. \A d \in 1..n : flows[d].id \in Nat /\ (d # n => flows[d].id < Top.id)
    BY <1>1 DEF FlowState, IInv, FlowsOK
  <2> QED BY <1>1, <1>3, <2>1, <2>2
<1>16. FlowsOK'
  <2>1. \A d \in 1..(n + 1) : flows'[d].id <= Len(conns')
    <3>1. c \in Nat /\ Len(conns') = c
      BY <1>1, <1>3, <1>4
    <3>2. \A d \in 1..n : flows'[d].id <= c
      BY <1>10, <1>15, <3>1
    <3>3. flows'[n + 1].id <= c
      BY <1>6, <1>8, <3>1
    <3> QED BY <1>11, <3>1, <3>2, <3>3
  <2>2. \A d, e \in 1..(n + 1) : d < e => flows'[d].id < flows'[e].id /\ flows'[d].at = "nested"
    <3> SUFFICES ASSUME NEW d \in 1..(n + 1), NEW e \in 1..(n + 1), d < e
                 PROVE  flows'[d].id < flows'[e].id /\ flows'[d].at = "nested"
      OBVIOUS
    <3>1. d \in 1..n
      BY <1>1
    <3>2. CASE e = n + 1
      BY <1>6, <1>8, <1>10, <1>15, <3>1, <3>2
    <3>3. CASE e \in 1..n
      BY <1>1, <1>10, <3>1, <3>3 DEF IInv, FlowsOK
    <3> QED BY <1>11, <3>2, <3>3
  <2>3. \A d \in 1..(n + 1) : flows'[d].at \notin Idle => flows'[d].conn \in DOMAIN conns'
    <3>1. \A d \in 1..n : flows[d].at \notin Idle
      <4>1. \A d \in 1..n : d # n => flows[d].at = "nested"
        BY <1>1 DEF IInv, FlowsOK
      <4> QED BY <1>1, <1>2, <4>1 DEF Idle
    <3>2. \A d \in 1..n : flows'[d].conn \in DOMAIN conns'
      BY <1>1, <1>4, <1>10, <3>1 DEF IInv, FlowsOK
    <3>3. flows'[n + 1].at \in Idle
      BY <1>6, <1>8 DEF Idle
    <3> QED BY <1>11, <3>2, <3>3
  <2>4. \A b \in DOMAIN conns' : conns'[b].flow < b
    BY <1>4, <1>12 DEF IInv, FlowsOK
  <2> QED BY <1>6, <1>8, <1>9, <2>1, <2>2, <2>3, <2>4 DEF FlowsOK
<1>17. HandlesOK'
  <2> SUFFICES ASSUME NEW d \in 1..(n + 1)
               PROVE  /\ flows'[d].at = "failed" => flows'[d].why \in Kinds
                      /\ flows'[d].why = "reconnect" => flows'[d].handle # 0
                      /\ flows'[d].handle = 0 /\ flows'[d].at = "connect" => Own(flows[d])' = {}
                      /\ flows'[d].handle # 0 => /\ flows'[d].handle \in Own(flows[d])'
                                                 /\ conns'[flows'[d].handle].issued
                      /\ \A b \in Own(flows[d])' : conns'[b].issued => b <= flows'[d].handle
    BY <1>8 DEF HandlesOK
  <2>1. CASE d \in 1..n
    <3>1. Own(flows[d])' = Own(flows[d])
      BY <1>4, <1>10, <1>12, <2>1 DEF Own
    <3>2. Own(flows[d]) \subseteq DOMAIN conns
      BY DEF Own
    <3> QED BY <1>1, <1>10, <1>12, <2>1, <3>1, <3>2 DEF IInv, HandlesOK
  <2>2. CASE d = n + 1
    <3>1. Own(flows[d])' = {b \in DOMAIN conns : conns[b].flow = c}
      BY <1>4, <1>6, <1>8, <1>12, <2>2 DEF Own
    <3>2. \A b \in DOMAIN conns : conns[b].flow # c
      <4>1. \A b \in DOMAIN conns : conns[b].flow \in Nat /\ conns[b].flow < b /\ b <= c
        BY <1>1, <1>3 DEF IInv, FlowsOK, Conn
      <4> QED BY <1>1, <1>3, <4>1
    <3> QED BY <1>6, <1>8, <2>2, <3>1, <3>2
  <2> QED BY <1>11, <2>1, <2>2
<1>18. ResumesItsOwnSession'
  <2> SUFFICES ASSUME NEW a \in DOMAIN conns
               PROVE  LET earlier == {b \in 1..(a - 1) : conns'[b].flow = conns'[a].flow}
                      IN IF conns'[a].resume = 0 THEN earlier = {}
                         ELSE /\ conns'[a].resume \in earlier /\ conns'[conns'[a].resume].issued
                              /\ \A b \in earlier : conns'[b].issued => b <= conns'[a].resume
    BY <1>4 DEF ResumesItsOwnSession
  <2>1. 1..(a - 1) \subseteq DOMAIN conns
    BY <1>1
  <2>2. {b \in 1..(a - 1) : conns'[b].flow = conns'[a].flow}
          = {b \in 1..(a - 1) : conns[b].flow = conns[a].flow}
    BY <1>12, <2>1
  <2> QED BY <1>12, <2>1, <2>2 DEF IInv, ResumesItsOwnSession
<1> QED BY <1>4, <1>13, <1>14, <1>16, <1>17, <1>18 DEF IInv

\* The invariant is kept when another agent's flow ends: no send loop is left
\* that is not cut, and the outer flow tears its own down again.
LEMMA NestedKeeps == IInv /\ NestedEnds => IInv'
<1> SUFFICES ASSUME IInv, NestedEnds PROVE IInv'
  OBVIOUS
<1> DEFINE n == Depth - 1
           outer == flows[n]
           after == IF Top.at = "done" THEN [outer EXCEPT !.at = "teardown", !.why = "return"]
                    ELSE Thrown(outer, Top.why)
           s == SubSeq(flows, 1, Depth - 2)
<1>1. /\ DOMAIN flows = 1..Depth /\ Depth \in Nat /\ flows \in [1..Depth -> FlowState]
      /\ Top = flows[Depth] /\ flows \in Seq(FlowState)
  BY Shapes DEF IInv, TypeOK, Top
<1>2. /\ Depth > 1 /\ Top.at \in {"done", "failed"} /\ flows' = Append(s, after)
      /\ UNCHANGED <<queueVars, conns, budget, aborted, gone>>
  BY DEF NestedEnds
<1>3. n \in Nat /\ n >= 1 /\ Depth = n + 1 /\ Depth - 2 = n - 1
  BY <1>1, <1>2
<1> HIDE DEF n
<1>4. outer \in FlowState /\ outer.at = "nested" /\ outer.conn \in DOMAIN conns
  <2>1. n \in DOMAIN flows /\ Depth \in DOMAIN flows /\ n < Depth
    BY <1>1, <1>3
  <2>2. outer.at = "nested" /\ outer \in FlowState
    BY <1>1, <2>1 DEF IInv, FlowsOK
  <2> QED BY <2>1, <2>2 DEF IInv, FlowsOK, Idle
<1>5. /\ after \in FlowState /\ after.at = "teardown" /\ after.id = outer.id
      /\ after.handle = outer.handle /\ after.conn = outer.conn
      /\ after.why = "reconnect" => outer.handle # 0
  <2>1. CASE Top.at = "done"
    BY <1>4, <2>1 DEF FlowState
  <2>2. CASE Top.at = "failed"
    <3>1. Top.why \in Kinds
      BY <1>1, <1>3, <2>2 DEF IInv, HandlesOK
    <3>2. after = Thrown(outer, Top.why)
      BY <2>2
    <3> HIDE DEF after, outer
    <3> QED BY <1>4, <3>1, <3>2, ThrownTyped
  <2> QED BY <1>2, <2>1, <2>2
<1>6. /\ s \in Seq(FlowState) /\ Len(s) = n - 1
      /\ \A d \in 1..(n - 1) : s[d] = flows[d]
  <2>1. \A d \in 1..(n - 1) : flows[d] \in FlowState
    BY <1>1, <1>3
  <2>2. s = SubSeq(flows, 1, n - 1)
    BY <1>3
  <2> DEFINE r == SubSeq(flows, 1, n - 1)
  <2>3. /\ r \in Seq(FlowState) /\ Len(r) = IF 1 <= n - 1 THEN n - 1 - 1 + 1 ELSE 0
        /\ \A d \in 1..(n - 1 - 1 + 1) : r[d] = flows[1 + d - 1]
    BY <1>3, <2>1, SubSeqProperties
  <2> HIDE DEF r, s
  <2>4. r \in Seq(FlowState) /\ Len(r) = n - 1 /\ \A d \in 1..(n - 1) : r[d] = flows[d]
    BY <1>3, <2>3
  <2> QED BY <2>2, <2>4 DEF r
<1> DEFINE o == outer
           a == after
<1>7. o = flows[n]
  OBVIOUS
<1> HIDE DEF s, a, o
<1>8. /\ flows' \in Seq(FlowState) /\ Depth' = n /\ DOMAIN flows' = 1..n
      /\ flows'[n] = a /\ \A d \in 1..n : d # n => flows'[d] = flows[d]
  <2>1. a \in FlowState /\ flows' = Append(s, a)
    BY <1>2, <1>5 DEF a
  <2>2. /\ flows' \in Seq(FlowState) /\ Len(flows') = (n - 1) + 1
        /\ flows'[(n - 1) + 1] = a /\ \A d \in 1..(n - 1) : flows'[d] = s[d]
    BY <1>3, <1>6, <2>1, AppendProperties
  <2>3. (n - 1) + 1 = n /\ \A d \in 1..n : d # n => d \in 1..(n - 1)
    BY <1>3
  <2> QED BY <1>3, <1>6, <2>2, <2>3, LenProperties DEF Depth
<1>9. /\ a \in FlowState /\ a.at = "teardown" /\ a.id = o.id /\ a.handle = o.handle
      /\ a.conn = o.conn /\ o.conn \in DOMAIN conns /\ o.at = "nested"
      /\ a.why = "reconnect" => o.handle # 0
  BY <1>4, <1>5 DEF a, o
<1>10. flows' # << >> /\ Top' = a
  BY <1>3, <1>8, EmptySeq DEF Top, Depth
<1>11. 1..n \subseteq DOMAIN flows
  BY <1>1, <1>3
<1>12. \A d \in 1..n : flows'[d].id = flows[d].id /\ flows'[d].handle = flows[d].handle
  BY <1>7, <1>8, <1>9
<1>13. TypeOK' /\ QueueOK' /\ HandedOverInOrder' /\ ResumesItsOwnSession'
  <2>1. TypeOK'
    BY <1>2, <1>8, <1>10 DEF IInv, TypeOK, queueVars
  <2>2. QueueOK'
    BY <1>2 DEF IInv, QueueOK, queueVars
  <2>3. HandedOverInOrder' /\ ResumesItsOwnSession'
    BY <1>2 DEF IInv, HandedOverInOrder, ResumesItsOwnSession, queueVars
  <2> QED BY <2>1, <2>2, <2>3
<1>14. ConnsOK'
  BY <1>2 DEF IInv, ConnsOK, Busy
<1>15. FlowsOK'
  <2>1. \A d, e \in 1..n : d < e => d # n
    BY <1>3
  <2>2. \A d, e \in 1..n : d < e => flows'[d].id < flows'[e].id /\ flows'[d].at = "nested"
    BY <1>8, <1>11, <1>12, <2>1 DEF IInv, FlowsOK
  <2>3. \A d \in 1..n : flows'[d].at \notin Idle => flows'[d].conn \in DOMAIN conns
    BY <1>8, <1>9, <1>11 DEF IInv, FlowsOK
  <2> QED BY <1>2, <1>8, <1>9, <1>10, <1>11, <1>12, <2>2, <2>3 DEF IInv, FlowsOK
<1>16. HandlesOK'
  <2> SUFFICES ASSUME NEW d \in 1..n
               PROVE  /\ flows'[d].at = "failed" => flows'[d].why \in Kinds
                      /\ flows'[d].why = "reconnect" => flows'[d].handle # 0
                      /\ flows'[d].handle = 0 /\ flows'[d].at = "connect" => Own(flows[d])' = {}
                      /\ flows'[d].handle # 0 => /\ flows'[d].handle \in Own(flows[d])'
                                                 /\ conns'[flows'[d].handle].issued
                      /\ \A b \in Own(flows[d])' : conns'[b].issued => b <= flows'[d].handle
    BY <1>8 DEF HandlesOK
  <2>1. Own(flows[d])' = Own(flows[d])
    BY <1>2, <1>12 DEF Own
  <2>2. d # n => flows'[d] = flows[d]
    BY <1>8
  <2>3. d = n => flows'[d].at = "teardown" /\ (flows'[d].why = "reconnect" => flows'[d].handle # 0)
    BY <1>8, <1>9
  <2> QED BY <1>2, <1>11, <1>12, <2>1, <2>2, <2>3 DEF IInv, HandlesOK
<1> QED BY <1>13, <1>14, <1>15, <1>16 DEF IInv

---------------------------------------------------------------------------
(* The invariant and what follows                                          *)

\* Nothing is open and nothing was sent.
LEMMA InitInv == Init => IInv
<1> SUFFICES ASSUME Init PROVE IInv
  OBVIOUS
<1> USE LiveAssumption
<1> DEFINE f == NewFlow(0, 0)
<1>1. /\ next = 1 /\ queue = << >> /\ taken = << >> /\ shut = FALSE /\ waiters = << >>
      /\ conns = << >> /\ flows = <<f>>
      /\ budget = MaxMessages /\ aborted = FALSE /\ gone = FALSE
  BY DEF Init
<1>2. /\ f \in FlowState /\ f.id = 0 /\ f.at = "connect" /\ f.handle = 0
      /\ f.conn = 0 /\ f.why = "return"
  BY DEF NewFlow, FlowState
<1> HIDE DEF f
<1>3. /\ flows \in Seq(FlowState) /\ flows # << >> /\ DOMAIN flows = 1..1 /\ flows[1] = f
      /\ Depth = 1 /\ Top = f
  BY <1>1, <1>2 DEF Depth, Top
<1>4. /\ conns \in Seq(Conn) /\ DOMAIN conns = {} /\ Len(conns) = 0
      /\ waiters \in Seq(Nat) /\ DOMAIN waiters = {}
      /\ queue \in Seq(Nat) /\ taken \in Seq(Nat)
  BY <1>1, EmptySeq, LenProperties
<1>5. TypeOK
  BY <1>1, <1>3, <1>4 DEF TypeOK
<1>6. QueueOK
  BY <1>1, <1>4 DEF QueueOK
<1>7. ConnsOK /\ ResumesItsOwnSession
  BY <1>4 DEF ConnsOK, ResumesItsOwnSession
<1>8. \A d, e \in DOMAIN flows : ~(d < e)
  BY <1>3
<1>9. FlowsOK
  BY <1>2, <1>3, <1>4, <1>8 DEF FlowsOK, Idle
<1>10. HandlesOK
  BY <1>2, <1>3, <1>4 DEF HandlesOK, Own
<1>11. HandedOverInOrder
  <2> DEFINE none == [i \in 1..(next - 1) |-> i]
  <2>1. DOMAIN none = 1..0 /\ none \in [1..0 -> Nat]
    BY <1>1
  <2>2. none \in Seq(Nat) /\ Len(none) = 0
    <3>1. DOMAIN queue = 1..0 /\ Len(queue) = 0
      BY <1>1, <1>4, EmptySeq, LenProperties
    <3>2. none \in [DOMAIN queue -> Nat]
      BY <2>1, <3>1
    <3> HIDE DEF none
    <3> QED BY <1>4, <3>1, <3>2, Retyped
  <2> HIDE DEF none
  <2>3. none = << >>
    BY <2>2, EmptySeq
  <2>4. taken \o queue = << >>
    BY <1>1, <1>4, ConcatEmptySeq
  <2> QED BY <1>4, <2>3, <2>4 DEF HandedOverInOrder, none
<1> QED BY <1>5, <1>6, <1>7, <1>9, <1>10, <1>11 DEF IInv

\* Every step keeps the invariant.
LEMMA NextInv == IInv /\ [Next]_vars => IInv'
<1> SUFFICES ASSUME IInv, [Next]_vars PROVE IInv'
  OBVIOUS
<1>1. CASE SendRequest
  BY <1>1, SendKeeps
<1>2. CASE CloseQueue
  BY <1>2, CloseKeeps
<1>3. CASE Abort
  BY <1>3, AbortKeeps
<1>4. ASSUME NEW c \in DOMAIN conns, SendLoop(c) \/ ServerEnds(c) PROVE IInv'
  BY <1>4, SendLoopKeeps
<1>5. CASE ReceiveHandle
  BY <1>5, HandleKeeps
<1>6. CASE Connect
  BY <1>6, ConnectKeeps
<1>7. CASE Transfer
  BY <1>7, TransferKeeps
<1>8. CASE NestedEnds
  BY <1>8, NestedKeeps
<1>9. CASE Teardown
  BY <1>9, TeardownKeeps
<1>10. CASE Local \/ SendHistory
  BY <1>10, LocalKeeps, HistoryKeeps
<1>11. ASSUME UNCHANGED vars PROVE IInv'
  <2>1. SetTop(Top) /\ Top \in FlowState
    BY <1>11, Shapes DEF SetTop, Top, IInv, vars
  <2>2. /\ budget' \in Nat /\ aborted' \in BOOLEAN /\ gone' \in BOOLEAN
        /\ UNCHANGED <<queueVars, conns>>
        /\ Top.why = "reconnect" => Top.handle # 0
        /\ Top.at = "failed" => Top.why \in Kinds
    BY <1>11, Shapes DEF IInv, TypeOK, HandlesOK, Top, vars
  <2> QED BY <2>1, <2>2, TopMoved
<1> QED BY <1>1, <1>2, <1>3, <1>4, <1>5, <1>6, <1>7, <1>8, <1>9, <1>10, <1>11
        DEF Next, Flow, Server, Rest, Local

LEMMA Invariance == Spec => []IInv
BY InitInv, NextInv, PTL DEF Spec

\* The variables of LiveFlow keep their types.
THEOREM TypeCorrect == Spec => []TypeOK
<1>1. IInv => TypeOK
  BY DEF IInv
<1> QED BY <1>1, Invariance, PTL

\* Every request goes to one send loop, in the order of LiveRequestQueue.send, however
\* often the flow reconnects or hands over.
THEOREM NoRequestIsLost == Spec => []HandedOverInOrder
<1>1. IInv => HandedOverInOrder
  BY DEF IInv
<1> QED BY <1>1, Invariance, PTL

\* Every connection that runLiveFlow opens resumes the latest handle of its own
\* agent's flow, and only a flow's first connection replays the history.
THEOREM HandlesStayWithTheirFlow == Spec => []ResumesItsOwnSession
<1>1. IInv => ResumesItsOwnSession
  BY DEF IInv
<1> QED BY <1>1, Invariance, PTL

\* When the outermost flow is over, no read of the caller's queue is parked, and
\* every connection is closed (teardownLiveConnection) except those on which
\* sendHistory failed: runLiveFlow awaits it outside every try.
THEOREM TeardownIsComplete == Spec => []NothingOutlivesTheFlow
<1>1. ASSUME IInv, Over PROVE NothingOutlivesTheFlow
  <2>1. \A c \in DOMAIN conns : conns[c].cut \/ Abandoned(c)
    BY <1>1 DEF IInv, ConnsOK, Over, Busy, Abandoned
  <2>2. \A c \in DOMAIN conns : /\ conns[c].cut => ~conns[c].open
                               /\ conns[c].loop # "parked"
    BY <1>1, <2>1 DEF IInv, ConnsOK, Abandoned
  <2>3. waiters = << >>
    <3>1. DOMAIN waiters = {}
      BY <1>1, <2>2 DEF IInv, QueueOK
    <3>2. waiters \in Seq(Nat) /\ DOMAIN waiters = 1..Len(waiters) /\ Len(waiters) \in Nat
      BY <1>1, LenProperties DEF IInv, TypeOK
    <3>3. Len(waiters) = 0
      BY <3>1, <3>2
    <3> QED BY <3>2, <3>3, EmptySeq
  <2> QED BY <2>1, <2>2, <2>3 DEF NothingOutlivesTheFlow
<1>2. IInv => NothingOutlivesTheFlow
  BY <1>1 DEF NothingOutlivesTheFlow
<1> QED BY <1>2, Invariance, PTL

\* What the send loop of connection c keeps when the step is not its own.
LEMMA HandsKept ==
  ASSUME IInv, Next, NEW c \in DOMAIN conns, conns[c].cut
  PROVE  conns'[c].hand \in {conns[c].hand, Nobody}
<1> DEFINE Kept == conns'[c].hand \in {conns[c].hand, Nobody}
<1>1. /\ DOMAIN conns = 1..Len(conns) /\ Len(conns) \in Nat
      /\ conns \in [1..Len(conns) -> Conn] /\ conns \in Seq(Conn)
      /\ DOMAIN waiters = 1..Len(waiters) /\ Len(waiters) \in Nat /\ waiters \in Seq(Nat)
  BY Shapes, LenProperties DEF IInv, TypeOK
<1>2. \A i \in DOMAIN waiters : waiters[i] # c
  BY DEF IInv, QueueOK, ConnsOK
<1>3. CASE SendRequest
  <2>1. waiters # << >> => Head(waiters) # c
    <3>1. waiters # << >> => Len(waiters) # 0
      BY <1>1, EmptySeq
    <3> QED BY <1>1, <1>2, <3>1
  <2> QED BY <1>1, <1>3, <2>1 DEF SendRequest, Given
<1>4. CASE CloseQueue
  <2>1. ~Contains(waiters, c)
    BY <1>1, <1>2 DEF Contains
  <2> QED BY <1>1, <1>4, <2>1 DEF CloseQueue
<1>5. CASE Abort
  BY <1>1, <1>5 DEF Abort
<1>6. ASSUME NEW b \in DOMAIN conns, SendLoop(b) \/ ServerEnds(b) PROVE Kept
  <2>1. CASE StopSending(b)
    BY <1>1, <2>1 DEF StopSending, Conn
  <2>2. CASE TakeRequest(b)
    <3>1. b # c
      BY <2>2 DEF TakeRequest, Stopped
    <3> QED BY <1>1, <2>2, <3>1 DEF TakeRequest, Given
  <2>3. CASE TakeClose(b)
    <3>1. b # c
      BY <2>3 DEF TakeClose, Stopped
    <3> QED BY <1>1, <2>3, <3>1 DEF TakeClose, Given
  <2>4. CASE Park(b)
    BY <1>1, <2>4 DEF Park, Conn
  <2>5. CASE Dispatch(b)
    BY <1>1, <2>5 DEF Dispatch, Conn
  <2>6. CASE DispatchClose(b)
    BY <1>1, <2>6 DEF DispatchClose, Conn
  <2>7. CASE DispatchFails(b)
    <3>1. CASE b = c
      <4>1. conns' = [conns EXCEPT ![c].loop = "done", ![c].hand = Nobody]
        BY <2>7, <3>1 DEF DispatchFails, Stopped
      <4> QED BY <1>1, <4>1 DEF Conn
    <3>2. CASE b # c
      <4>1. conns'[c] = conns[c]
        <5>1. CASE conns' = [conns EXCEPT ![b].loop = "done", ![b].hand = Nobody]
          BY <1>1, <3>2, <5>1
        <5>2. ASSUME NEW kind \in Kinds,
                     conns' = [conns EXCEPT ![b].loop = "done", ![b].hand = Nobody,
                                 ![b].failed = kind, ![b].cut = TRUE, ![b].open = FALSE]
              PROVE  conns'[c] = conns[c]
          BY <1>1, <3>2, <5>2
        <5> QED BY <2>7, <5>1, <5>2 DEF DispatchFails
      <4> QED BY <4>1
    <3> QED BY <3>1, <3>2
  <2>8. CASE ServerEnds(b)
    BY <1>1, <2>8 DEF ServerEnds, Conn
  <2> QED BY <1>6, <2>1, <2>2, <2>3, <2>4, <2>5, <2>6, <2>7, <2>8 DEF SendLoop
<1>7. CASE ReceiveHandle
  BY <1>1, <1>7 DEF ReceiveHandle, Conn
<1>8. CASE Connect \/ SendHistory
  <2>1. CASE Connect
    <3>1. PICK loop \in {"off", "top"} :
            conns' = Append(conns, NewConnection(Top.id, Top.handle, loop))
      BY <2>1 DEF Connect
    <3>2. NewConnection(Top.id, Top.handle, loop) \in Conn
      BY Shapes DEF NewConnection, Conn, FlowState, Nobody, IInv
    <3> QED BY <1>1, <3>1, <3>2, AppendProperties
  <2>2. CASE SendHistory
    BY <1>1, <2>2 DEF SendHistory, Conn
  <2> QED BY <1>8, <2>1, <2>2
<1>9. CASE conns' = Cut(Current)
  BY <1>1, <1>9 DEF Cut, Conn
<1>10. CASE UNCHANGED conns
  BY <1>10
<1>11. /\ Transfer \/ Teardown => conns' = Cut(Current)
       /\ NestedEnds \/ Rest \/ Local => UNCHANGED conns
  BY DEF Transfer, Teardown, NestedEnds, Rest, vars, Local, NotConnected, ConnectFails,
         HistoryFails, ReceiveTooLate, ReceiveGoAway, ReceiveCall, ReceiveEnd, ToolAnswered,
         ToolAnswerFails, Settle, ConsumerStops
<1> QED BY <1>3, <1>4, <1>5, <1>6, <1>7, <1>8, <1>9, <1>10, <1>11 DEF Next, Flow, Server, Local

\* A connection cut by a reconnect, a transfer or a failure is handed no further
\* request of the caller (LiveRequestQueue.get and its abort listener).
THEOREM CutMeansSilent == Spec => CutConnectionTakesNothing
<1>1. IInv /\ [Next]_vars
        => [\A c \in DOMAIN conns : conns[c].cut => conns'[c].hand \in {conns[c].hand, Nobody}]_vars
  BY HandsKept
<1> QED BY <1>1, Invariance, PTL DEF Spec, CutConnectionTakesNothing
===============================================================================
