---------------------------- MODULE Activations ----------------------------
(***************************************************************************)
(* What a workflow turn promises about the activations of its nodes,       *)
(* whatever the graph, the outputs and the resumed history:                *)
(*   - a trigger starts at most one activation;                            *)
(*   - a node never runs twice at the same time;                           *)
(*   - at most Limit activations run at once (0: no limit);                *)
(*   - once a node failed nothing is triggered or started any more, and    *)
(*     the turn does not end before every body has stopped.                *)
(***************************************************************************)
EXTENDS Naturals, FiniteSets

CONSTANTS Node, Limit, Seeded

VARIABLES queued,   \* queued[n]: triggers waiting for node n
          running,  \* nodes with an activation in progress
          mode      \* "open", "failing" or "closed"

vars == <<queued, running, mode>>

Init ==
  /\ queued = [n \in Node |-> IF n \in Seeded THEN 1 ELSE 0]
  /\ running = {}
  /\ mode = "open"

Start(n) ==
  /\ mode = "open"
  /\ queued[n] > 0
  /\ n \notin running
  /\ Limit # 0 => Cardinality(running) < Limit
  /\ queued' = [queued EXCEPT ![n] = @ - 1]
  /\ running' = running \cup {n}
  /\ UNCHANGED mode

Finish(n) ==
  /\ n \in running
  /\ mode \in {"open", "failing"}
  /\ running' = running \ {n}
  /\ UNCHANGED <<queued, mode>>

Enqueue(n) ==
  /\ mode = "open"
  /\ queued' = [queued EXCEPT ![n] = @ + 1]
  /\ UNCHANGED <<running, mode>>

\* The failed activation is over; so are those that never had a body.
Fail ==
  /\ mode = "open"
  /\ running # {}
  /\ running' \in (SUBSET running) \ {running}
  /\ mode' = "failing"
  /\ UNCHANGED queued

Close ==
  /\ mode \in {"open", "failing"}
  /\ running = {}
  /\ mode' = "closed"
  /\ UNCHANGED <<queued, running>>

Next ==
  \/ \E n \in Node : Start(n) \/ Finish(n) \/ Enqueue(n)
  \/ Fail
  \/ Close

Spec == Init /\ [][Next]_vars
=============================================================================
