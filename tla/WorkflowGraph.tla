--------------------------- MODULE WorkflowGraph ---------------------------
(***************************************************************************)
(* The compiled workflow graph: edges in declaration order, the routing    *)
(* rule that picks the successors of a completed node, and the structural  *)
(* validation a graph passes before any workflow can run it.               *)
(*                                                                         *)
(* An edge is a record [from, to, routes].  `routes' is the set of route   *)
(* values the edge is keyed to: {} is an unconditional edge and {Default}  *)
(* the DEFAULT_ROUTE edge.                                                 *)
(***************************************************************************)
EXTENDS Naturals, Sequences, FiniteSets

LOCAL G == INSTANCE Graphs

CONSTANTS START,      \* the START node
          Default     \* the DEFAULT_ROUTE value

Unconditional(e) == e.routes = {}
IsDefault(e) == e.routes = {Default}
Matches(e, emitted) ==
  ~Unconditional(e) /\ ~IsDefault(e) /\ e.routes \cap emitted # {}

EdgesFrom(edges, n) == SelectSeq(edges, LAMBDA e : e.from = n)
TargetsOf(edges) == [i \in DOMAIN edges |-> edges[i].to]

\* Successors of n when it emitted the routes `emitted' ({} when it emitted
\* none), in the order they are triggered.  DEFAULT_ROUTE fires only when no
\* route-keyed edge matched; the last such edge declared wins.
GetNextPendingNodes(edges, n, emitted) ==
  LET out      == EdgesFrom(edges, n)
      fired    == SelectSeq(out, LAMBDA e : Unconditional(e) \/ Matches(e, emitted))
      defaults == SelectSeq(out, IsDefault)
      specific == \E i \in DOMAIN out : Matches(out[i], emitted)
      fallback == IF specific \/ defaults = << >> THEN << >>
                  ELSE <<defaults[Len(defaults)]>>
  IN  TargetsOf(fired \o fallback)

StartTargetsOf(edges) == TargetsOf(EdgesFrom(edges, START))

EdgeSet(edges) == {edges[i] : i \in DOMAIN edges}
NodesOf(edges) == {e.from : e \in EdgeSet(edges)} \cup {e.to : e \in EdgeSet(edges)}
PredecessorsOf(edges, n) == {e.from : e \in {f \in EdgeSet(edges) : f.to = n}}
TerminalNodesOf(edges) ==
  NodesOf(edges) \ ({START} \cup {e.from : e \in EdgeSet(edges)})

---------------------------------------------------------------------------
(* Validation                                                              *)

Digraph(edges, es) ==
  [node |-> NodesOf(edges), edge |-> {<<e.from, e.to>> : e \in es}]

ValidateStartEdges(edges) ==
  \A e \in EdgeSet(edges) : e.from = START => Unconditional(e)

ValidateConnectivity(edges) ==
  /\ START \in NodesOf(edges)
  /\ \A e \in EdgeSet(edges) : e.to # START
  /\ NodesOf(edges) \ {START}
       \subseteq G!Descendants(Digraph(edges, EdgeSet(edges)), START)

\* No pair of nodes is joined twice under the same route.
ValidateDuplicateEdges(edges) ==
  \A i, j \in DOMAIN edges :
    /\ i # j
    /\ edges[i].from = edges[j].from
    /\ edges[i].to = edges[j].to
    => \/ Unconditional(edges[i]) # Unconditional(edges[j])
       \/ /\ ~Unconditional(edges[i])
          /\ edges[i].routes \cap edges[j].routes = {}

\* DEFAULT_ROUTE stands alone on its edge, and on one edge per node.
ValidateDefaultRoutes(edges) ==
  /\ \A e \in EdgeSet(edges) : Default \in e.routes => IsDefault(e)
  /\ \A i, j \in DOMAIN edges :
       /\ IsDefault(edges[i]) /\ IsDefault(edges[j])
       /\ edges[i].from = edges[j].from
       => i = j

DetectUnconditionalCycles(edges) ==
  ~G!HasCycle(Digraph(edges, {e \in EdgeSet(edges) : Unconditional(e)}))

ValidateGraph(edges) ==
  /\ ValidateStartEdges(edges)
  /\ ValidateConnectivity(edges)
  /\ ValidateDuplicateEdges(edges)
  /\ ValidateDefaultRoutes(edges)
  /\ DetectUnconditionalCycles(edges)
=============================================================================
