----------------------------- MODULE GraphViews -----------------------------
(***************************************************************************)
(* How a workflow graph is written and how it is shown: the parser that    *)
(* turns chains and routing maps into edges, the walks of the dev server   *)
(* over the tree of agents and workflows, and its two drawings.            *)
(*                                                                         *)
(* A target is a record [name, kind, children, edges, tools].  Workflows   *)
(* have nodes as children and the edges of WorkflowGraph, with names as    *)
(* ends; an agent's children are its sub-agents, a wrapper node's the one  *)
(* agent it wraps.  Paths and drawn ids are sequences of names.  What      *)
(* `throws' is {Throws}.                                                   *)
(***************************************************************************)
EXTENDS Integers, SequencesExt

CONSTANTS START, Default, Throws

LOCAL W == INSTANCE WorkflowGraph

---------------------------------------------------------------------------
(* The parser.  A node-like is START, a node, or something a node is built *)
(* for; a chain element [kind, nodes, branches] is a node, a list, or a    *)
(* map: a sequence of branches [index, route, to], `index' the number an   *)
(* array-like key stands for, -1 for any other key.                        *)

ObjectKeys(branches) ==
  SortSeq(SelectSeq(branches, LAMBDA b : b.index >= 0),
          LAMBDA b, c : b.index < c.index)
  \o SelectSeq(branches, LAMBDA b : b.index < 0)

IsMap(el) == el.kind = "map"
NodesFromRoutingMap(branches) ==
  FlattenSeq([i \in DOMAIN branches |-> ObjectKeys(branches)[i].to])
FlattenElement(el) == IF IsMap(el) THEN NodesFromRoutingMap(el.branches) ELSE el.nodes

PairsOf(froms, tos, routes) ==
  FlattenSeq([i \in DOMAIN froms |->
    [k \in DOMAIN tos |-> [from |-> froms[i], to |-> tos[k], routes |-> routes]]])

ProcessRoutingMapEdge(fromEl, branches) ==
  FlattenSeq([i \in DOMAIN branches |->
    LET branch == ObjectKeys(branches)[i]
    IN  PairsOf(FlattenElement(fromEl), branch.to, {branch.route})])
ProcessUnconditionalEdge(fromEl, toEl) ==
  PairsOf(FlattenElement(fromEl), FlattenElement(toEl), {})

ProcessChain(chain) ==
  FlattenSeq([i \in 1 .. (Len(chain) - 1) |->
    IF IsMap(chain[i + 1]) THEN ProcessRoutingMapEdge(chain[i], chain[i + 1].branches)
    ELSE ProcessUnconditionalEdge(chain[i], chain[i + 1])])

\* An empty map has no branch to take; two maps in a row have no node between.
ChainThrows(chain) ==
  \E i \in 1 .. (Len(chain) - 1) :
    /\ IsMap(chain[i + 1])
    /\ IsMap(chain[i]) \/ chain[i + 1].branches = << >>

\* START and nodes stand for themselves; anything else has a node built for it
\* once per parse, here numbered in the order they are built.
GetOrBuildNode(p, like, isNode) ==
  IF like = START \/ isNode THEN [known |-> p.known, node |-> like]
  ELSE IF \E i \in DOMAIN p.known : p.known[i] = like
       THEN [known |-> p.known, node |-> CHOOSE i \in DOMAIN p.known : p.known[i] = like]
       ELSE [known |-> Append(p.known, like), node |-> Len(p.known) + 1]

ParseEdgeItems(chains, nodes) ==
  IF \E i \in DOMAIN chains : ChainThrows(chains[i]) THEN {Throws}
  ELSE LET build(p, e) ==
             LET f == GetOrBuildNode(p, e.from, e.from \in nodes)
                 t == GetOrBuildNode(f, e.to, e.to \in nodes)
             IN  [known |-> t.known,
                  out |-> Append(p.out, [e EXCEPT !.from = f.node, !.to = t.node])]
       IN  {FoldLeft(build, [known |-> << >>, out |-> << >>],
                     FlattenSeq([i \in DOMAIN chains |-> ProcessChain(chains[i])])).out}

---------------------------------------------------------------------------
(* The tree of targets, and the levels the dev server draws of it.         *)

Composite == {"sequential", "loop", "parallel"}
IsWorkflow(t) == t.kind \in {"workflow", "dynamic"}
HasGraph(t) == t.kind = "workflow"

TargetType(t) ==
  IF t.name = START THEN "start"
  ELSE IF IsWorkflow(t) THEN "workflow"
  ELSE IF t.kind \in Composite \cup {"llm", "wrapper"} THEN "agent"
  ELSE t.kind

ChildTargets(t) == IF t.kind = "wrapper" THEN t.children[1].children ELSE t.children

NamesOf(t) == {t.name} \cup (IF t.kind = "wrapper" THEN {t.children[1].name} ELSE {})

RECURSIVE Descend(_, _)
Descend(t, path) ==
  IF path = << >> THEN {t}
  ELSE LET hits == SelectSeq(ChildTargets(t), LAMBDA c : path[1] \in NamesOf(c))
       IN  IF hits = << >> THEN {} ELSE Descend(hits[1], Tail(path))

\* A leading root name is tolerated.
NavigateToNode(root, path) ==
  Descend(root, IF path # << >> /\ path[1] = root.name THEN Tail(path) ELSE path)

RECURSIVE Visit(_, _)
Visit(t, path) ==
  LET below == SelectSeq(ChildTargets(t), LAMBDA c : c.name # START)
  IN  (IF HasGraph(t) THEN <<[path |-> path, level |-> t]>> ELSE << >>)
      \o FlattenSeq([i \in DOMAIN below |-> Visit(below[i], Append(path, below[i].name))])

\* Keyed by path: a path met again replaces the level found first.
CollectSubWorkflows(t, base) ==
  LET seen == Visit(t, base)
  IN  [p \in {seen[i].path : i \in DOMAIN seen} |->
         seen[CHOOSE i \in DOMAIN seen :
                /\ seen[i].path = p
                /\ \A k \in DOMAIN seen : seen[k].path = p => k <= i].level]

\* The levels one request answers with: {} is `node not found'.
BuildGraphImage(root, path) ==
  {LET levels == CollectSubWorkflows(t, path)
   IN  IF path \in DOMAIN levels THEN levels
       ELSE [p \in DOMAIN levels \cup {path} |-> IF p = path THEN t ELSE levels[p]] :
     t \in NavigateToNode(root, path)}

---------------------------------------------------------------------------
(* The drawing of one level.  Nodes are keyed by name; routes are text, so *)
(* DEFAULT_ROUTE and a route called "default" look alike.                  *)

SerializeRoute(routes) == {IF r = Default THEN "default" ELSE r : r \in routes}
ToolsOf(t) == IF t.kind = "llm" THEN t.tools ELSE {}

\* sub_agents as serialized: none for a workflow, a wrapper's are its agent's.
SubAgents(t) == IF IsWorkflow(t) THEN << >> ELSE ChildTargets(t)

RECURSIVE Subtree(_)
Subtree(t) ==
  <<t>> \o FlattenSeq([i \in DOMAIN SubAgents(t) |-> Subtree(SubAgents(t)[i])])

AgentTreeAsGraph(t) ==
  [nodes |-> Subtree(t),
   edges |-> {[from |-> e[1].name, to |-> e[2].name, routes |-> {}] :
               e \in {f \in ToSet(Subtree(t)) \X ToSet(Subtree(t)) :
                        f[2] \in ToSet(SubAgents(f[1]))}}]

LevelOf(t) ==
  IF HasGraph(t)
  THEN [nodes |-> t.children,
        edges |-> {[e EXCEPT !.routes = SerializeRoute(@)] : e \in ToSet(t.edges)}]
  ELSE AgentTreeAsGraph(t)

InjectTools(nodes) == UNION {{<<n.name, tool>> : tool \in ToolsOf(n)} : n \in nodes}

RenderStructureGraph(t) ==
  LET g          == LevelOf(t)
      shown      == {n \in ToSet(g.nodes) : n.name # START}
      uses       == InjectTools(shown)
      names      == {n.name : n \in shown}
      out(name)  == {e \in g.edges : e.from = name}
      routed(e)  == e.routes \notin {{}, {""}}
      branches(name)   == \E e \in out(name) : routed(e)
      hasDefault(name) == \E e \in out(name) : ~routed(e) \/ e.routes = {"default"}
      typeOf(name)     == TargetType(g.nodes[CHOOSE i \in DOMAIN g.nodes :
                            /\ g.nodes[i].name = name
                            /\ \A k \in 1 .. (i - 1) : g.nodes[k].name # name])
  IN  [diamonds  |-> {name \in names : branches(name)},
       noDefault |-> {name \in names : branches(name) /\ ~hasDefault(name)},
       nodes     |-> names \cup {u[2] : u \in uses},
       edges     |-> {<<e.from, e.to>> : e \in g.edges},
       toolEdges |-> uses,
       exits     |-> IF HasGraph(t)
                     THEN {name \in names : out(name) = {} /\ typeOf(name) # "tool"}
                     ELSE {}]

---------------------------------------------------------------------------
(* The drawing of a whole workflow: a cluster per workflow, ids that spell *)
(* out the path, edges between anchors inside the clusters they join.      *)

NodeNamed(t, name) ==
  t.children[CHOOSE i \in DOMAIN t.children : t.children[i].name = name]
TerminalNames(t) == W!TerminalNodesOf(t.edges)

EntryAnchor(n, path) ==
  IF HasGraph(n) THEN path \o <<n.name, START>> ELSE Append(path, n.name)

RECURSIVE ExitAnchor(_, _)
ExitAnchor(n, path) ==
  IF ~HasGraph(n) THEN Append(path, n.name)
  ELSE LET last == SelectSeq(n.children, LAMBDA c : c.name \in TerminalNames(n))
       IN  IF last = << >> THEN EntryAnchor(n, path)
           ELSE ExitAnchor(last[1], Append(path, n.name))

IsHighlightedWithin(path, pairs) ==
  \E pair \in pairs : \E i \in 1 .. 2 : IsPrefix(path, pair[i])
IsHighlightedEdge(from, to, pairs) == <<from, to>> \in pairs

\* One drawn edge per pair of anchors, with the labels of all it stands for.
DrawWorkflowEdges(t, path, pairs) ==
  LET joins(e) == <<ExitAnchor(NodeNamed(t, e.from), path), EntryAnchor(NodeNamed(t, e.to), path)>>
  IN  {LET same == {e \in ToSet(t.edges) : joins(e) = ends}
       IN  [tail |-> ends[1], head |-> ends[2],
            labels |-> UNION {SerializeRoute(e.routes) : e \in same},
            lit |-> \E e \in same :
                      IsHighlightedEdge(Append(path, e.from), Append(path, e.to), pairs)] :
         ends \in {joins(e) : e \in ToSet(t.edges)}}

Leaf(id, lit) == [nodes |-> {[id |-> id, lit |-> lit]}, edges |-> {}]

RECURSIVE DrawWorkflowCluster(_, _, _)
DrawWorkflowCluster(t, path, pairs) ==
  IF ~HasGraph(t) THEN Leaf(path, IsHighlightedWithin(path, pairs))
  ELSE LET drawNode(n) ==
             LET id == Append(path, n.name)
             IN  IF n.name = START THEN Leaf(id, FALSE)
                 ELSE IF IsWorkflow(n) THEN DrawWorkflowCluster(n, id, pairs)
                 ELSE Leaf(id, IsHighlightedWithin(id, pairs))
           drawn == {drawNode(n) : n \in ToSet(t.children)}
       IN  [nodes |-> UNION {d.nodes : d \in drawn},
            edges |-> DrawWorkflowEdges(t, path, pairs) \cup UNION {d.edges : d \in drawn}]

\* The step that led to the k-th event: from the last other node the same
\* invocation reported, if any.  An event of no node has the path << >>.
GetWorkflowHighlights(events, k) ==
  IF events[k].path = << >> THEN {}
  ELSE LET started == {i \in 1 .. (k - 1) : events[i].invocation # events[k].invocation}
           before  == {i \in 1 .. (k - 1) :
                         /\ events[i].path \notin {<< >>, events[k].path}
                         /\ \A s \in started : s < i}
       IN  IF before = {} THEN {<<events[k].path, << >>>>}
           ELSE {<<events[CHOOSE i \in before : \A s \in before : s <= i].path,
                   events[k].path>>}

---------------------------------------------------------------------------
(* The drawing of an agent tree.  Clusters are named after agent and kind, *)
(* edges after the agents alone.                                           *)

IsCluster(t) == t.kind \in Composite
NodeName(t) == IF IsCluster(t) THEN <<t.name, t.kind>> ELSE <<t.name>>

\* The first pair that names both ends, either way round, lights the edge.
EdgeStyle(from, to, pairs) ==
  LET hits == SelectSeq(pairs, LAMBDA p : p \in {<<from, to>>, <<to, from>>})
  IN  IF hits = << >> THEN "plain" ELSE IF hits[1] = <<from, to>> THEN "lit" ELSE "back"
DrawEdge(from, to, pairs) ==
  [from |-> <<from.name>>, to |-> <<to.name>>, style |-> EdgeStyle(from.name, to.name, pairs)]

\* Edges a composite agent draws between its sub-agents, and from its parent.
ClusterEdges(t, parents, pairs) ==
  LET subs  == t.children
      entry == IF t.kind = "parallel" THEN ToSet(subs) ELSE {subs[1]}
      after == IF t.kind = "parallel" THEN {}
               ELSE {<<subs[i], subs[i + 1]>> : i \in 1 .. (Len(subs) - 1)}
                      \cup (IF t.kind = "loop" THEN {<<subs[Len(subs)], subs[1]>>} ELSE {})
  IN  {DrawEdge(p, s, pairs) : p \in parents, s \in entry}
        \cup {DrawEdge(pair[1], pair[2], pairs) : pair \in after}

\* Sub-agents of a composite are drawn twice, in its cluster and around it: a
\* strict graph merges the two.
RECURSIVE BuildGraph(_, _, _)
BuildGraph(t, parents, pairs) ==
  LET below == {BuildGraph(s, {t}, pairs) : s \in ToSet(t.children)}
      lit(name) == \E i \in DOMAIN pairs : name \in ToSet(pairs[i])
      own   == IF IsCluster(t) THEN ClusterEdges(t, parents, pairs)
               ELSE {DrawEdge(t, s, pairs) : s \in {c \in ToSet(t.children) : ~IsCluster(c)}}
      tools == {[name |-> x] : x \in ToolsOf(t)}
  IN  [nodes |-> {[name |-> NodeName(t), lit |-> ~IsCluster(t) /\ lit(t.name)]}
                   \cup {[name |-> <<x.name>>, lit |-> lit(x.name)] : x \in tools}
                   \cup UNION {b.nodes : b \in below},
       edges |-> own \cup {DrawEdge(t, x, pairs) : x \in tools}
                   \cup UNION {b.edges : b \in below}]

\* What an event highlights in it: its calls, else its answers, else its author.
EventHighlights(event) ==
  IF event.calls # << >> THEN [i \in DOMAIN event.calls |-> <<event.author, event.calls[i]>>]
  ELSE IF event.answers # << >>
  THEN [i \in DOMAIN event.answers |-> <<event.answers[i], event.author>>]
  ELSE <<<<event.author, "">>>>
=============================================================================
