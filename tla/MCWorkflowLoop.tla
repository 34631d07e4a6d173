--------------------------- MODULE MCWorkflowLoop ---------------------------
(***************************************************************************)
(* A graph with a fan-out from START, a join behind a routed edge, a node  *)
(* that routes back to itself, a DEFAULT_ROUTE branch to a node that waits *)
(* for output and may ask the human, and two terminal nodes.  The turn     *)
(* starts afresh, or resumes one in which a and b completed, j failed and  *)
(* w asked a question that has been answered since.  Beside it, how graphs *)
(* are parsed and drawn: GraphViews, and what a request of an agent in a   *)
(* graph is made of: AgentRequests.                                        *)
(***************************************************************************)
EXTENDS WorkflowLoop

CONSTANTS a, b, j, w, ok, again, Default, q, Throws, Nothing

Graph == INSTANCE WorkflowGraph

Edge(m, n, r) == [from |-> m, to |-> n, routes |-> r]
MCEdges == <<Edge(START, a, {}), Edge(START, b, {}), Edge(a, j, {}),
             Edge(a, w, {}), Edge(b, j, {ok}), Edge(b, b, {again}),
             Edge(b, w, {Default})>>

ASSUME MCGraphIsValid == Graph!ValidateGraph(MCEdges)

MCNode == {a, b, j, w}
MCRoute == {ok, again}
MCStartTargets == Graph!StartTargetsOf(MCEdges)
MCTargets ==
  [n \in MCNode |-> [R \in SUBSET MCRoute |-> Graph!GetNextPendingNodes(MCEdges, n, R)]]
MCPreds == [n \in MCNode |-> Graph!PredecessorsOf(MCEdges, n)]
MCTerminal == Graph!TerminalNodesOf(MCEdges)

Ends(k, y, r, i) == [kind |-> k, yields |-> y, routes |-> r, ids |-> i]
MCRun(o, r, i) ==
  [out |-> o, routes |-> r, ids |-> i, answered |-> i, input |-> {}]
MCHistory ==
  {[prior |-> [n \in MCNode |-> << >>], answers |-> {}],
   [prior |-> (a :> <<MCRun({<<a, 0>>}, {}, {})>>) @@ (b :> <<MCRun({<<b, 0>>}, {ok}, {})>>)
              @@ (j :> << >>)
              @@ (w :> <<[MCRun({}, {}, {q}) EXCEPT !.input = {<<a, 0>>}]>>),
    answers |-> {q}]}
MCBehaviour ==
  (a :> {Ends("done", TRUE, {}, {}), Ends("error", FALSE, {}, {})}) @@
  (b :> {Ends("done", TRUE, {ok}, {}), Ends("done", FALSE, {again}, {}),
         Ends("done", TRUE, {ok, again}, {}), Ends("done", TRUE, {}, {}),
         Ends("aborted", FALSE, {}, {})}) @@
  (j :> {Ends("done", TRUE, {}, {}), Ends("claimed", FALSE, {}, {})}) @@
  (w :> {Ends("done", TRUE, {}, {}), Ends("done", FALSE, {}, {}),
         Ends("done", FALSE, {}, {q})})

---------------------------------------------------------------------------
(* How a graph is written and shown, checked on every small instance.      *)

Views == INSTANCE GraphViews

One(x) == [kind |-> "node", nodes |-> <<x>>, branches |-> << >>]
Many(s) == [kind |-> "list", nodes |-> s, branches |-> << >>]
Map(brs) == [kind |-> "map", nodes |-> << >>, branches |-> brs]
To(i, r, s) == [index |-> i, route |-> r, to |-> s]

MCElements == {One(a), One(j), Many(<<j, w>>), Map(<< >>), Map(<<To(-1, ok, <<j>>)>>),
               Map(<<To(-1, again, <<w>>), To(1, ok, <<a, j>>)>>)}
MCChains == {<<x, y>> : x, y \in MCElements} \cup {<<x, y, z>> : x, y, z \in MCElements}
MCItems == {<<c>> : c \in MCChains} \cup {<<<<One(START), One(w)>>, c>> : c \in MCChains}
Members(el) ==
  Views!ToSet(el.nodes) \cup UNION {Views!ToSet(el.branches[i].to) : i \in DOMAIN el.branches}

\* A parsed graph has an edge for each pair of neighbours in a chain, keyed to
\* the route of the branch it was written under, and one node for everything
\* that was written once or more often; only an empty map and a map after a map
\* are refused (graph_parser.ts:139).
ASSUME ChainsMeanTheirPairs ==
  \A items \in MCItems :
    LET steps   == UNION {{<<items[k][i], items[k][i + 1]>> : i \in 1 .. (Len(items[k]) - 1)} :
                            k \in DOMAIN items}
        refused == \E s \in steps : s[2].kind = "map" /\ (s[1].kind = "map" \/ s[2].branches = << >>)
        meant   == UNION {
          {<<x, y, {}>> : x \in Members(s[1]), y \in {z \in Members(s[2]) : s[2].kind # "map"}}
            \cup UNION {{<<x, y, {s[2].branches[i].route}>> :
                           x \in Members(s[1]), y \in Views!ToSet(s[2].branches[i].to)} :
                          i \in DOMAIN s[2].branches} : s \in steps}
        parsed  == Views!ParseEdgeItems(items, {a, b})
    IN  IF refused THEN parsed = {Throws}
        ELSE \A edges \in parsed : \E id \in [{j, w} -> 1 .. 2] :
               LET node(x) == IF x \in {j, w} THEN id[x] ELSE x
               IN  /\ id[j] # id[w]
                   /\ {<<e.from, e.to, e.routes>> : e \in Views!ToSet(edges)}
                        = {<<node(m[1]), node(m[2]), m[3]>> : m \in meant}

Target(n, k, ch) == [name |-> n, kind |-> k, children |-> ch, edges |-> << >>, tools |-> {}]
\* A workflow that runs its nodes one after another.
Pipeline(n, ch) ==
  LET all == <<Target(START, "start", << >>)>> \o ch
  IN  [Target(n, "workflow", all) EXCEPT
         !.edges = [i \in DOMAIN ch |-> Edge(all[i].name, ch[i].name, {})]]
LLM(n, ch) == [Target(n, "llm", ch) EXCEPT !.tools = {"look"}]

MCLeaves == {Target(a, "function", << >>), Target(a, "dynamic", << >>), LLM(b, << >>)}
MCInner == MCLeaves \cup {Pipeline(w, <<x>>) : x \in MCLeaves}
             \cup {LLM(b, <<Target(a, "dynamic", << >>)>>)}
             \cup {Target(a, "wrapper", <<LLM(b, <<x>>)>>) : x \in MCLeaves \cup {Pipeline(w, <<LLM(b, << >>)>>)}}
MCPairs == {p \in MCInner \X MCInner : Views!NamesOf(p[1]) \cap Views!NamesOf(p[2]) = {}}
MCTrees == {Pipeline(j, p) : p \in MCPairs}
             \cup {Pipeline(j, <<Pipeline(q, p), Target(again, "function", << >>)>>) : p \in MCPairs}
             \cup {LLM(j, p) : p \in {y \in MCPairs : "function" \notin {y[1].kind, y[2].kind}}}
MCPaths == UNION {[1 .. n -> {a, b, j, w, q, START}] : n \in 0 .. 3}

\* The page draws all levels below a node from one answer, and asks again for
\* the one the reader opens: each path in an answer leads to the very target
\* that was drawn for it, with the root's name before it or not, and a wrapper
\* stands where its agent does (app_info.ts:136, :268).  Sibling names differ, a
\* wrapper's agent included, and no node is called like the root.
ASSUME LevelsAgree ==
  \A root \in MCTrees :
    /\ \A path \in MCPaths : \A levels \in Views!BuildGraphImage(root, path) :
         /\ path \in DOMAIN levels
         /\ \A p \in DOMAIN levels : Views!NavigateToNode(root, p) = {levels[p]}
    /\ \A path \in MCPaths :
         << >> # path /\ path[1] # root.name =>
           Views!NavigateToNode(root, <<root.name>> \o path) = Views!NavigateToNode(root, path)
    /\ \A c \in {x \in Views!ToSet(root.children) : x.kind = "wrapper"} :
         LET agent == c.children[1] IN
         \A n \in {c.name, agent.name} :
           /\ Views!NavigateToNode(root, <<n>>) = {c}
           /\ \A s \in Views!ToSet(agent.children) :
                Views!NavigateToNode(root, <<n, s.name>>) = {s}

\* A node is marked [NO DEFAULT] exactly when some routes it may emit trigger
\* nothing, although it has successors; the flow leaves the graph where no edge
\* leaves (structure_graph.ts:170, :321).
ASSUME MarkedNodesDropRoutes ==
  \A es \in UNION {[1 .. n -> {Edge(a, x, r) : x \in {b, j}, r \in {{}, {ok}, {Default}, {ok, again}}}] :
                     n \in 0 .. 3} :
    LET graph == <<Edge(START, a, {})>> \o es
        level == [Target(w, "workflow",
                         [i \in 1 .. 4 |-> Target(<<START, a, b, j>>[i], "function", << >>)])
                    EXCEPT !.edges = graph]
        drawn == Views!RenderStructureGraph(level)
    IN  Graph!ValidateDefaultRoutes(graph) =>
          /\ drawn.noDefault =
               {x \in {a} : es # << >> /\ \E R \in SUBSET MCRoute :
                              Graph!GetNextPendingNodes(graph, x, R) = << >>}
          /\ drawn.exits = {a, b, j} \ {x \in {a} : es # << >>}

MCDrawn == {t \in MCTrees : t.kind = "workflow"}
RECURSIVE NodesBelow(_, _)
NodesBelow(t, path) ==
  IF t.kind = "workflow"
  THEN UNION {NodesBelow(c, Append(path, c.name)) : c \in Views!ToSet(t.children)}
  ELSE {path}
MCEvent(i, p) == [invocation |-> i, path |-> p]

\* The picture of an event shows where the invocation is: lit are the nodes the
\* event and the one before it came from (or ran inside of), and the edge taken
\* between them; and every edge joins two nodes of the picture, however deep the
\* workflows it joins are nested (agent_graph.ts:382, :496).
ASSUME StepTakenIsLit ==
  \A t \in MCDrawn :
    LET ids == NodesBelow(t, <<t.name>>)
        own == {x \in ids : x[Len(x)] # START} \cup {<< >>}
    IN  \A p1, p2 \in own : \A p3 \in own \cup {Append(x, ok) : x \in own} : \A i \in {1, 2} :
          LET events == <<MCEvent(i, p1), MCEvent(1, p2), MCEvent(1, p3)>>
              before == IF p2 \notin {<< >>, p3} THEN {p2}
                        ELSE IF i = 1 /\ p1 \notin {<< >>, p3} THEN {p1} ELSE {}
              now    == {p3} \ {<< >>}
              drawn  == Views!DrawWorkflowCluster(t, <<t.name>>,
                                                  Views!GetWorkflowHighlights(events, 3))
          IN  /\ {n.id : n \in {m \in drawn.nodes : m.lit}}
                   = {x \in ids : now # {} /\ \E y \in before \cup now : Views!IsPrefix(x, y)}
              /\ {n.id : n \in drawn.nodes} = ids
              /\ \A e \in drawn.edges :
                   /\ {e.tail, e.head} \subseteq ids
                   /\ e.lit <=> /\ now = {e.head}
                                /\ before = {e.tail}
                                /\ Len(e.tail) = Len(e.head)

MCAgents == {LLM(j, p) : p \in {y \in {LLM(b, << >>), Target(a, "llm", << >>)} \X
                                     {Target(w, k, <<LLM(q, << >>), LLM(ok, <<LLM(again, << >>)>>)>>) :
                                        k \in {"loop", "sequential", "parallel", "llm"}} : TRUE}}

\* Every edge of an agent tree joins two agents or tools of the picture, when no
\* composite agent holds another, and each has a way in; a call is lit from its agent to the tool, its
\* answer from the tool back, and nothing else is (agent_graph.ts:182).
ASSUME CallsAreLitBothWays ==
  \A t \in MCAgents : \A author \in {j, b, q, again} :
    LET picture(c, r) ==
          Views!BuildGraph(t, {}, Views!EventHighlights([author |-> author, calls |-> c, answers |-> r]))
        called   == picture(<<"look">>, << >>)
        answered == picture(<< >>, <<"look">>)
        styled(g, st) == {<<e.from, e.to>> : e \in {x \in g.edges : x.style = st}}
        names    == {n.name : n \in called.nodes}
        mine     == {<<<<author>>, <<"look">>>> : x \in {y \in {author} : <<y>> \in names}}
    IN  /\ \A e \in called.edges : {e.from, e.to} \subseteq names
        /\ \A x \in {y \in names : Len(y) = 1} \ {<<t.name>>} : \E e \in called.edges : e.to = x
        /\ styled(called, "lit") = mine /\ styled(called, "back") = {}
        /\ styled(answered, "back") = mine /\ styled(answered, "lit") = {}
---------------------------------------------------------------------------
(* How an agent's configuration becomes a request.                         *)
Req == INSTANCE AgentRequests

UpToLength(n, s) == UNION {[1 .. k -> s] : k \in 0 .. n}
Unset == [provider |-> FALSE, pieces |-> << >>]
MCConfig == [name |-> "me", model |-> Nothing, instruction |-> Unset, globalInstruction |-> Unset,
             tools |-> << >>, noParent |-> Nothing, noPeers |-> Nothing, processors |-> Nothing,
             compactors |-> << >>, generate |-> {}, schema |-> Nothing, mode |-> "chat",
             outputKey |-> Nothing, subs |-> << >>]
Gemini(version) == [family |-> "gemini", version |-> version]
MCModels == {Gemini(<<1>>), Gemini(<<2>>), Gemini(<<1, 0>>), Gemini(<< >>), [family |-> "other", version |-> << >>]}
Tool(name, kind) == [name |-> name, kind |-> kind]
Empty == Req!NoneOf
MCScope == [state |-> Empty, artifacts |-> Nothing, workflow |-> Nothing]
MCEnv == [vertex |-> TRUE, run |-> Empty, s |-> MCScope, choice |-> Nothing, targets |-> {}, contents |-> << >>,
          e |-> [artifacts |-> Nothing, memories |-> Nothing, says |-> TRUE, unchecked |-> FALSE]]
Offered(r) == FlattenSeq([i \in DOMAIN r.tools |-> r.tools[i].names])
Told(r, what) == <<Req!Text(what)>> \in Range(r.instructions)
Position(seq, x) == CHOOSE i \in DOMAIN seq : seq[i] = x

\* With an output schema there is exactly one way to give the answer: as the
\* response, through set_model_response or through finish_task; and the model is
\* told of the function that is offered.  A filter of a task agent's tools keeps
\* finish_task here (basic_llm_request_processor.ts:47, llm_agent.ts:1482).
ASSUME OneWayToAnswer ==
  \A m \in MCModels : \A vertex \in BOOLEAN : \A mode \in {"chat", "task"} :
  \A ts \in UpToLength(2, {<< >>, <<Tool("f", "function")>>}) : \A schema \in {Nothing, [object |-> TRUE, required |-> {}]} :
  \A choice \in {Nothing, {"finish_task"}, {"f", "finish_task"}} :
    LET agent == Req!LlmAgent([MCConfig EXCEPT !.model = m, !.mode = mode, !.tools = ts, !.schema = schema])
        r     == Req!Request(<<agent>>, [MCEnv EXCEPT !.vertex = vertex, !.choice = choice])
        ways  == {way \in {"response", "set_model_response", "finish_task"} :
                    IF way = "response" THEN r.schema # Nothing ELSE way \in Range(Offered(r))}
    IN  IF Len(SelectSeq(ts, LAMBDA t : t # << >>)) = 2 /\ (choice = Nothing \/ "f" \in choice)
        THEN r = Throws
        ELSE /\ Cardinality(ways) = (IF schema # Nothing \/ mode = "task" THEN 1 ELSE 0)
             /\ mode # "task" => (Told(r, "set_model_response") <=> "set_model_response" \in ways)
             /\ Told(r, "finish_task") <=> mode = "task"
             /\ r.schema # Nothing /\ Offered(r) # << >> => vertex

\* The model is offered, once each, the agent's tools a filter admits, in the
\* agent's order, after the transfer; and no request is made when two functions
\* share a name (llm_agent.ts:1512, base_tool.ts:160).
ASSUME ToolsAreOfferedOnce ==
  \A ts \in UpToLength(3, {Tool("f", "function"), Tool("g", "function"), Tool("f", "silent"), Tool("transfer_to_agent", "function")}) :
  \A choice \in {Nothing, {}, {"f"}, {"f", "g"}} : \A targets \in {{}, {"peer"}} : \A isLive \in BOOLEAN :
    LET agent == Req!LlmAgent([MCConfig EXCEPT !.model = Gemini(<<2>>), !.tools = [i \in DOMAIN ts |-> <<ts[i]>>]])
        env   == [MCEnv EXCEPT !.choice = choice, !.targets = targets]
        r     == IF isLive THEN Req!LiveRequest(<<agent>>, env) ELSE Req!Request(<<agent>>, env)
        mine  == SelectSeq(ts, LAMBDA t : t.kind = "function" /\ (choice = Nothing \/ (ts # << >> /\ choice # Nothing /\ t.name \in choice)))
        all   == (IF targets = {} THEN << >> ELSE <<"transfer_to_agent">>) \o [i \in DOMAIN mine |-> mine[i].name]
    IN  IF IsInjective(all) THEN r # Throws /\ Offered(r) = all /\ DOMAIN r.dict = Range(all) ELSE r = Throws

\* For a model from Gemini 2 on the order of the tools does not matter; a first
\* Gemini takes a search only before all other tools, and no map or page
\* (google_search_tool.ts:35, vertex_ai_search_tool.ts:136).
Grounding == {"google_search", "vertex_ai_search", "enterprise_web_search", "google_maps", "url_context"}
ASSUME BuiltInToolsFitTheModel ==
  \A m \in MCModels : \A unchecked \in BOOLEAN :
  \A ts \in UpToLength(2, {Tool(n, "built-in") : n \in Grounding} \cup {Tool("f", "function")}) :
    LET agent == Req!LlmAgent([MCConfig EXCEPT !.model = m, !.tools = <<ts>>])
        env   == [MCEnv EXCEPT !.e.unchecked = unchecked]
        r     == Req!Request(<<agent>>, env)
        names == [i \in DOMAIN ts |-> ts[i].name]
        twice == Len(SelectSeq(names, LAMBDA n : n = "f")) = 2
        grounds == SelectSeq(names, LAMBDA n : n # "f")
    IN  /\ m.family = "gemini" /\ m.version = <<2>> =>
             /\ (r = Throws) <=> twice
             /\ ~twice => {x.kind : x \in Range(r.tools)} \ {"functions"} = Range(grounds)
        /\ m.family = "gemini" /\ m.version = <<1>> =>
             (r # Throws <=> /\ Range(grounds) \subseteq Grounding \ {"google_maps", "url_context"}
                             /\ Len(grounds) <= 1 /\ ~twice
                             /\ grounds # << >> => names[1] = grounds[1])
        /\ m.family = "other" =>
             (r # Throws <=> /\ grounds # << >> => unchecked /\ Range(grounds) \cap {"google_search", "url_context"} = {}
                             /\ ~twice)

\* The history is shortened before it is read, tools are filtered after all that
\* may add to them, and a transfer is offered whenever the configuration leaves
\* one open.  A copy asks what the original asks; with processors of its own an
\* agent must not transfer (llm_agent.ts:544, base_agent.ts:204).
ASSUME ProcessorsInOrder ==
  \A noParent \in {Nothing, TRUE, FALSE} : \A noPeers \in {Nothing, TRUE} : \A compactors \in {<< >>, <<"c">>} :
  \A own \in {Nothing, <<"basic", "content">>} : \A schema \in {Nothing, [object |-> TRUE, required |-> {}]} :
    LET config == [MCConfig EXCEPT !.noParent = noParent, !.noPeers = noPeers, !.compactors = compactors,
                                   !.processors = own, !.schema = schema]
        child  == Req!LlmAgent([config EXCEPT !.name = "child"])
        agent  == Req!LlmAgent([config EXCEPT !.subs = <<child>>])
        copy   == Req!Clone(agent, [outputKey |-> "k"])
        at(p)  == Position(agent.processors, p)
    IN  /\ own = Nothing =>
             /\ compactors # << >> => at("compaction") = at("content") - 1
             /\ at("basic") = 1 /\ at("instructions") < at("content") /\ at("content") < at("tool_filter")
             /\ copy.processors = agent.processors
             /\ copy.subs = <<child>>
        /\ "transfer" = Last(agent.processors)
        /\ "transfer" \in Range(child.processors) <=> ~(noParent = TRUE /\ noPeers = TRUE)
        /\ schema # Nothing => agent.noParent /\ agent.noPeers
        /\ own # Nothing => /\ Req!Clone(child, Empty).processors = child.processors
                                 <=> "transfer" \notin Range(child.processors)
        /\ copy.config.outputKey = "k" /\ Req!Clone(agent, [parentAgent |-> "p"]) = Throws

\* An agent without a model of its own uses that of the nearest agent above it
\* that has one, past workflow agents (llm_agent.ts:632).
ASSUME NearestModelIsUsed ==
  \A path \in UpToLength(4, {Req!LlmAgent([MCConfig EXCEPT !.model = m]) : m \in {Nothing, Gemini(<<1>>), Gemini(<<2>>)}}
                            \cup {[kind |-> "loop"]}) \ {<< >>} :
    LET having == {i \in DOMAIN path : path[i].kind = "llm" /\ path[i] # Req!LlmAgent(MCConfig)}
    IN  Req!CanonicalModel(path) =
          IF having = {} THEN Throws
          ELSE path[CHOOSE i \in having : \A k \in having : k <= i].config.model

\* However the cache is used, a model resolves as without it, as long as no class
\* replaces another; the cache keeps its bound (registry.ts:109).
ASSUME CacheDoesNotShow ==
  LET patterns == {[id |-> "p", models |-> {"x", "y"}], [id |-> "q", models |-> {"y", "z"}]}
      ops == {[op |-> "register", pattern |-> p] : p \in patterns} \cup {[op |-> "resolve", model |-> m] : m \in {"x", "y", "z"}}
      run(seq) == FoldLeft(LAMBDA r, o : IF o.op = "register" THEN Req!Register(r, o.pattern, o.pattern.id)
                                         ELSE Req!Resolve(r, 2, o.model).r,
                           [classes |-> << >>, cache |-> << >>], seq)
  IN  \A seq \in UpToLength(6, ops) :
        LET r == run(seq)
        IN  /\ Len(r.cache) <= 2
            /\ Cardinality({r.cache[i].model : i \in DOMAIN r.cache}) = Len(r.cache)
            /\ \A m \in {"x", "y", "z"} : Req!Resolve(r, 2, m).class = Req!Resolve([r EXCEPT !.cache = << >>], 2, m).class

\* A template keeps its texts in their places.  Each key that may be one is
\* replaced by its value, everywhere the same; a missing one fails the request
\* unless it is optional wherever it stands; other braces stay, and fields stay
\* outside a workflow or when the workflow has no such field
\* (instructions.ts:152).
Stored(kind, text) == [kind |-> kind, text |-> text, json |-> "json " \o text]
MCPieces == {Req!Text("t"), Req!Piece("key", "", "", "v", FALSE), Req!Piece("key", "", "", "v", TRUE),
             Req!Piece("key", "user", ":", "v", TRUE), Req!Piece("key", "team", ":", "v", FALSE),
             Req!Piece("key", "artifact", ".", "v", FALSE), Req!Piece("key", "in", ".", "v", TRUE),
             Req!Piece("key", "in", ".", "v", FALSE), Req!Piece("from", "n", ".", "v", FALSE)}
ASSUME PlaceholdersAreFilled ==
  \A template \in UpToLength(3, MCPieces) :
  \A state \in {Empty, "v" :> Stored("string", "sv"), ("user:v" :> Stored("text part", "uv")) @@ ("v" :> Stored("cyclic", "c"))} :
  \A artifacts \in {Nothing, "v" :> Stored("text part", "av")} :
  \A workflow \in {Nothing, [input |-> Nothing, outputsByNode |-> Empty],
                   [input |-> "v" :> Stored("string", "in"), outputsByNode |-> "n" :> ("v" :> Stored("other", "nv"))]} :
    LET s == [state |-> state, artifacts |-> artifacts, workflow |-> workflow]
        filled == Req!InjectSessionState(template, s)
        same(i) == {k \in DOMAIN template : Req!Key(template[k]) = Req!Key(template[i]) /\ template[k].kind = "key"}
        missing(i) == IF \A k \in same(i) : template[k].optional THEN Req!Text("") ELSE Throws
        json(v) == IF v.kind = "cyclic" THEN Throws ELSE Req!Text(IF v.kind = "string" THEN v.text ELSE v.json)
        reads(f, n, i) == IF n \in DOMAIN f THEN json(f[n]) ELSE missing(i)
        expected(i) ==
          LET p == template[i]
          IN  IF p.kind = "text" \/ p.scope = "team" THEN p
              ELSE CASE p.scope = "" /\ p.kind = "key" -> reads(state, "v", i)
                     [] p.scope = "user" -> reads(state, "user:v", i)
                     [] p.scope = "artifact" -> IF artifacts = Nothing THEN Throws ELSE Req!Text("av")
                     [] p.scope = "in" -> IF workflow = Nothing THEN p
                                          ELSE IF workflow.input # Nothing THEN Req!Text("in")
                                          ELSE IF missing(i) # Throws THEN Req!Text("")
                                          ELSE template[CHOOSE k \in same(i) : \A l \in same(i) : k <= l]
                     [] p.kind = "from" -> IF workflow = Nothing THEN p
                                           ELSE IF workflow.outputsByNode = Empty THEN p ELSE Req!Text("json nv")
    IN  IF \E i \in DOMAIN template : expected(i) = Throws THEN filled = Throws
        ELSE filled = [i \in DOMAIN template |-> expected(i)]

\* The root's words come before the agent's own, the plugin's before both, and
\* a text that is provided is not read for keys; who has nobody to hand over to
\* is not told its name (instructions_llm_request_processor.ts:33).
ASSUME InstructionsInOrder ==
  \A provided \in SUBSET {"root", "own", "plugin"} : \A given \in SUBSET {"root", "own", "plugin"} : \A known \in BOOLEAN :
  \A alone \in BOOLEAN :
    LET key == Req!Piece("key", "", "", "v", FALSE)
        says(who) == IF who \in given THEN [provider |-> who \in provided, pieces |-> <<Req!Text(who), key>>] ELSE Unset
        root == Req!LlmAgent([MCConfig EXCEPT !.globalInstruction = says("root"), !.model = Gemini(<<2>>)])
        me   == Req!LlmAgent([MCConfig EXCEPT !.instruction = says("own"), !.noParent = alone, !.noPeers = alone])
        s    == [MCScope EXCEPT !.state = IF known THEN "v" :> Stored("string", "sv") ELSE Empty]
        r    == Req!Request(<<root, me>>, [MCEnv EXCEPT !.s = s])
        all  == IF r = Throws THEN Throws ELSE Req!GlobalInstructionPlugin(r, says("plugin"), s)
        text(who) == <<Req!Text(who), IF who \in provided THEN key ELSE Req!Text("sv")>>
    IN  IF ~known /\ given \ provided # {} THEN all = Throws
        ELSE all.instructions = (IF "plugin" \in given THEN <<text("plugin")>> ELSE << >>)
                                \o (IF alone THEN << >> ELSE << <<Req!Text("identity")>> >>)
                                \o (IF "root" \in given THEN <<text("root")>> ELSE << >>)
                                \o (IF "own" \in given THEN <<text("own")>> ELSE << >>)

\* A live session's connection is opened with all that the run configures.
ASSUME LiveRequestsAreConfigured ==
  \A chosen \in SUBSET {"speechConfig", "proactivity", "contextWindowCompression"} :
    LET run == [k \in chosen |-> TRUE]
        me  == <<Req!LlmAgent([MCConfig EXCEPT !.model = Gemini(<<2>>)])>>
    IN  /\ Req!LiveRequest(me, [MCEnv EXCEPT !.run = run]).live = run
        /\ DOMAIN Req!Request(me, [MCEnv EXCEPT !.run = run]).live \subseteq Req!BasicLiveKeys

\* The artifacts that were asked for since anyone last spoke are shown, each
\* once, in the order they were asked for, a user's own when the session has none;
\* earlier ones are not (load_artifacts_tool.ts:132).
MCContents == {[role |-> "user", parts |-> <<[kind |-> "text", names |-> << >>]>>],
               [role |-> "model", parts |-> <<[kind |-> "text", names |-> << >>]>>],
               [role |-> "model", parts |-> <<[kind |-> "text", names |-> << >>], [kind |-> "call", names |-> << >>]>>],
               [role |-> "user", parts |-> <<[kind |-> "response", names |-> <<"a", "b">>], [kind |-> "response", names |-> <<"b", "c">>]>>],
               [role |-> "user", parts |-> <<[kind |-> "response", names |-> <<"c">>]>>]}
ASSUME ArtifactsAreShownOnce ==
  \A h \in UpToLength(4, MCContents) : \A kept \in SUBSET {"a", "user:b", "c"} :
    LET artifacts == [n \in kept |-> [mime |-> "media", data |-> TRUE]]
        me     == <<Req!LlmAgent([MCConfig EXCEPT !.model = Gemini(<<2>>), !.tools = <<<<Tool("load_artifacts", "function")>>>>])>>
        r      == Req!Request(me, [MCEnv EXCEPT !.contents = h, !.e.artifacts = artifacts])
        shown  == SubSeq(r.contents, Len(h) + 1, Len(r.contents))
        names  == [i \in DOMAIN shown |-> shown[i].parts[1].names[1]]
        spoken == {i \in DOMAIN h : \A k \in DOMAIN h[i].parts : h[i].parts[k].kind = "text"}
        asked  == {n \in {"a", "b", "c"} : \E i \in DOMAIN h : /\ \A k \in spoken : k < i
                                                               /\ \E p \in Range(h[i].parts) : n \in Range(p.names)}
        has(n) == n \in kept \/ ("user:" \o n) \in kept
        earliest(n) == CHOOSE i \in DOMAIN h : /\ \A k \in spoken : k < i
                                               /\ \E p \in Range(h[i].parts) : n \in Range(p.names)
                                            /\ \A k \in 1 .. (i - 1) : (\A l \in spoken : l < k) => \A x \in Range(h[k].parts) : n \notin Range(x.names)
    IN  /\ SubSeq(r.contents, 1, Len(h)) = h
        /\ IsInjective(names) /\ Range(names) = {n \in asked : has(n)}
        /\ \A i, k \in DOMAIN names : i < k => earliest(names[i]) <= earliest(names[k])
        /\ Told(r, "artifacts") <=> kept # {}

\* No artifact goes to the model as data it does not take (load_artifacts_tool.ts:45).
ASSUME ArtifactsAreReadable ==
  \A mime \in {"", "media", "text", "binary"} : \A data \in BOOLEAN :
    Req!AsSafePartForLlm([mime |-> mime, data |-> data]) = "as it is" <=> mime \in {"", "media"}

\* Memories found for the user's words are told; a search that fails or finds
\* nothing leaves the request as it is (preload_memory_tool.ts:43).
ASSUME MemoriesAreToldOrLeftOut ==
  \A memories \in {Nothing, Throws, << >>, <<[time |-> FALSE, text |-> ""]>>, <<[time |-> FALSE, text |-> ""], [time |-> TRUE, text |-> "m"]>>} :
  \A says \in BOOLEAN :
    LET me == <<Req!LlmAgent([MCConfig EXCEPT !.model = Gemini(<<2>>),
                 !.tools = <<<<Tool("preload_memory", "silent")>>, <<Tool("load_memory", "function"), Tool("example_tool", "silent")>>>>])>>
        r  == Req!Request(me, [MCEnv EXCEPT !.e.memories = memories, !.e.says = says])
    IN  /\ Told(r, "memories") <=> says /\ memories \notin {Nothing, Throws, << >>, <<[time |-> FALSE, text |-> ""]>>}
        /\ Told(r, "load_memory") <=> memories # Nothing
        /\ Told(r, "examples") <=> says
        /\ Offered(r) = <<"load_memory">>

\* What a final answer of the agent says is saved under its key: with a schema
\* parsed, and kept as it was said, not dropped, when it cannot be; a blank one,
\* a part of a stream and another's answer change nothing (llm_agent.ts:783).
MCParse(text) == IF text = <<"{", "}">> THEN [valid |-> TRUE, value |-> <<"read">>]
                 ELSE IF text # << >> /\ Head(text) = "{" THEN [valid |-> FALSE, value |-> <<"wrong">>] ELSE Throws
ASSUME AnswerIsSaved ==
  \A parts \in UpToLength(3, {<< >>, <<" ">>, <<"{">>, <<"}">>}) : \A schema \in {Nothing, [object |-> TRUE, required |-> {}]} :
  \A author \in {"me", "peer"} : \A final \in BOOLEAN : \A outputKey \in {Nothing, "k"} :
    LET agent == Req!LlmAgent([MCConfig EXCEPT !.schema = schema, !.outputKey = outputKey])
        saved == Req!MaybeSaveOutputToState(agent, [author |-> author, final |-> final, parts |-> parts,
                                                   parsed |-> MCParse(FlattenSeq(parts))])
        text  == FlattenSeq(parts)
        blank == Range(text) \subseteq {" "}
    IN  IF author # "me" \/ ~final \/ outputKey = Nothing \/ parts = << >> \/ (schema # Nothing /\ blank) THEN saved = Nothing
        ELSE IF schema = Nothing THEN saved.value = text
        ELSE /\ saved.as = "validated" <=> text = <<"{", "}">>
             /\ saved.value \in {<<"read">>, <<"wrong">>, text}
             /\ saved.as = "text" => saved.value = text

\* A task that is told it is completed has all the output it promised
\* (finish_task_tool.ts:109).
ASSUME FinishedTasksHaveTheirOutput ==
  \A schema \in {Nothing} \cup [object : BOOLEAN, required : SUBSET {"result", "x"}] :
  \A args \in UNION {[given -> {"v", Nothing}] : given \in SUBSET {"result", "x"}} :
    LET output == Req!ExtractOutput(schema, args)
    IN  Req!RunFinishTask(schema, args) = "Task completed." <=>
          IF schema # Nothing /\ ~Req!TaskSchema(schema).object THEN output # Nothing
          ELSE Req!TaskSchema(schema).required \subseteq DOMAIN output

\* A plan hides its reasoning and nothing else: what follows the last mark of the
\* final answer is shown, words without a mark stay as they are, and of calls that
\* follow words all are kept, up to the next words (plan_re_act_planner.ts:43).
Says(call, text) == [call |-> call, text |-> text, thought |-> FALSE]
MCParts == {Says(Nothing, <<"hello">>), Says(Nothing, <<"PLANNING", "p">>), Says(Nothing, <<"r", "FINAL_ANSWER", "s", "FINAL_ANSWER", "a">>),
            Says(Nothing, <<"FINAL_ANSWER">>), Says(Nothing, << >>), Says("f", << >>), Says("", << >>)}
ASSUME OnlyReasoningIsHidden ==
  \A parts \in UpToLength(4, MCParts) \ {<< >>} :
    LET kept  == Req!ProcessPlanningResponse(parts)
        named == {i \in DOMAIN parts : parts[i].call = "f"}
        stop  == IF named = {} THEN Len(parts) + 1 ELSE CHOOSE i \in named : \A k \in named : i <= k
        words(seq) == FlattenSeq([i \in DOMAIN seq |-> seq[i].text])
        shown == SelectSeq(kept, LAMBDA p : ~p.thought)
        calls(seq) == SelectSeq(seq, LAMBDA p : p.call # Nothing)
        run   == {k \in stop .. Len(parts) : \A i \in stop .. k : parts[i].call # Nothing}
    IN  /\ words(kept) = words(SubSeq(parts, 1, stop - 1))
        /\ Range(words(shown)) \subseteq {"hello", "a"}
        /\ \A i \in 1 .. (stop - 1) : "hello" \in Range(parts[i].text) => "hello" \in Range(words(shown))
        /\ Len(SelectSeq(words(shown), LAMBDA x : x = "a"))
             = Cardinality({i \in 1 .. (stop - 1) : Len(parts[i].text) = 5})
        /\ stop > 1 => calls(kept) = [i \in 1 .. Cardinality(run) |-> parts[stop + i - 1]]
        /\ stop = 1 => kept = <<parts[1]>>
=============================================================================
