--------------------------- MODULE AgentRequests ---------------------------
(***************************************************************************)
(* How an agent's configuration becomes the request its model is sent: the *)
(* processors, the instructions with their placeholders, the tools, the    *)
(* way a structured answer is given, and what is kept of the answer.       *)
(*                                                                         *)
(* A model is [family, version], the digits of its major version.  A path  *)
(* is the sequence of agents from the root to the one that runs.           *)
(***************************************************************************)
EXTENDS Naturals, FiniteSets, SequencesExt, TLC

CONSTANTS Nothing, Throws

NoneOf == [x \in {} |-> Nothing]
HasNo(f, x) == x \notin DOMAIN f

---------------------------------------------------------------------------
(* The agent.  A configuration's noParent and noPeers are Nothing when they *)
(* are left out, and so are its processors.                                *)

DefaultProcessors ==
  <<"basic", "auth", "identity", "instructions", "confirmation", "request_input",
    "content", "interactions", "code_execution", "tool_filter">>

AgentTransferDisabled(config) ==
  config.noParent = TRUE /\ config.noPeers = TRUE /\ config.subs = << >>

RequestProcessors(config) ==
  LET chosen == IF config.processors # Nothing THEN config.processors
                ELSE IF config.compactors = << >> THEN DefaultProcessors
                ELSE InsertAt(DefaultProcessors, SelectInSeq(DefaultProcessors, LAMBDA p : p = "content"), "compaction")
  IN  IF AgentTransferDisabled(config) THEN chosen ELSE Append(chosen, "transfer")

\* The processors are pushed to the array the configuration holds.
LlmAgent(config) ==
  IF config.generate \cap {"tools", "systemInstruction", "responseSchema"} # {} THEN Throws
  ELSE [kind       |-> "llm",
        config     |-> IF config.processors = Nothing THEN config
                       ELSE [config EXCEPT !.processors = RequestProcessors(config)],
        processors |-> RequestProcessors(config),
        noParent   |-> config.schema # Nothing \/ config.noParent = TRUE,
        noPeers    |-> config.schema # Nothing \/ config.noPeers = TRUE,
        subs       |-> config.subs]

RECURSIVE Clone(_, _)
Clone(agent, overrides) ==
  IF ~HasNo(overrides, "parentAgent") THEN Throws
  ELSE LET merged == overrides @@ agent.config
       IN  LlmAgent(IF HasNo(overrides, "subs")
                    THEN [merged EXCEPT !.subs = [i \in DOMAIN agent.subs |-> Clone(agent.subs[i], NoneOf)]]
                    ELSE merged)

Agent(path) == Last(path)
IsLlmAgent(agent) == agent.kind = "llm"

\* The model of the agent, or of the nearest above it that has one.
CanonicalModel(path) ==
  LET having == SelectSeq(path, LAMBDA a : IF IsLlmAgent(a) THEN a.config.model # Nothing ELSE FALSE)
  IN  IF having = << >> THEN Throws ELSE Last(having).config.model

---------------------------------------------------------------------------
(* The registry: r = [classes, cache], [pattern, class] in the order they  *)
(* were first registered, and [model, class] with the latest used last; a  *)
(* pattern is [id, models].                                                *)

Register(r, pattern, class) ==
  LET known == {i \in DOMAIN r.classes : r.classes[i].pattern = pattern}
  IN  IF known = {} THEN [r EXCEPT !.classes = Append(@, [pattern |-> pattern, class |-> class])]
      ELSE [r EXCEPT !.classes = [i \in DOMAIN @ |-> IF i \in known THEN [@[i] EXCEPT !.class = class] ELSE @[i]]]

Resolve(r, size, model) ==
  LET hits    == SelectSeq(r.cache, LAMBDA e : e.model = model)
      others  == SelectSeq(r.cache, LAMBDA e : e.model # model)
      fitting == SelectSeq(r.classes, LAMBDA c : model \in c.pattern.models)
  IN  IF hits # << >> THEN [r |-> [r EXCEPT !.cache = Append(others, hits[1])], class |-> hits[1].class]
      ELSE IF fitting = << >> THEN [r |-> r, class |-> Throws]
      ELSE LET room == IF Len(r.cache) >= size THEN Tail(r.cache) ELSE r.cache
           IN  [r |-> [r EXCEPT !.cache = Append(room, [model |-> model, class |-> fitting[1].class])],
                class |-> fitting[1].class]

IsGeminiModel(m) == m.family = "gemini"
IsGemini1Model(m) == IsGeminiModel(m) /\ m.version # << >> /\ Head(m.version) = 1
IsGemini2OrAbove(m) == IsGeminiModel(m) /\ m.version # << >> /\ m.version # <<0>> /\ m.version # <<1>>

CanUseOutputSchemaWithTools(m, vertex) == vertex /\ IsGemini2OrAbove(m)

---------------------------------------------------------------------------
(* Instructions.  A template is a sequence of pieces: a text, a key in     *)
(* braces or a field of a node's output.  A value is [kind, text, json].   *)
(* s = [state, artifacts, workflow]; workflow is Nothing outside of one.   *)

Piece(kind, scope, sep, name, optional) ==
  [kind |-> kind, scope |-> scope, sep |-> sep, name |-> name, optional |-> optional]
Text(text) == Piece("text", "", "", text, FALSE)
Key(p) == <<p.scope, p.sep, p.name>>

IsIdentifier(name) == name \notin {"", "not a name"}
IsValidStateName(p) ==
  /\ IsIdentifier(p.name)
  /\ p.sep = "" \/ (p.sep = ":" /\ p.scope \in {"app", "user", "temp"})
IsArtifact(p) == p.sep = "." /\ p.scope = "artifact"
IsWorkflowField(p) == p.sep = "." /\ IsIdentifier(p.scope) /\ IsIdentifier(p.name)

IsValid(p, s) ==
  /\ p.kind = "key"
  /\ \/ IsArtifact(p)
     \/ IsValidStateName(p)
     \/ s.workflow # Nothing /\ IsWorkflowField(p)

FormatValue(v, isArtifact) ==
  IF v.kind = "string" \/ (isArtifact /\ v.kind = "text part") THEN Text(v.text)
  ELSE IF v.kind = "cyclic" THEN Throws
  ELSE Text(v.json)

Found(f, p, optional, isArtifact, missing) ==
  IF ~HasNo(f, p.name) THEN FormatValue(f[p.name], isArtifact)
  ELSE IF optional THEN Text("") ELSE missing

ResolveKey(p, optional, s) ==
  IF IsArtifact(p)
  THEN IF s.artifacts = Nothing THEN Throws ELSE Found(s.artifacts, p, optional, TRUE, Throws)
  ELSE IF IsValidStateName(p)
       THEN Found(s.state, [p EXCEPT !.name = p.scope \o p.sep \o p.name], optional, FALSE, Throws)
  ELSE Found(IF s.workflow.input = Nothing THEN NoneOf ELSE s.workflow.input, p, optional, FALSE, p)

ResolveSourceNode(p, scope) ==
  IF HasNo(scope.outputsByNode, p.scope) THEN p
  ELSE Found(scope.outputsByNode[p.scope], p, FALSE, FALSE, p)

\* A key is required if it is anywhere, and resolved once, as it is first written.
InjectSessionState(template, s) ==
  LET valid    == {i \in DOMAIN template : IsValid(template[i], s)}
      first(i) == CHOOSE j \in valid : /\ Key(template[j]) = Key(template[i])
                                       /\ \A k \in valid : Key(template[k]) = Key(template[i]) => j <= k
      optional(i) == \A k \in valid : Key(template[k]) = Key(template[i]) => template[k].optional
      filled   == [i \in DOMAIN template |->
                     IF i \in valid THEN ResolveKey(template[first(i)], optional(i), s)
                     ELSE IF template[i].kind = "from" /\ s.workflow # Nothing
                          THEN ResolveSourceNode(template[i], s.workflow)
                     ELSE template[i]]
  IN  IF \E i \in DOMAIN filled : filled[i] = Throws THEN Throws ELSE filled

\* What a provider returns is taken as it is.  i = [provider, pieces].
HasInstruction(i) == i.provider \/ i.pieces # << >>
CanonicalInstruction(i, s) == IF i.provider THEN i.pieces ELSE InjectSessionState(i.pieces, s)

---------------------------------------------------------------------------
(* The request: q = [model, config, schema, instructions, tools, dict,     *)
(* allowed, live, contents].  tools holds one entry with the declarations  *)
(* of the functions and one for each tool the model runs itself.           *)

NewRequest(contents) ==
  [model |-> Nothing, config |-> {}, schema |-> Nothing, instructions |-> << >>, tools |-> << >>,
   dict |-> NoneOf, allowed |-> Nothing, live |-> NoneOf, contents |-> contents]

AppendInstructions(q, instruction) == [q EXCEPT !.instructions = Append(@, instruction)]

SetModelResponse == "set_model_response"
NeedsSetModelResponse(path, vertex) ==
  LET config == Agent(path).config
  IN  config.schema # Nothing /\ config.tools # << >> /\ ~CanUseOutputSchemaWithTools(CanonicalModel(path), vertex)

BasicLiveKeys ==
  {"responseModalities", "speechConfig", "outputAudioTranscription", "inputAudioTranscription",
   "realtimeInputConfig", "proactivity", "enableAffectiveDialog"}
LiveKeys == BasicLiveKeys \cup {"contextWindowCompression"}
Chosen(run, keys) == [k \in (DOMAIN run) \cap keys |-> run[k]]

\* The configuration is set anew: what came before this processor is lost.
Basic(q, path, vertex, run) ==
  LET config == Agent(path).config
  IN  IF CanonicalModel(path) = Throws THEN Throws
      ELSE [q EXCEPT !.model = CanonicalModel(path), !.config = config.generate,
                     !.instructions = << >>, !.tools = << >>,
                     !.schema = IF config.schema # Nothing /\ config.mode # "task" /\ ~NeedsSetModelResponse(path, vertex)
                                THEN config.schema ELSE Nothing,
                     !.live = Chosen(run, BasicLiveKeys)]

ApplyLiveRunConfig(q, run) == [q EXCEPT !.live = Chosen(run, LiveKeys) @@ @]

Identity(q, agent) ==
  IF agent.noParent /\ agent.noPeers /\ agent.subs = << >> THEN q
  ELSE AppendInstructions(q, <<Text("identity")>>)

AddInstruction(q, i, s) ==
  IF q = Throws THEN Throws
  ELSE IF ~HasInstruction(i) THEN q
  ELSE LET filled == CanonicalInstruction(i, s)
       IN  IF filled = Throws THEN Throws ELSE AppendInstructions(q, filled)

Instructions(q, path, vertex, s) ==
  LET root   == Head(path)
      global == IF ~IsLlmAgent(root) THEN q ELSE AddInstruction(q, root.config.globalInstruction, s)
      own    == AddInstruction(global, Agent(path).config.instruction, s)
  IN  IF own # Throws /\ NeedsSetModelResponse(path, vertex)
      THEN AppendInstructions(own, <<Text(SetModelResponse)>>) ELSE own

\* The plugin's instruction comes before all others.
GlobalInstructionPlugin(q, i, s) ==
  IF ~HasInstruction(i) THEN q
  ELSE LET filled == CanonicalInstruction(i, s)
       IN  IF filled = Throws THEN Throws
           ELSE IF \A k \in DOMAIN filled : filled[k] = Text("") THEN q
           ELSE [q EXCEPT !.instructions = <<filled>> \o @]

\* The tools of the agent are those of each of its tools and toolsets.
CanonicalTools(agent) == FlattenSeq(agent.config.tools)

\* A toolset's filter: nothing, a predicate (a set here) or a list of names.
IsToolSelected(filter, name) == filter = Nothing \/ filter = {} \/ name \in filter

\* A plugin may choose among the agent's tools; Nothing if it does not.
ToolFilter(q, agent, choice) ==
  IF CanonicalTools(agent) = << >> \/ choice = Nothing THEN q ELSE [q EXCEPT !.allowed = choice]

---------------------------------------------------------------------------
(* Tools: [name, kind, runs], kind is "function", "silent" (it declares    *)
(* nothing) or "built-in".                                                 *)

\* BaseTool.processLlmRequest: the declarations share one entry.
RegisterFunction(q, tool) ==
  IF tool.kind = "silent" THEN q
  ELSE IF ~HasNo(q.dict, tool.name) /\ q.dict[tool.name] # "built-in" THEN Throws
  ELSE LET entries == {i \in DOMAIN q.tools : q.tools[i].kind = "functions"}
       IN  [q EXCEPT !.dict = (tool.name :> tool.kind) @@ @,
                     !.tools = IF entries = {} THEN Append(@, [kind |-> "functions", names |-> <<tool.name>>])
                               ELSE LET e == CHOOSE i \in entries : \A j \in entries : i <= j
                                    IN  [@ EXCEPT ![e].names = Append(@, tool.name)]]

\* What each tool the model runs asks of the model and of the tools before it.
Alone(q) == IsGemini1Model(q.model) => q.tools = << >>

GoogleSearch(q) == IsGeminiModel(q.model) /\ Alone(q)
UrlContext(q) == IsGemini2OrAbove(q.model)
VertexAiSearch(q, unchecked) == (IsGeminiModel(q.model) \/ unchecked) /\ Alone(q)
EnterpriseWebSearch(q, unchecked) == (IsGeminiModel(q.model) \/ unchecked) /\ Alone(q)
GoogleMapsGrounding(q, unchecked) == (IsGeminiModel(q.model) \/ unchecked) /\ ~IsGemini1Model(q.model)

ModelAccepts(q, name, unchecked) ==
  CASE name = "google_search"         -> GoogleSearch(q)
    [] name = "url_context"           -> UrlContext(q)
    [] name = "vertex_ai_search"      -> VertexAiSearch(q, unchecked)
    [] name = "enterprise_web_search" -> EnterpriseWebSearch(q, unchecked)
    [] name = "google_maps"           -> GoogleMapsGrounding(q, unchecked)

ApplyBuiltInConfig(q, name, unchecked) ==
  IF q.model = Nothing THEN q
  ELSE IF ~ModelAccepts(q, name, unchecked) THEN Throws
  ELSE [q EXCEPT !.tools = Append(@, [kind |-> name, names |-> << >>])]

RegisterBuiltIn(q, tool, unchecked) ==
  LET applied == ApplyBuiltInConfig(q, tool.name, unchecked)
  IN  IF applied = Throws \/ ~HasNo(q.dict, tool.name) THEN applied
      ELSE [applied EXCEPT !.dict = (tool.name :> tool.kind) @@ @]

---------------------------------------------------------------------------
(* Artifacts: a content is [role, parts], a part is [kind, names], the     *)
(* names being those a load_artifacts response gives.  An artifact is      *)
(* [mime, data], mime "" for one that is not inline data.                  *)

AsSafePartForLlm(artifact) ==
  CASE artifact.mime \in {"", "media"} -> "as it is"
    [] artifact.mime \notin {"", "media"} /\ ~artifact.data -> "nothing to show"
    [] artifact.mime = "text" /\ artifact.data -> "its text"
    [] artifact.mime = "binary" /\ artifact.data -> "its size"

OfKind(content, kind) == \E i \in DOMAIN content.parts : content.parts[i].kind = kind

\* What was said last, the calls and responses of the turn left aside.
StartIndex(contents) ==
  LET said == {i \in DOMAIN contents : \/ contents[i].role = "model" /\ ~OfKind(contents[i], "call")
                                       \/ contents[i].role = "user" /\ ~OfKind(contents[i], "response")}
  IN  IF said = {} THEN 1 ELSE CHOOSE i \in said : \A j \in said : j <= i

NamesToLoad(contents) ==
  LET recent == SelectSeq(SubSeq(contents, StartIndex(contents), Len(contents)), LAMBDA c : c.role = "user")
      parts  == FlattenSeq([i \in DOMAIN recent |-> recent[i].parts])
      asked  == FlattenSeq([i \in DOMAIN parts |-> IF parts[i].kind = "response" THEN parts[i].names ELSE << >>])
  IN  FoldLeft(LAMBDA names, n : IF n = "" \/ Contains(names, n) THEN names ELSE Append(names, n), << >>, asked)

AppendArtifacts(q, artifacts) ==
  IF artifacts = Nothing \/ artifacts = NoneOf THEN q
  ELSE LET q1 == AppendInstructions(q, <<Text("artifacts")>>)
           kept(n) == IF ~HasNo(artifacts, n) THEN artifacts[n]
                      ELSE IF ~HasNo(artifacts, "user:" \o n) THEN artifacts["user:" \o n] ELSE Nothing
           loaded == SelectSeq(NamesToLoad(q.contents), LAMBDA n : kept(n) # Nothing)
       IN  IF q.contents = << >> THEN q1
           ELSE [q1 EXCEPT !.contents = @ \o [i \in DOMAIN loaded |->
                   [role |-> "user", parts |-> <<[kind |-> "artifact",
                      names |-> <<loaded[i], AsSafePartForLlm(kept(loaded[i]))>>]>>]]]

---------------------------------------------------------------------------
(* All tools of a request: e = [artifacts, memories, says, unchecked], the *)
(* memories found for what the user says, Nothing without the service.     *)

PreloadMemory(q, e) ==
  IF ~e.says \/ e.memories \in {Nothing, Throws} THEN q
  ELSE IF \A i \in DOMAIN e.memories : ~e.memories[i].time /\ e.memories[i].text = "" THEN q
  ELSE AppendInstructions(q, <<Text("memories")>>)

ProcessLlmRequest(q, tool, e) ==
  IF q = Throws THEN Throws
  ELSE IF tool.kind = "built-in" THEN RegisterBuiltIn(q, tool, e.unchecked)
  ELSE LET q1 == RegisterFunction(q, tool)
       IN  IF q1 = Throws THEN Throws
           ELSE CASE tool.name = "load_artifacts" -> AppendArtifacts(q1, e.artifacts)
                  [] tool.name = "load_memory" /\ e.memories # Nothing -> AppendInstructions(q1, <<Text("load_memory")>>)
                  [] tool.name = "preload_memory" -> PreloadMemory(q1, e)
                  [] tool.name = "example_tool" /\ e.says -> AppendInstructions(q1, <<Text("examples")>>)
                  [] tool.name = "finish_task" -> AppendInstructions(q1, <<Text("finish_task")>>)
                  [] OTHER -> q1

FunctionNamed(name) == [name |-> name, kind |-> "function"]

AllTools(path, vertex) ==
  IF Agent(path).config.mode = "task"
  THEN Append(CanonicalTools(Agent(path)), FunctionNamed("finish_task"))
  ELSE IF NeedsSetModelResponse(path, vertex)
       THEN Append(CanonicalTools(Agent(path)), FunctionNamed(SetModelResponse))
  ELSE CanonicalTools(Agent(path))

IsAllowed(q, tool) == q.allowed = Nothing \/ tool.name \in q.allowed

AddTools(q, tools, e) == FoldLeft(LAMBDA r, t : ProcessLlmRequest(r, t, e), q, tools)

Transfer(q, targets, e) ==
  IF targets = {} THEN q
  ELSE ProcessLlmRequest(AppendInstructions(q, <<Text("transfer")>>), FunctionNamed("transfer_to_agent"), e)

\* The processors that say something about the request, one after the other.
Process(q, p, path, env) ==
  IF q = Throws THEN Throws
  ELSE CASE p = "basic"        -> Basic(q, path, env.vertex, env.run)
         [] p = "identity"     -> Identity(q, Agent(path))
         [] p = "instructions" -> Instructions(q, path, env.vertex, env.s)
         [] p = "tool_filter"  -> ToolFilter(q, Agent(path), env.choice)
         [] p = "transfer"     -> Transfer(q, env.targets, env.e)
         [] OTHER -> q

RunProcessors(path, env) ==
  FoldLeft(LAMBDA q, p : Process(q, p, path, env), NewRequest(env.contents), Agent(path).processors)

Request(path, env) ==
  LET asked == RunProcessors(path, env)
  IN  IF asked = Throws THEN Throws
      ELSE AddTools(asked, SelectSeq(AllTools(path, env.vertex),
                                 LAMBDA t : IsAllowed(asked, t) \/ t.name = SetModelResponse), env.e)

\* A live session's request has the agent's own tools only.
LiveRequest(path, env) ==
  LET asked == RunProcessors(path, env)
  IN  IF asked = Throws THEN Throws
      ELSE LET q1 == AddTools(asked, SelectSeq(CanonicalTools(Agent(path)), LAMBDA t : IsAllowed(asked, t)), env.e)
           IN  IF q1 = Throws THEN Throws ELSE ApplyLiveRunConfig(q1, env.run)

---------------------------------------------------------------------------
(* The answer.  A text is a sequence of tokens.                            *)

\* event.parsed: what reading its text as JSON gives, Throws or [valid, value].
\* What is saved says how it was read.
MaybeSaveOutputToState(agent, event) ==
  LET text   == FlattenSeq(event.parts)
      parsed == event.parsed
      save(as, value) == [as |-> as, value |-> value]
  IN  IF \/ event.author # agent.config.name
         \/ agent.config.outputKey = Nothing
         \/ ~event.final
         \/ event.parts = << >> THEN Nothing
      ELSE IF agent.config.schema = Nothing THEN save("text", text)
      ELSE IF \A i \in DOMAIN text : text[i] = " " THEN Nothing
      ELSE IF parsed = Throws THEN save("text", text)
      ELSE save(IF parsed.valid THEN "validated" ELSE "parsed", parsed.value)

\* finish_task: a schema is [object, required], Nothing for the default one; the
\* arguments give a value, Nothing for an explicit null, to some keys.
TaskSchema(schema) == IF schema = Nothing THEN [object |-> TRUE, required |-> {"result"}] ELSE schema

MissingRequiredKeys(schema, args) ==
  LET task == TaskSchema(schema)
  IN  IF task.object THEN task.required \ DOMAIN args
      ELSE IF HasNo(args, "result") THEN {"result"}
      ELSE IF args["result"] = Nothing THEN {"result"} ELSE {}

RunFinishTask(schema, args) ==
  IF MissingRequiredKeys(schema, args) = {} THEN "Task completed." ELSE "error"
ExtractOutput(schema, args) ==
  IF TaskSchema(schema).object THEN args
  ELSE IF HasNo(args, "result") THEN Nothing ELSE args["result"]

---------------------------------------------------------------------------
(* The planner that reads plans out of the text: a part is [call, text,    *)
(* thought]; call is Nothing, or a name, "" when it is missing.            *)

FinalAnswer == "FINAL_ANSWER"
ThoughtPrefixTags == {"PLANNING", "REASONING", "ACTION", "REPLANNING"}

SplitByLastPattern(text, separator) ==
  LET at == SelectLastInSeq(text, LAMBDA w : w = separator)
  IN  IF at = 0 THEN <<text, << >> >> ELSE <<SubSeq(text, 1, at), SubSeq(text, at + 1, Len(text))>>

MarkAsThought(part) == IF part.text = << >> THEN part ELSE [part EXCEPT !.thought = TRUE]

HandleNonFunctionCallPart(part) ==
  IF Contains(part.text, FinalAnswer)
  THEN LET halves == SplitByLastPattern(part.text, FinalAnswer)
           plain(text) == [call |-> Nothing, text |-> text, thought |-> FALSE]
       IN  <<MarkAsThought(plain(halves[1]))>>
           \o (IF halves[2] = << >> THEN << >> ELSE <<plain(halves[2])>>)
  ELSE IF part.text # << >> /\ Head(part.text) \in ThoughtPrefixTags THEN <<MarkAsThought(part)>>
  ELSE <<part>>

\* The words before the first named call, then that call and those right after
\* it, unless the response begins with it.
ProcessPlanningResponse(parts) ==
  LET isCall(p) == p.call # Nothing
      named  == SelectInSeq(parts, LAMBDA p : p.call \notin {Nothing, ""})
      before == SelectSeq(IF named = 0 THEN parts ELSE SubSeq(parts, 1, named - 1), LAMBDA p : ~isCall(p))
      after  == IF named = 0 THEN << >> ELSE SubSeq(parts, named + 1, Len(parts))
      upTo   == SelectInSeq(after, LAMBDA p : ~isCall(p))
      calls  == IF named <= 1 THEN << >> ELSE IF upTo = 0 THEN after ELSE SubSeq(after, 1, upTo - 1)
  IN  IF parts = << >> THEN Nothing
      ELSE FlattenSeq([i \in DOMAIN before |-> HandleNonFunctionCallPart(before[i])])
           \o (IF named = 0 THEN << >> ELSE <<parts[named]>>) \o calls

\* The other planner has the model think by itself.
ApplyThinkingConfig(q, thinking) ==
  IF thinking = Nothing THEN q ELSE [q EXCEPT !.config = @ \cup {"thinkingConfig"}]

=============================================================================
