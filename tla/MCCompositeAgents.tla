------------------------- MODULE MCCompositeAgents -------------------------
(* A sequence of a loop and of a routed agent one target of which runs two *)
(* agents side by side; RemoteAgents over every short run and stream,      *)
(* Handover over every small tree of agents, Sandboxes over the files and  *)
(* outcomes of a program, and Skills over small folders and registries.    *)
EXTENDS CompositeAgents

CONSTANTS NoAgent, Fails

MCKind ==
  [root |-> "sequence", loop |-> "loop", a |-> "leaf", b |-> "leaf",
   routed |-> "routed", par |-> "parallel", c |-> "leaf", d |-> "leaf", e |-> "leaf"]
MCSubAgents ==
  [root |-> <<"loop", "routed">>, loop |-> <<"a", "b">>, a |-> << >>, b |-> << >>,
   routed |-> <<"par", "e">>, par |-> <<"c", "d">>, c |-> << >>, d |-> << >>, e |-> << >>]

\* What the theorems about the tree ask of it.
ASSUME TreeIsStartedOnce == OneRunAtATime

---------------------------------------------------------------------------
Remote == INSTANCE RemoteAgents

\* Runs of two agents; event i says the piece i.
Runs == UNION {[1..n -> [author : {"a", "b"}, partial : BOOLEAN, error : BOOLEAN]] : n \in 1..4}
Says(r) ==
  [i \in DOMAIN r |-> [author |-> r[i].author, partial |-> r[i].partial, text |-> <<i>>,
                       calls |-> {}, error |-> r[i].error]]
Whole(events) == SelectSeq(events, LAMBDA e : ~e.partial)
TextsOf(events) == [i \in DOMAIN events |-> events[i].text]

\* What a remote agent's caller stores is what the agent's own session stores,
\* in its order, whatever artifact an earlier run left open; a run that failed
\* adds its error, after what was under way.
ASSUME RemoteRunIsTheLocalRun ==
  \A r \in Runs : \A open \in {<< >>, [x \in {"a"} |-> 9]} :
    LET told == TextsOf(Whole(Remote!RunAsyncImpl(Remote!Execute(open, Says(r)).out)))
        local == TextsOf(Whole(Says(r)))
        fails == \E i \in DOMAIN r : r[i].error
    IN /\ IsPrefix(local, told)
       /\ ~fails => told = local
       /\ fails => told[Len(told)] = <<"error">>

\* Streams of two artifacts as other peers send them: each begins with a chunk
\* that appends to nothing and gets one last chunk at most.
Chunks == [kind : {"artifact"}, id : {1, 2}, append : BOOLEAN, last : BOOLEAN, text : {<<0>>}]
ChunksOf(s, id) == {i \in DOMAIN s : s[i].id = id}
WellSent(s) ==
  \A i \in DOMAIN s :
    /\ s[i].append <=> \E j \in 1..(i - 1) : s[j].id = s[i].id
    /\ s[i].last => \A j \in ChunksOf(s, s[i].id) : j <= i
Numbered(s) == [i \in DOMAIN s |-> [s[i] EXCEPT !.text = <<i>>]]
Streams == {Numbered(s) : s \in {t \in UNION {[1..n -> Chunks] : n \in 1..4} : WellSent(t)}}

\* Each artifact is stored once and whole, when its last chunk has come or when
\* the task ends with a message.
ASSUME ArtifactsAreStoredOnce ==
  \A s \in Streams : \A ending \in {<<0>>, << >>} :
    LET told == Whole(Remote!RunAsyncImpl(Append(s, Remote!Status("completed", ending))))
        Complete(id) == ending # << >> \/ \E i \in ChunksOf(s, id) : s[i].last
        text(id) == SetToSortSeq(ChunksOf(s, id), <)
    IN \A id \in {1, 2} : ChunksOf(s, id) # {} =>
         /\ Cardinality({i \in DOMAIN told : Range(told[i].text) \cap ChunksOf(s, id) # {}})
              = IF Complete(id) THEN 1 ELSE 0
         /\ Complete(id) => Contains(TextsOf(told), text(id))

\* A request is made where the next event is the peer's answer to it.
Requests(h) == {i \in DOMAIN h : h[i] # "peer" /\ i < Len(h) /\ h[i + 1] = "peer"}
\* Over a conversation in which the peer answers every request, what was sent
\* is every event of the others, once.
ASSUME EverythingIsSentOnce ==
  \A h \in UNION {[1..n -> {"user", "me", "peer"}] : n \in 1..5} :
    LET sent(i) == Remote!ToMissingRemoteSessionParts(SubSeq(h, 1, i), "peer")
        others == {i \in DOMAIN h : h[i] # "peer" /\ \E j \in Requests(h) : i <= j}
    IN /\ UNION {sent(i) : i \in Requests(h)} = others
       /\ \A i, j \in Requests(h) : i # j => sent(i) \cap sent(j) = {}

---------------------------------------------------------------------------
Talk == INSTANCE Handover WITH Nobody <- NoAgent, Throws <- Fails

\* Trees of four agents in which a sub-agent's number is above its parent's.
Name == <<"r", "a", "b", "c">>
TreeOf(parent, llm, keeps, shuns) ==
  [subs |-> [a \in 1..4 |-> SelectSeq(<<2, 3, 4>>, LAMBDA b : parent[b] = a)],
   name |-> Name, llm |-> llm, keeps |-> keeps, shuns |-> shuns]
Trees == {TreeOf(p, llm, keeps, shuns) :
            p \in {q \in [2..4 -> 1..3] : \A b \in 2..4 : q[b] < b},
            llm \in {1..4, {1, 3, 4}}, keeps \in SUBSET (2..4), shuns \in {{}, {3}}}
Spoken(a) == [author |-> Name[a], calls |-> {}, answers |-> << >>, node |-> FALSE]
Asking(a, ids) == [Spoken(a) EXCEPT !.calls = ids]
FromUser(ids) == [author |-> "user", calls |-> {}, answers |-> ids, node |-> FALSE]
Targets(t, a) == IF a \in t.llm THEN Range(Talk!GetTransferTargets(t, a)) ELSE {}
MayReturnTo(t, a) == a = 1 \/ Talk!IsRoutableLlmAgent(t, a)

\* A transfer reaches the agent that was offered.  The agent the conversation
\* was handed to goes on with it in the next turn; when it cannot be returned
\* to, the one that handed it over does.  Whoever goes on can hand it up to
\* the root again.
ASSUME ConversationStaysWhereItWasHanded ==
  \A t \in Trees : \A a \in Targets(t, 1) : \A b \in Targets(t, a) \cup {a} :
    LET events == <<FromUser(<< >>), Spoken(1), Spoken(a), Spoken(b), FromUser(<< >>)>>
        goesOn == Talk!DetermineAgentForResumption(t, 1, events, FALSE)
    IN /\ Talk!GetAgentByName(t, 1, Name[a]) = a /\ Talk!GetAgentByName(t, a, Name[b]) = b
       /\ goesOn = IF MayReturnTo(t, b) THEN b ELSE IF MayReturnTo(t, a) THEN a ELSE 1
       /\ \A x \in Talk!Lineage(t)[goesOn] \ {1} : Talk!ParentAgent(t, x) \in Targets(t, x)

\* In a resumable app an answer goes to the agent that asked last for it,
\* whoever spoke since and wherever it stands in the tree; answers to two
\* agents are refused; an answer to nobody goes where any message would.
ASSUME AnswersResumeTheirAsker ==
  \A t \in {x \in Trees : x.shuns = {}} : \A a, b \in 1..4 :
    \A ids \in {<<1>>, <<2>>, <<3>>, <<1, 2>>, <<2, 3>>, <<3, 1>>} :
      LET events == <<Asking(a, {1, 2}), Asking(b, {2, 4}), Spoken(1), FromUser(ids)>>
          asked == {IF id = 1 THEN a ELSE b : id \in Range(ids) \ {3}}
          goesTo == Talk!DetermineAgentForResumption(t, 1, events, TRUE)
      IN goesTo = CASE asked = {} -> 1
                    [] asked = {a} -> a
                    [] asked = {b} -> b
                    [] OTHER -> Fails

ToolAnswers ==
  [says : {"x"}, id : {0},
   actions : {[Talk!NoActions EXCEPT !.state = w, !.transferTo = to, !.gates = g, !.auths = u] :
                w \in {<< >>, "k" :> 0}, to \in {NoAgent, "r", "b"}, g \in {<< >>, 0 :> "g"},
                u \in {<< >>, 0 :> "u"}}]
\* Tool n answers the call n and writes n.
AnswerOf(n, x) ==
  [x EXCEPT !.id = n, !.actions.state = [k \in DOMAIN @ |-> n],
            !.actions.gates = [i \in {n : j \in DOMAIN @} |-> "g"],
            !.actions.auths = [i \in {n : j \in DOMAIN @} |-> "u"]]
\* One event answers a batch, call by call, with what all its tools wrote, the
\* later over the earlier, and the last transfer asked for is the one made.
\* A batch with a tool that wants approval hands over to nobody: it ends the
\* invocation with the request for it, which carries what the tools wrote.
ASSUME BatchIsAnsweredOnce ==
  \A x, y \in ToolAnswers :
    LET t == TreeOf(<<0, 1, 1, 3>>, 1..4, {}, {})
        both == <<AnswerOf(1, x), AnswerOf(2, y)>>
        after == Talk!AfterAnswers(t, 4, {1, 2}, both)
        Of(f) == {n \in 1..2 : both[n].actions[f] # << >>}
        final == Last(after.events)
        wanted == {n \in 1..2 : both[n].actions.transferTo # NoAgent}
        told == final.actions
    IN /\ Len(after.events) = (IF Of("auths") = {} THEN 1 ELSE 2)
       /\ Of("auths") # {} => after.events[1].asks = Of("auths")
       /\ after.ends <=> Of("gates") # {}
       /\ IF after.ends THEN final.asks = Of("gates") /\ after.next = NoAgent
          ELSE /\ [n \in 1..2 |-> final.parts[n].id] = <<1, 2>>
               /\ after.next = IF wanted = {} THEN NoAgent
                               ELSE Talk!FindAgent(t, 1, both[Max(wanted)].actions.transferTo)
       /\ Of("state") # {} => told.state["k"] = Max(Of("state"))

\* A message says in the same order what it said before: an upload itself, or
\* the mark of the artifact it was saved to, and nothing when it is neither.
ASSUME UploadsAreKept ==
  \A kinds \in [1..3 -> {"inline", "text"}] : \A saved \in [1..3 -> {"fails", "local", "public"}] :
    LET parts == [i \in 1..3 |-> [kind |-> kinds[i], of |-> i]]
        kept == Talk!SaveArtifacts(parts, saved)
        shown == SelectSeq(kept, LAMBDA p : p.kind # "uri")
    IN /\ [i \in DOMAIN shown |-> shown[i].of] = <<1, 2, 3>>
       /\ \A i \in 1..3 : (shown[i] # parts[i]) <=> (kinds[i] = "inline" /\ saved[i] # "fails")
       /\ \A p \in Range(kept) : p.kind = "uri" => saved[p.of] = "public"

\* Unless the run is aborted, all that the callbacks which ran have written is
\* in an event; one that speaks before the agent silences it and those behind.
Around == UNION {[1..n -> [says : BOOLEAN, writes : {{}, {"k"}}, aborts : BOOLEAN]] : n \in 0..2}
ASSUME CallbacksSpeakForTheAgent ==
  \A before, behind \in Around : \A ends \in BOOLEAN :
    LET told == Talk!RunAgent(before, << {"body"} >>, ends, behind)
        first == Talk!HandleCallbacks(before)
        aborted == \E i \in DOMAIN before : before[i].aborts /\ \A j \in 1..(i - 1) : ~before[j].says
        speaks == {i \in DOMAIN before : before[i].says}
        wrote == UNION {before[i].writes : i \in {j \in DOMAIN before : \A k \in speaks : j <= k}}
    IN IF aborted THEN told = << >>
       ELSE /\ wrote # {} => told # << >> /\ told[1] = wrote
            /\ speaks # {} => Len(told) = 1 /\ first.ran = Min(speaks)
            /\ ({"body"} \in Range(told)) <=> (speaks = {})
            /\ ends => Len(told) <= 2

\* An agent that is run as a tool starts with what its caller knows, and the
\* caller learns what it writes; neither sees the other's temporary keys.
ASSUME AgentToolsShareState ==
  \A known, wrote, again \in [{"k", "temp"} -> 0..1] :
    LET first == Talk!RunAgentTool(<< >>, "s", known, <<wrote>>, {"temp"})
        next == Talk!RunAgentTool(first.sessions, "s", first.state, <<again>>, {"temp"})
    IN /\ first.sees = [x \in {"k"} |-> known["k"]]
       /\ first.state = [known EXCEPT !["k"] = wrote["k"]]
       /\ next.sees = [x \in {"k"} |-> wrote["k"]]
       /\ next.state["k"] = again["k"] /\ next.state["temp"] = known["temp"]

---------------------------------------------------------------------------
Box == INSTANCE Sandboxes WITH Throws <- Fails, Nothing <- NoAgent

Ends == [ends : {"exit", "signal", "never"}, code : {0, 1}, says : BOOLEAN,
         writes : {[x \in {} |-> 0]} \cup {[x \in {m} |-> 7] : m \in {<<"a">>, <<"a", 2>>, <<"out">>}}]
Given(n) == [name |-> n, content |-> 5]
Bundles == UNION {[1..n -> {Given(m) : m \in {<<"a">>, <<"a", 2>>, <<"script", "py">>}}] : n \in 0..3}

\* A run on the host executes its own code and finds every input file, under a
\* name of its own, whatever the files are called; the files it makes besides
\* them come back, and a run that is cut off or fails always says so.
ASSUME RunsSeeTheirFiles ==
  \A files \in Bundles : \A did \in Ends : \A language \in {"python", "shell", "typescript"} :
    LET r == Box!UnsafeLocalExecuteCode([language |-> language, files |-> files, code |-> 1], "bash", did)
        placed == Box!MaterializeFiles(files, <<"script", "py">> :> 1)
        names == {placed.files[i].name : i \in DOMAIN files}
    IN IF language = "typescript" THEN r.stderr # "" /\ r.code = NoAgent
       ELSE /\ r.code = 1
            /\ language = "python" =>
                 /\ Cardinality(names) = Len(files)
                 /\ DOMAIN r.outputFiles = DOMAIN did.writes \ names
            /\ did.ends # "exit" => r.stderr = "timed out"
            /\ did.code # 0 /\ ~did.says => r.stderr # ""

Streamed == [stream : {"end", "error", "silent"}, code : {0, 1, 124, NoAgent}, stderr : {"", "oops"}]

\* A run in the container that did not succeed never looks as if it had, unless
\* docker itself did not say how it ended.
ASSUME FailuresAreTold ==
  \A did \in Streamed : \A language \in {"python", "cmd"} :
    LET r == Box!ContainerExecuteCode(language, did)
    IN IF language = "cmd" THEN r = Fails
       ELSE CASE did.stream = "error" -> r = Fails
              [] did.stream = "silent" -> r = did.stderr \o "timed out"
              [] OTHER -> (r = "") <=> (did.code \in {0, NoAgent} /\ did.stderr = "")

\* Everything that can happen to the containers of an executor, up to three.
ContainerSteps(w, careful) ==
  (IF Len(w.engine) < 3 \/ w.promise # NoAgent THEN {Box!EnsureContainer(w, b) : b \in BOOLEAN} ELSE {})
    \cup {Box!InitContainer(w, i, ok) : i \in w.inits, ok \in IF careful THEN {TRUE} ELSE BOOLEAN}
    \cup (IF careful /\ w.inits # {} THEN {} ELSE {Box!CloseExecutor(w, ok) : ok \in {TRUE, careful}})
RECURSIVE ContainerStates(_, _, _)
ContainerStates(met, new, careful) ==
  IF new = {} THEN met
  ELSE LET found == UNION {ContainerSteps(w, careful) : w \in new} \ met
       IN  ContainerStates(met \cup found, found, careful)
Up(w) == {k \in DOMAIN w.engine : w.engine[k] = "up"}

\* However calls, failures and closes interleave, every running container is
\* one the process removes when it exits, and a call that need not wait finds a
\* running one.  While nothing fails and no close overlaps a start, at most one
\* container runs, and none after a close.
ASSUME ContainersAreAccountedFor ==
  \A careful \in BOOLEAN : \A w \in ContainerStates({Box!NoContainers}, {Box!NoContainers}, careful) :
    /\ w.active = Up(w)
    /\ Up(Box!CleanupContainers(w, w.active)) = {}
    /\ w.promise # NoAgent /\ (\A i \in w.inits : i.id # w.promise) =>
         w.held # NoAgent /\ w.held \in Up(w)
    /\ careful => Cardinality(Up(w)) <= 1 /\ (w.promise = NoAgent => Up(w) = {})

\* Two calls in the sandboxes of a session.
BoxCall(stage, n) == [stage |-> stage, box |-> n]
BoxWorld == [s |-> Box!NoSandboxes, calls |-> [k \in {1, 2} |-> BoxCall("idle", 0)], lang |-> <<"python", "python">>]
BoxSteps(x, k) ==
  LET s == x.s
      c == x.calls[k]
      At(t, stage, n) == [x EXCEPT !.s = t, !.calls[k] = BoxCall(stage, n)]
  IN CASE c.stage = "idle" -> {At(Box!GetOrCreateAgentEngine(s), "engine", 0)}
       [] c.stage = "engine" /\ s.creating = "pending" ->
            {[x EXCEPT !.s = Box!AgentEngineAnswers(s, p, 2)] : p \in {2, 3}}
       [] c.stage = "engine" /\ s.creating = "failed" -> {At(s, "failed", 0)}
       [] c.stage = "engine" /\ s.creating = "made" ->
            LET n == Box!LookUpSandbox(s, x.lang[k])
            IN  IF n # NoAgent THEN {At(s, "runs", n)}
                ELSE {At(Box!CreateSandbox(s, x.lang[k]), "made", Len(s.boxes) + 1)}
       [] c.stage = "made" -> {At(Box!UseSandbox(s, x.lang[k], c.box), "runs", c.box)}
       [] OTHER -> {}
\* The second call starts when the first has ended, if they do not overlap.
RECURSIVE BoxStates(_, _, _)
BoxStates(met, new, overlap) ==
  IF new = {} THEN met
  ELSE LET found == UNION {BoxSteps(x, 1) \cup (IF overlap \/ x.calls[1].stage \in {"runs", "failed"}
                                                THEN BoxSteps(x, 2) ELSE {}) : x \in new} \ met
       IN  BoxStates(met \cup found, found, overlap)

\* Calls of an executor create one agent engine, however they overlap; each
\* runs in a sandbox of its language, and one that comes after another in the
\* session uses the sandbox it left unless that has stopped.
ASSUME SandboxIsReused ==
  \A overlap \in BOOLEAN : \A other \in Box!SandboxLanguages :
    LET start == [BoxWorld EXCEPT !.lang[2] = other]
    IN \A x \in BoxStates({start}, {start}, overlap) :
         /\ x.s.made <= 1
         /\ Box!AgentEngine(x.s) \in {Fails, 1}
         /\ \A k \in {1, 2} : x.calls[k].stage = "runs" => x.s.boxes[x.calls[k].box].language = x.lang[k]
         /\ ~overlap /\ x.calls[2].stage = "runs" =>
              /\ Len(x.s.boxes) = Cardinality({"python", other})
              /\ Box!LookUpSandbox(Box!SandboxStops(x.s, x.calls[2].box), other) = NoAgent

Outputs == {[mime |-> m, name |-> n, data |-> d, out |-> "o", err |-> "e"] :
              m \in {"json", "text"}, n \in {"", "f"}, d \in {"", "d", "broken"}}
\* What a sandbox sends back is the text of the run, from the last output that
\* has it, and one file for each of the rest.
ASSUME OutputsAreSorted ==
  \A n \in 0..2 : \A outs \in [1..n -> Outputs] :
    LET r == Box!ReadOutputs(outs)
        texts == {i \in 1..n : outs[i].mime = "json" /\ outs[i].name = ""}
        told == {i \in texts : outs[i].data # ""}
    IN /\ Len(r.files) = n - Cardinality(texts)
       /\ r.stdout = (IF told = {} THEN "" ELSE LET k == CHOOSE k \in told : \A j \in told : j <= k
                                                IN  IF outs[k].data = "broken" THEN "broken" ELSE "o")

\* Every short life of an environment.
EnvironmentOps == {"initialize", "close", "write", "escape", "run", "stuck"}
Path(up) == [up |-> up, name |-> <<"a">>]
Within(e, op) ==
  LET done(r) == [env |-> r.env, threw |-> r.result = Fails]
      did(ends) == [ends |-> ends, code |-> 0, writes |-> <<"b">> :> 3]
  IN CASE op = "initialize" -> [env |-> Box!Initialize(e), threw |-> FALSE]
       [] op = "close" -> [env |-> Box!Close(e), threw |-> FALSE]
       [] op = "write" -> done(Box!WriteFile(e, Path(FALSE), 1))
       [] op = "escape" -> done(Box!WriteFile(e, Path(TRUE), 1))
       [] op = "run" -> done(Box!EnvironmentExecute(e, did("exit"), 1))
       [] op = "stuck" -> done(Box!EnvironmentExecute(e, did("never"), 1))
Life(given, ops) ==
  FoldLeft(LAMBDA acc, op : LET r == Within(acc.env, op)
                            IN  [env |-> r.env, threw |-> Append(acc.threw, r.threw)],
           [env |-> Box!NewEnvironment(given), threw |-> << >>], ops)

\* Operations of an environment throw unless it is initialised when they come;
\* what is written is there until the environment is closed, for good in a
\* directory of the caller and no longer in one of its own, which is removed
\* and made anew when it is initialised again.
ASSUME EnvironmentKeepsItsFiles ==
  \A n \in 0..4 : \A ops \in [1..n -> EnvironmentOps] : \A given \in {NoAgent, "home"} :
    LET end == Life(given, ops)
        Open(i) == LET turns == {j \in 1..(i - 1) : ops[j] \in {"initialize", "close"}}
                   IN  turns # {} /\ ops[CHOOSE j \in turns : \A k \in turns : k <= j] = "initialize"
        closes == {j \in 1..n : ops[j] = "close"}
        since == IF given = "home" \/ closes = {} THEN 0 ELSE CHOOSE j \in closes : \A k \in closes : k <= j
        wrote == \E j \in (since + 1)..n : ops[j] = "write" /\ Open(j)
        read == Box!ReadFile(Box!Initialize(end.env), Path(FALSE)).result
    IN /\ \A i \in 1..n : end.threw[i] <=> ops[i] = "escape" \/ (ops[i] \in {"write", "run", "stuck"} /\ ~Open(i))
       /\ read = (IF wrote THEN 1 ELSE Fails)
       /\ given = NoAgent /\ n > 0 /\ ops[n] = "close" => end.env.disk = << >>

---------------------------------------------------------------------------
LowerOf(n) == IF n = "SKILL.md" THEN "skill.md" ELSE n
ExtOf(n) == CASE n = "run.py" -> ".py" [] n = "a.pyc" -> ".pyc" [] OTHER -> ""
Skill == INSTANCE Skills WITH LowerName <- LowerOf, Extension <- ExtOf,
                              SkillNames <- {"fmt", "net"}, Throws <- Fails, Nothing <- NoAgent

Raw(n, more) == [name |-> n, description |-> "d", keys |-> {"name", "allowed-tools"}, additional |-> more]
Text(raw) == [text |-> "t", binary |-> FALSE, raw |-> raw, body |-> "do"]
Binary == [text |-> "b", binary |-> TRUE, raw |-> NoAgent, body |-> ""]
FileAt(path, content) == [path |-> path, content |-> content]
SkillFiles ==
  {FileAt(<<"references", "a">>, Binary), FileAt(<<"references", "__pycache__", "a">>, Binary),
   FileAt(<<"assets", ".git", "a">>, Text(NoAgent)), FileAt(<<"assets", "a.pyc">>, Text(NoAgent)),
   FileAt(<<"scripts", "run.py">>, Text(NoAgent)), FileAt(<<"scripts", "blob">>, Binary)}
SkillMd == {FileAt(<<n>>, Text(raw)) : n \in {"SKILL.md", "skill.md", "SKILL"},
              raw \in {NoAgent, Raw("fmt", NoAgent), Raw("net", << >>), Raw("Fmt", << >>), Raw("fmt", Fails)}}
Moved(tree, dir) == [i \in DOMAIN tree |-> [tree[i] EXCEPT !.path = dir \o @]]
Clean(p) == ~\E i \in DOMAIN p : p[i] \in {"__pycache__", ".git", "a.pyc"}

\* A skill is the same whether it is loaded from its directory or from a zip
\* file of it, apart from the files only a directory leaves out; a directory
\* not named for the skill is refused, and one the check finds nothing wrong
\* with can be loaded.
ASSUME DirectoryAndZipAgree ==
  \A F \in SUBSET SkillFiles : \A md \in SkillMd :
    LET tree == Append(SetToSeq(F), md)
        unzipped == Skill!LoadSkillFromZip(tree)
        loaded == Skill!LoadSkillFromDir(Moved(tree, <<"lib", "fmt">>), <<"lib", "fmt">>)
        good == md.path[1] # "SKILL" /\ md.content.raw \in {Raw("fmt", NoAgent), Raw("net", << >>)}
        Same(f, g) == {p \in DOMAIN f : Clean(p)} = DOMAIN g /\ \A p \in DOMAIN g : f[p] = g[p]
    IN /\ unzipped # Fails <=> good
       /\ loaded # Fails <=> good /\ md.content.raw.name = "fmt"
       /\ loaded # Fails =>
            /\ loaded.frontmatter = unzipped.frontmatter /\ loaded.instructions = "do"
            /\ \A folder \in Skill!Folders :
                 Same(Skill!FolderOf(unzipped, folder), Skill!FolderOf(loaded, folder))
            /\ Skill!ValidateSkillDir(Moved(tree, <<"fmt">>), <<"fmt">>) = {}

SkillPlaces == {<<"lib">>, <<"lib", "fmt">>, <<"lib", "fmt", "net">>, <<"lib", "grp", "net">>,
                <<"lib", ".git", "net">>, <<"lib", "net">>}
\* Every skill below the base is found, however deep, unless it is in a skill
\* or in a directory that is passed over; one broken skill hides no other.
ASSUME SkillsAreFound ==
  \A places \in SUBSET SkillPlaces : \A broken \in SUBSET places :
    LET tree == SetToSeq({FileAt(Append(d, "SKILL.md"),
                               Text(IF d \in broken THEN NoAgent ELSE Raw(Last(d), << >>))) : d \in places})
        found(files) == DOMAIN Skill!LoadAllSkillsInDir(files, <<"lib">>)
        Inner(d) == d = <<"lib", "fmt", "net">> /\ <<"lib", "fmt">> \in places
        counts == {d \in places \ {<<"lib">>, <<"lib", ".git", "net">>} : d \notin broken /\ ~Inner(d)}
    IN \A files \in {tree, Reverse(tree)} : found(files) = {Last(d) : d \in counts}

\* What agents do with a toolset of the skill fmt, which wants the tools zip and
\* calc, and a registry with net, which wants calc, list_skills and a tool
\* nobody offers.
SkillOf(n, more) == [frontmatter |-> Raw(n, more), instructions |-> "do", references |-> << >>,
                     assets |-> << >>, scripts |-> << >>]
SkillSet == [local |-> ("fmt" :> SkillOf("fmt", <<"zip", "calc">>)),
             registry |-> ("net" :> SkillOf("net", <<"calc", "list_skills", "absent">>)),
             own |-> Skill!OwnTools(FALSE, TRUE), additional |-> << <<"calc">>, <<"zip", "list_skills">> >>]
SkillOps == [kind : {"load"}, agent : {"a", "b"}, inv : {1, 2}, name : {"fmt", "net", "absent"}, up : BOOLEAN]
            \cup [kind : {"tools"}, agent : {"a", "b"}, inv : {1, 2}, name : {""}, up : BOOLEAN]
            \cup [kind : {"close"}, agent : {""}, inv : {0}, name : {""}, up : {TRUE}]
SkillStep(t, op) ==
  CASE op.kind = "load" -> Skill!LoadSkill(t, SkillSet, op.agent, op.inv, op.name, op.up).t
    [] op.kind = "tools" -> Skill!GetTools(t, SkillSet, op.agent, op.inv, op.up).t
    [] op.kind = "close" -> Skill!CloseToolset(t)

\* Whatever was loaded, fetched and forgotten before, an agent has the
\* toolset's own tools and the offered ones its activated skills want, each
\* once, and no other agent's; only an unreachable registry can keep them from
\* it.  A registry gives each skill once per invocation.
ASSUME ToolsOfActivatedSkills ==
  \A n \in 0..3 : \A ops \in [1..n -> SkillOps] :
    LET t == FoldLeft(SkillStep, Skill!NewToolset, ops)
        loads(a) == {i \in 1..n : /\ ops[i].kind = "load" /\ ops[i].agent = a
                                  /\ ops[i].inv \in {1, 2}}
        has(a, m) == \E i \in loads(a) :
                       /\ ops[i].name = m
                       /\ m = "fmt" \/ (m = "net" /\ \E k \in 1..i : ops[k].up /\ ops[k].inv = ops[i].inv)
        wants(a) == (IF has(a, "fmt") THEN {"zip", "calc"} ELSE {})
                      \cup (IF has(a, "net") THEN {"calc"} ELSE {})
    IN /\ \A a \in {"a", "b"} : \A inv \in {1, 2} :
            LET tools == Skill!GetTools(t, SkillSet, a, inv, TRUE).result
            IN  /\ Range(tools) \subseteq Range(SkillSet.own) \cup wants(a)
                /\ IsPrefix(SkillSet.own, tools) /\ IsInjective(tools)
                /\ \A m \in Range(Skill!At(t.activated, a, << >>)) :
                     (IF m = "fmt" THEN {"zip", "calc"} ELSE {"calc"}) \subseteq Range(tools)
                /\ Skill!GetTools(t, SkillSet, a, inv, FALSE).result \in {tools, Fails}
       /\ \A a \in DOMAIN t.activated : t.activated[a] \in {<<"fmt">>, <<"net">>, <<"fmt", "net">>, <<"net", "fmt">>}
       /\ (\A i \in 1..n : ops[i].kind # "close") => \A x \in DOMAIN t.asked : t.asked[x] = 1

\* Every file of a skill can be read at its path, also one not written in its
\* shortest form; a binary one reaches the model with the request after the
\* answer.  A script given by its path below scripts/ is run where the executor
\* has put it.
ASSUME FilesAreReachable ==
  \A F \in SUBSET SkillFiles :
    LET skill == Skill!LoadSkillFromDir(Moved(Append(SetToSeq(F), FileAt(<<"skill.md">>, Text(Raw("fmt", NoAgent)))),
                                              <<"fmt">>), <<"fmt">>)
    IN \A path \in Skill!GetSkillResourceFiles(skill) :
         LET r == Skill!LoadSkillResource(skill, <<".">> \o path)
             exec == Skill!RunSkillScript(skill, path, TRUE)
             content == Skill!FolderOf(skill, path[1])[Tail(path)]
         IN /\ r = Skill!LoadSkillResource(skill, <<"assets", "..">> \o path)
            /\ r.path = path
            /\ r.content = (IF content.binary THEN NoAgent ELSE content.text)
            /\ Skill!InjectResources(skill, <<r>>) =
                 (IF content.binary THEN <<[path |-> path, data |-> content.text]>> ELSE << >>)
            /\ path = <<"scripts", "run.py">> => exec.runs \in exec.files
            /\ path[1] # "scripts" => exec = "SCRIPT_NOT_FOUND"

\* A script of the model's own runs only when it was shown and approved.
ASSUME InlineScriptsAreApproved ==
  \A script, language \in {"", "x"} : \A executor \in BOOLEAN : \A confirmation \in {"none", "yes", "no"} :
    LET r == Skill!RunSkillInlineScript(script, language, executor, confirmation)
        asks == Skill!RunSkillInlineScript(script, language, executor, "none")
    IN r.runs # << >> =>
         confirmation = "yes" /\ r.runs = <<language, script>> /\ asks.asks = r.runs

Hit == [skillName : {<< >>, <<"projects", "net">>}, skill_name : {<< >>, <<"fmt">>}, name : {<< >>, <<"x", "fmt">>}]
\* A search tells of every hit a model could load, and of none that a skill of
\* the toolset itself stands before.
ASSUME SearchTellsWhatIsNew ==
  \A n \in 0..2 : \A hits \in [1..n -> Hit] :
    LET names == [i \in 1..n |-> Skill!RegistryName(hits[i])]
        told == Skill!SearchSkills(SkillSet, names, "q", TRUE)
        new == {i \in 1..n : hits[i].skillName # << >>}
        nameless == {i \in 1..n : hits[i].skillName \o hits[i].skill_name \o hits[i].name = << >>}
    IN /\ Len(told) = Cardinality(new \cup nameless)
       /\ \A i \in DOMAIN told :
            Skill!GetOrFetchSkill(Skill!NewToolset, SkillSet, told[i], 1, TRUE).result
              = (IF told[i] = "" THEN Fails ELSE SkillSet.registry["net"])
=============================================================================
