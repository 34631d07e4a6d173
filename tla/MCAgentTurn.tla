----------------------------- MODULE MCAgentTurn -----------------------------
(***************************************************************************)
(* The turns of AgentTurn, and beside them what the model is told in one:  *)
(* RequestContents over every short history of an agent `me' that calls    *)
(* two tools, who answers its tool and model calls: Callbacks over every   *)
(* short chain of plugins and callbacks, how its tools get their           *)
(* credentials: Credentials, what code of its model and its users is       *)
(* executed: CodeExecution, and the tools made of an API document and the  *)
(* requests they send: RestTools.                                          *)
(***************************************************************************)
EXTENDS AgentTurn

CONSTANTS Thrown, Missing, Opening, Closing

Told == INSTANCE RequestContents
          WITH User <- "user", System <- "system", NoScope <- "none"

Said(who, calls, ids, scope) ==
  [kind |-> "words", who |-> who, calls |-> calls, answers |-> [i \in ids |-> 0],
   words |-> {}, branch |-> << >>, scope |-> scope, at |-> 0, upTo |-> 0]
\* An event's position is its timestamp, its words and its answers' value.
Placed(h) ==
  [i \in DOMAIN h |-> [h[i] EXCEPT !.at = i, !.words = {i},
                                   !.answers = [c \in DOMAIN @ |-> i]]]
Histories(T, n) == {Placed(h) : h \in UNION {[1..k -> T] : k \in 1..n}}

\* A call is made once and answered after it was made and before the next
\* call, by answers that belong to one event's calls.  (Were another call made
\* in between, a request that ends in the answer to the later one drops the
\* answer to the earlier one.)
WellFormed(h) ==
  /\ \A i, j \in DOMAIN h : i # j => h[i].calls \cap h[j].calls = {}
  /\ \A i \in DOMAIN h : Told!Answers(h[i]) =>
       \E j \in 1..(i - 1) : /\ DOMAIN h[i].answers \subseteq h[j].calls
                             /\ \A k \in (j + 1)..(i - 1) : ~Told!Calls(h[k])
Adjacent(h) ==
  \A i \in DOMAIN h : Told!Answers(h[i]) =>
    i > 1 /\ DOMAIN h[i].answers \subseteq h[i - 1].calls

OneScope == {Said("user", {}, {}, "none"), Said("me", {}, {}, "none")}
            \cup {Said("me", c, {}, "none") : c \in {{1}, {2}, {1, 2}}}
            \cup {Said("me", {}, c, "none") : c \in {{1}, {2}, {1, 2}}}
TwoScopes == {Said("user", {}, {}, "none"), Said("me", {}, {}, "s"),
              Said("me", {1}, {}, "s"), Said("me", {}, {1}, "s"), Said("peer", {}, {}, "t")}

LongOnes == {h \in Histories(OneScope, 5) : WellFormed(h)}
ScopedOnes == {h \in Histories(TwoScopes, 5) : WellFormed(h) /\ Adjacent(h)}

LastAnswer(h, c) ==
  Max({h[i].answers[c] : i \in {j \in DOMAIN h : c \in DOMAIN h[j].answers}})
\* A request shows the answer of a call right behind the call, the last one
\* given, and shows no answer anywhere else; building it never throws.
AnswersFollowTheirCalls(h, es) ==
  /\ ~Told!RearrangeThrows(Told!Shown(h, "me", << >>, "none"))
  /\ \A i \in DOMAIN es : Told!Answers(es[i]) =>
       i > 1 /\ DOMAIN es[i].answers \subseteq es[i - 1].calls
  /\ \A i \in DOMAIN es : \A c \in es[i].calls \cap Told!AnsweredIn(h) :
       /\ i < Len(es) /\ c \in DOMAIN es[i + 1].answers
       /\ es[i + 1].answers[c] = LastAnswer(h, c)

ASSUME RequestsAreWellFormed ==
  \A h \in LongOnes :
    AnswersFollowTheirCalls(h, Told!GetContents(h, "me", << >>, "none"))

\* The current turn shows no answer without its call either, however long ago
\* the call was made.
ASSUME CurrentTurnsAreWellFormed ==
  \A h \in LongOnes :
    LET turn == Told!CurrentTurn(h, "me", << >>, "none")
    IN turn # << >> =>
         AnswersFollowTheirCalls(turn, Told!GetCurrentTurnContents(h, "me", << >>, "none"))

Retaining(h, scope) ==
  UNION {{Told!TokenBasedCompact(h, scope, k, Len(h) + 1),
          Told!AnchoredCompact(h, scope, k, Len(h) + 1)} : k \in 1..3}
Compactions(h, scope) ==
  Retaining(h, scope) \cup {Told!AgentControlledCompact(h, scope, {1}, Len(h) + 1)}
WordsOf(es) == UNION {es[i].words : i \in DOMAIN es}

\* What a reader of the compacting scope could see it still sees, as itself or
\* in the latest summary, when nothing shares a timestamp; and an answer that
\* directly followed its call still does.
ASSUME CompactionForgetsNothing ==
  \A h \in ScopedOnes : \A scope \in {"none", "s"} : \A l \in Compactions(h, scope) :
    LET active == Told!GetActiveEvents(l, scope)
    IN /\ WordsOf(active) = WordsOf(Told!Visible(h, scope))
       /\ AnswersFollowTheirCalls(active, Told!RunAsync(l, "me", << >>, scope, "default"))

\* A scoped compaction leaves every other reader's view as it was.
ASSUME PeersSeeNoCompaction ==
  \A h \in ScopedOnes : \A l \in Compactions(h, "s") : \A other \in {"none", "t"} :
    Told!GetActiveEvents(l, other) = Told!GetActiveEvents(h, other)

\* A second compaction starts from the first one's summary.  (Not one that
\* covers the summary alone, as the agent-controlled one may: its endTime is
\* then the first summary's own timestamp.)
ASSUME CompactionsAccumulate ==
  \A h \in ScopedOnes : \A l \in Compactions(h, "s") :
    LET more == Append(l, [Said("me", {}, {}, "s") EXCEPT !.at = Len(h) + 2, !.words = {0}])
    IN \A m \in Retaining(more, "s") :
         WordsOf(Told!GetActiveEvents(m, "s")) = {0} \cup WordsOf(Told!Visible(h, "s"))

\* Truncation keeps the leading events and as many of the latest as the
\* threshold says.
ASSUME TruncationKeepsBothEnds ==
  \A h \in ScopedOnes : \A lead \in 0..2 : \A threshold \in 0..2 :
    LET seen == Told!Visible(h, "s")
        left == Told!Visible(Told!TruncatingCompact(h, "s", threshold, lead), "s")
    IN left = IF Len(seen) <= lead + threshold THEN seen
              ELSE SubSeq(seen, 1, lead)
                   \o SubSeq(seen, Len(seen) - threshold + 1, Len(seen))
---------------------------------------------------------------------------
Asked == INSTANCE Callbacks WITH None <- "nothing", Throws <- "throws"

Chains == {<< >>, <<"nothing">>, <<"throws">>, <<"a">>, <<"nothing", "b">>}
Hooks == [before : Chains, ownBefore : Chains, onError : Chains,
          after : Chains, ownAfter : Chains]
Silent(chain) == \A i \in DOMAIN chain : chain[i] = "nothing"

\* The tool runs exactly when every callback before it was silent, whoever
\* registered it; its error reaches the model exactly when no plugin handled
\* it, whatever the callbacks after it answer.
ASSUME ToolsRunUnlessAnswered ==
  \A h \in Hooks :
    /\ Asked!ToolRuns(h) <=> (Silent(h.before) /\ Silent(h.ownBefore))
    /\ \A tool \in {"nothing", "throws", "r"} :
         Asked!ToolAnswer(h, tool, "error") = "error" <=>
           /\ tool = "throws" /\ Asked!ToolRuns(h) /\ Silent(h.onError)
           /\ Asked!PluginsThenAgent(h.after, h.ownAfter) # "throws"
    /\ Asked!AnswerUnresolvableCall(h, "error") = "error" <=> Silent(h.onError)

\* A model call hands on what the model said before it broke, and one error
\* at most, as the last thing.
ASSUME ErrorsComeLast ==
  \A h \in Hooks : \A stream \in {<<"r">>, <<"r", "s">>, <<"r", "throws">>, <<"throws">>} :
    LET out == Asked!CallLlm(h, stream, "error")
    IN /\ Len(out) <= Len(stream)
       /\ \A i \in 1..(Len(out) - 1) : out[i] \notin {"error", "throws"}
       /\ Len(out) < Len(stream) =>
            \/ ~(Silent(h.before) /\ Silent(h.ownBefore))
            \/ out[Len(out)] = Asked!HandleError(h, "throws", "error")

\* Failures in a row, the last outcome's included.
InARow(fails) ==
  LET ok == {i \in DOMAIN fails : ~fails[i]}
  IN Len(fails) - Max({0} \cup ok)
Policies == [maxRetries : 0..2, throws : BOOLEAN, perInvocation : BOOLEAN]
Attempts(Try(_, _, _), p, inv, outcomes) ==
  LET start == [failures |-> [k \in {"i", "j", "__global__"} \X {"t"} |-> 0], answers |-> << >>]
      Go(s, i) == LET r == Try(s.failures, Asked!ScopeKey(p, inv[i], "t"), outcomes[i])
                  IN [failures |-> r.failures, answers |-> Append(s.answers, r.answer)]
  IN FoldLeftDomain(Go, start, outcomes).answers
\* The attempts that one counter counts, up to the n-th.
Counted(p, inv, outcomes, n) ==
  LET mine == {i \in 1..n : p.perInvocation => inv[i] = inv[n]}
  IN [i \in 1..Cardinality(mine) |-> outcomes[SetToSortSeq(mine, <)[i]]]
Interleavings(T) == UNION {[1..n -> {"i", "j"}] \X [1..n -> T] : n \in 1..4}

\* However the calls of two invocations interleave: a failed call is tried
\* again exactly while the failures in a row are within the limit, a call that
\* succeeds is left alone.
ASSUME ToolRetriesAreBounded ==
  \A p \in Policies : \A s \in Interleavings(BOOLEAN) :
    LET Try(f, k, fails) == Asked!RetriedTool(p, f, k, fails)
        answers == Attempts(Try, p, s[1], s[2])
    IN \A n \in DOMAIN answers :
         answers[n] = IF ~s[2][n] THEN "nothing"
                      ELSE IF InARow(Counted(p, s[1], s[2], n)) <= p.maxRetries
                           THEN "again" ELSE IF p.throws THEN "throws" ELSE "exceeded"

\* The same of responses that come whole (a streamed part counts as success).
ASSUME ModelRetriesAreBounded ==
  \A p \in Policies : \A s \in Interleavings({"ok", "malformed", "reserved"}) :
    LET Try(f, k, response) == Asked!AfterModelCallback(p, f, k, response)
        answers == Attempts(Try, p, s[1], s[2])
        fails == [i \in DOMAIN s[2] |-> s[2][i] # "ok"]
    IN \A n \in DOMAIN answers :
         answers[n] = "again" <=>
           fails[n] /\ InARow(Counted(p, s[1], fails, n)) <= p.maxRetries
---------------------------------------------------------------------------
Held == INSTANCE Credentials WITH Throws <- Thrown, Nothing <- Missing

Schemes == [type : {"oauth2", "openIdConnect"}, flows : SUBSET {"authorizationCode", "clientCredentials"},
            authUrl : {"", "a"}, tokenUrl : {"", "t"}]
           \cup {[type |-> "apiKey", flows |-> {}, authUrl |-> "", tokenUrl |-> ""]}
Configured == [Held!NoCredential EXCEPT !.type = "oauth2", !.client = "c"]
Raws == {Held!NoCredential, Configured, [Configured EXCEPT !.pkce = TRUE],
         [Configured EXCEPT !.token = "old"], [Configured EXCEPT !.client = ""],
         [Held!NoCredential EXCEPT !.type = "apiKey", !.token = "k"],
         [Held!NoCredential EXCEPT !.type = "serviceAccount"]}
Tools == [scheme : Schemes, raw : Raws, key : {"k"}]
Replies == {Thrown, [token |-> "t", refresh |-> "r", due |-> FALSE]}
Empty == << >>

\* The first call of a tool, the answer to what it asks, and its second call;
\* `reply1' and `reply2' are what the token endpoint does in each run.
FirstCall(tool, reply) == Held!PrepareAuthCredentials(tool, Empty, Empty, reply, "s1")
Asking(call) == <<[who |-> "user", asks |-> Empty, calls |-> {}],
                  [who |-> "me", asks |-> Empty, calls |-> {"f"}],
                  [who |-> "me", asks |-> "q" :> [config |-> call.asks, call |-> "f"], calls |-> {}],
                  [who |-> "user", asks |-> Empty, calls |-> {}]>>
Answering(supplied) == <<[id |-> "q", supplied |-> supplied]>>
SignedIn(state) == [Held!NoCredential EXCEPT !.uri = [code |-> "z", state |-> state]]

\* A tool that is configured with what it needs never asks; one that asks has
\* nothing it could use.
ASSUME ToolsAskWhenTheyMust ==
  \A tool \in Tools : \A reply \in Replies :
    LET call == FirstCall(tool, reply)
        grant == Held!DetermineGrantType(tool.scheme)
    IN /\ (call.uses = Missing) # (call.asks = Missing)
       /\ tool.raw.token # "" \/ tool.raw.type = "apiKey" => call.uses = tool.raw
       /\ call.uses # Missing /\ call.uses # tool.raw => tool.raw.type # "" /\ reply # Thrown
       /\ call.asks # Missing /\ tool.raw.type \in {"oauth2", "openIdConnect"} =>
            grant # "unsupported" /\ tool.raw.token = ""

\* A sign-in that was asked for and answered, with the state that was sent,
\* gives the tool a token in the same run and, without asking again, in every
\* later one; it keeps the client and the code verifier of the request.  An
\* answer with another state stops the run before anything is stored.
ASSUME SignInReachesTheTool ==
  \A tool \in Tools : \A first \in Replies : \A granted \in Replies \ {Thrown} :
    LET call == FirstCall(tool, first)
        asks == call.asks # Missing /\ call.asks # Thrown /\ Held!Interactive(tool.scheme)
        events == Asking(call)
        Stores(state) == Held!StoreAuth(Empty, events, Answering(SignedIn(state)), "me", granted)
        second == Held!PrepareAuthCredentials(tool, call.kept, Stores("s1"), Thrown, "s2")
        later == Held!PrepareAuthCredentials(tool, second.kept, Empty, Thrown, "s3")
    IN asks /\ Held!DetermineGrantType(tool.scheme) = "authorizationCode"
             /\ Held!GetTokenEndpoint(tool.scheme) # "" =>
         /\ Stores("other") = Thrown
         /\ second.uses # Missing /\ second.uses.token = granted.token
         /\ second.uses.client = tool.raw.client /\ second.uses.verifier = call.asks.exchanged.verifier
         /\ later.uses = second.uses
         /\ Held!Resumed(events, Answering(SignedIn("s1")), "me") = {"f"}

\* An answer without a code, or to what this agent did not ask, changes nothing
\* and resumes nothing.
ASSUME OtherAnswersChangeNothing ==
  \A tool \in Tools :
    LET call == FirstCall(tool, Thrown)
        events == Asking(call)
    IN call.asks # Missing /\ call.asks # Thrown =>
         \A sent \in {<<[id |-> "p", supplied |-> SignedIn("s1")]>>, Answering(Missing)}
                          \cup (IF Held!Interactive(tool.scheme)
                                THEN {Answering([Configured EXCEPT !.token = "mine"])} ELSE {}) :
           /\ Held!StoreAuth(Empty, events, sent, "me", Thrown) = Empty
           /\ Held!Resumed(events, sent, "me") = {}

\* A refresh never loses what it had: a credential keeps a token and a refresh
\* token if it had them, and changes only when it was due.
ASSUME RefreshLosesNothing ==
  \A scheme \in Schemes : \A reply \in Replies \cup {[token |-> "", refresh |-> "", due |-> FALSE]} :
    \A c \in [{"token", "refresh", "client"} -> {"", "x"}] : \A due \in BOOLEAN :
      LET before == [Configured EXCEPT !.token = c["token"], !.refresh = c["refresh"],
                                       !.client = c["client"], !.due = due]
          after == Held!Refresh(scheme, before, reply)
      IN /\ before.token # "" => after.token # ""
         /\ before.refresh # "" => after.refresh # ""
         /\ after # before => due /\ reply # Thrown

---------------------------------------------------------------------------
Coding == INSTANCE CodeExecution
            WITH Open <- Opening, Close <- Closing, NoKey <- Missing, RetryAttempts <- 2,
                 Stateful <- TRUE, OptimizeDataFile <- TRUE, ArtifactService <- TRUE

Written(text) == [Coding!Part EXCEPT !.text = text]
Attached(data) == [Coding!Part EXCEPT !.data = data]
Native == [Coding!Part EXCEPT !.code = <<"n">>]
Ended(how) == [ended |-> how, says |-> <<"out">>]
Outcomes(n) == [1..n -> {Ended("ok"), Ended("failed")}]
Bodies == {<< Attached("x") >>, << Written(<<"a">>), Attached("y"), Attached("x") >>, << Written(<<"a">>) >>}
ContentsOf(n) == UNION {[1..k -> [role : {"user", "model"}, parts : Bodies]] : k \in 1..n}

\* Over the turns of a conversation that only grows, every data file a user
\* attached is loaded, in its order and once, however the loading of others
\* ended; a second request of the same turn loads none again, and the model is
\* still sent every file beside what the loading said.
ASSUME EveryFileIsLoadedOnce ==
  \A contents \in ContentsOf(3) : \A k \in DOMAIN contents : \A results \in Outcomes(3) :
    LET all == results \o results
        first == Coding!RunPreProcessor(Coding!NoContext, SubSeq(contents, 1, k), all, "s")
        again == Coding!RunPreProcessor(first.context, SubSeq(contents, 1, k), all, "s")
        later == Coding!RunPreProcessor(Coding!NextTurn(again), contents, all, "s")
    IN /\ first.ran \o later.ran = Coding!DataFiles(contents)
       /\ again.ran = << >>
       /\ Coding!DataFiles(Coding!RequestAfter(first, SubSeq(contents, 1, k)))
            = Coding!DataFiles(SubSeq(contents, 1, k))
       /\ first.ran # << >> => later.context.session = "s"

\* In one invocation code is executed until it has failed twice in a row, and
\* never after; what is not executed stays the model's answer.
ASSUME FailingCodeIsGivenUp ==
  \A results \in Outcomes(5) :
    LET answer == << Written(<<"a", Opening, "b", Closing>>) >>
        Step(run, n) == Coding!RunPostProcessor(run.context, answer, FALSE, results[n], "s")
        runs == [n \in 1..5 |-> FoldLeftDomain(Step, Coding!Idle(Coding!NoContext), SubSeq(results, 1, n))]
        failed == {n \in 2..5 : results[n].ended = "failed" /\ results[n - 1].ended = "failed"}
    IN \A n \in 1..5 : (runs[n].ran # << >>) <=> \A x \in failed : x >= n

\* What is executed is the first block the model wrote, word for word; with it
\* goes what stood before and nothing that came after, and when the next
\* request tells the model what it said, it reads as it was written.
ASSUME CodeIsWhatTheModelWrote ==
  \A n \in 1..5 : \A text \in [1..n -> {Opening, Closing, "a"}] : \A cut \in 0..n :
    LET parts == IF cut = 0 THEN << Written(text) >>
                 ELSE << Written(SubSeq(text, 1, cut)), Written(SubSeq(text, cut + 1, n)) >>
        found == Coding!ExtractCodeAndTruncate(parts)
        back == Coding!ConvertCodeExecutionParts([role |-> "model", parts |-> found.parts])
        said == FlattenSeq([p \in DOMAIN back.parts |-> back.parts[p].text])
    IN IF found.code = << >> THEN found.parts = parts
       ELSE /\ said = SubSeq(text, 1, Len(said)) /\ back.role = "model"
            /\ Closing \notin Range(found.code) /\ said[Len(said)] = Closing
            /\ said[Len(said) - Len(found.code) - 1] = Opening
            /\ Opening \notin Range(SubSeq(said, 1, Len(said) - Len(found.code) - 2))
            /\ Coding!ExtractCodeAndTruncate(back.parts).code = found.code

\* Code whose result follows it is not executed again; the first one whose
\* result does not is, and what the model wrote after it is dropped.
ASSUME OnlyOpenCodeIsExecuted ==
  \A n \in 1..4 : \A parts \in [1..n -> {Native, [Coding!Part EXCEPT !.ran = "ok"], Written(<<"a">>)}] :
    LET found == Coding!ExtractCodeAndTruncate(parts)
        open == {i \in 1..n : parts[i] = Native /\ (i = n \/ parts[i + 1].ran = "")}
    IN IF open = {} THEN found.code = << >> /\ found.parts = parts
       ELSE found.code = <<"n">> /\ Len(found.parts) = Min(open)

---------------------------------------------------------------------------
\* The tools of an OpenAPI document: see RestTools.
SnakeOf(n) == CASE n = "petId" -> "pet_id" [] n = "in" -> "param_in" [] OTHER -> n
LowerOf(t) == IF t = "STRING" THEN "string" ELSE t
Rest == INSTANCE RestTools WITH SnakeCase <- SnakeOf, LowerCase <- LowerOf,
                                Throws <- Thrown, Nothing <- Missing

Expected(n, location) == [original |-> n, location |-> location, required |-> location = "path"]
Wanted == {Expected(n, l) : n \in {"petId", "pet_id", "in"}, l \in {"path", "query", "header"}}
Field(n) == [original |-> n, required |-> FALSE]
Payloads == {[shape |-> "none", props |-> << >>, mime |-> "json"],
             [shape |-> "array", props |-> << >>, mime |-> "plain"],
             [shape |-> "object", props |-> <<Field("in"), Field("petId")>>, mime |-> "form"],
             [shape |-> "object", props |-> << >>, mime |-> "json"]}
OneOperation(own, shared, payload, requires) ==
  [paths |-> << [path |-> "/pets", params |-> shared,
                 segments |-> << [text |-> "/pets/", hole |-> ""], [text |-> "", hole |-> "petId"] >>,
                 operations |-> ("post" :> [id |-> "addPet", params |-> own, body |-> payload,
                                            security |-> requires])] >>,
   security |-> << >>, schemes |-> [x \in {"key"} |-> [type |-> "apiKey", in |-> "query", name |-> "k"]]]

Sends(tool, r, i, value) ==
  LET p == tool.params[i] IN
  CASE p.location = "path" ->
         p.original = "petId" => \E k \in DOMAIN r.path : r.path[k] = [text |-> value, hole |-> ""]
    [] p.location = "query" -> <<p.original, value>> \in r.query
    [] p.location = "header" -> r.headers[p.original] = value
    [] OTHER -> IF p.original \in {"", "body", "array"} THEN r.body.whole = value
                ELSE r.body.data[p.original] = value

\* The model is offered every parameter of an operation under a name of its
\* own, and what it gives for the name is sent under the parameter's original
\* name in its place (unless two parameters have both in common).
ASSUME ArgumentsGoWhereTheyBelong ==
  \A n \in 0..2 : \A own \in [1..n -> Wanted] : \A shared \in {<< >>} \cup {<<w>> : w \in Wanted} :
  \A payload \in Payloads :
    LET tool == Rest!CollectOperations(OneOperation(own, shared, payload, << >>))[1]
        offered == Rest!JsonSchema(tool.params).properties
        Value(name) == "to " \o name
        r == Rest!PrepareRequestParams(tool, [name \in offered |-> Value(name)])
        clear == \A i, k \in 1..(n + Len(shared)) : i # k =>
                   (own \o shared)[i].original # (own \o shared)[k].original
                     \/ (own \o shared)[i].location # (own \o shared)[k].location
    IN /\ Cardinality(offered) = Len(tool.params)
       /\ clear => \A i \in DOMAIN tool.params : Sends(tool, r, i, Value(tool.params[i].name))

Secrets == {[type |-> t, key |-> "s3"] : t \in {"apiKey", "http"}}
Carriers == {[type |-> "apiKey", in |-> l, name |-> "X-Key"] : l \in {"header", "query"}}
            \cup {[type |-> "http", in |-> "header", name |-> "Authorization"]}
Carried(r, param) ==
  IF param.location = "query" THEN <<param.original, param.value>> \in r.query
  ELSE r.headers[param.original] = param.value

\* A call carries its credential where the parameter made of it says, whatever
\* the model gives for a header or a query parameter of that name, unless the
\* application's own header stands there; a credential without a value is never
\* sent, and nothing is sent in its place.
ASSUME CredentialIsWhatIsSent ==
  \A credential \in Secrets : \A scheme \in Carriers : \A place \in {"header", "query"} :
  \A n \in {"X-Key", "Authorization", "q"} : \A provided \in {Rest!Empty, "X-Key" :> "own"} :
    LET tool == [Rest!CollectOperations(OneOperation(<<Expected(n, place)>>, << >>,
                   [shape |-> "none", props |-> << >>, mime |-> "json"], << >>))[1]
                 EXCEPT !.scheme = scheme]
        sent == Rest!RunTool(tool, n :> "forged", credential, provided)
        bare == Rest!RunTool(tool, n :> "forged", [credential EXCEPT !.type = "http", !.key = ""], provided)
        agrees == credential.type = "http" \/ scheme.type = "apiKey"
    IN /\ bare = Thrown /\ \A h \in DOMAIN provided : sent.headers[h] = provided[h]
       /\ agrees =>
            LET param == Rest!CredentialToParam(scheme, credential)
            IN  (param.location = "header" /\ param.original \in DOMAIN provided) \/ Carried(sent, param)

Leaf(key, ref) == [key |-> key, ref |-> ref, types |-> {}, kids |-> << >>]
Definitions(F) == [F -> {[key |-> "d", ref |-> "", types |-> {"STRING", "file"}, kids |-> k] :
                         k \in UNION {[1..n -> {Leaf("items", f) : f \in F \cup {""}}] : n \in 0..2}}
                       \cup {[key |-> "d", ref |-> f, types |-> {}, kids |-> << >>] : f \in F}]
RECURSIVE Nodes(_)
Nodes(node) == {node} \cup UNION {Nodes(node.kids[i]) : i \in DOMAIN node.kids}
\* The definitions reached from one, by the references in it.
RECURSIVE Reached(_, _)
Reached(defs, names) ==
  LET more == names \cup UNION {{m.ref : m \in Nodes(defs[f])} \ {""} : f \in names}
  IN  IF more = names THEN names ELSE Reached(defs, more)
IsCyclic(defs, f) == \E g \in Reached(defs, {f}) : g \in Reached(defs, {m.ref : m \in Nodes(defs[g])} \ {""})
RECURSIVE Expansion(_, _)
Expansion(node, defs) ==
  IF node.ref # "" THEN [Expansion(defs[node.ref], defs) EXCEPT !.key = node.key]
  ELSE [node EXCEPT !.kids = [i \in DOMAIN @ |-> Expansion(@[i], defs)]]

\* Resolving a document always ends and leaves no reference in it, even where
\* definitions refer to each other in circles; where they do not, every
\* reference becomes the whole of what it names, each time it occurs.  Types no
\* schema may have are then gone from schemas, and from nothing else.
ASSUME ReferencesAreExpanded ==
  \A defs \in Definitions({"A", "B"}) : \A f, g \in {"A", "B"} :
    LET doc == [key |-> "", ref |-> "", types |-> {"apiKey"}, kids |-> <<Leaf("schema", f), Leaf("schema", g)>>]
        whole == Rest!ResolveReferences(doc, defs)
        clean == Rest!Sanitize(whole, FALSE)
    IN /\ \A m \in Nodes(whole) : m.ref = ""
       /\ ~IsCyclic(defs, f) /\ ~IsCyclic(defs, g) => whole = Expansion(doc, defs)
       /\ clean.types = {"apiKey"}
       /\ \A m \in Nodes(clean) \ {clean} : m.types \subseteq {"string"}

\* A key or token an application configures reaches the request in the place
\* the application named for it.
ASSUME ConfiguredKeyIsSent ==
  \A type \in {"apikey", "oauth2Token"} : \A location \in Rest!Locations \cup {"body"} :
  \A value \in {"", "s3"} :
    LET made == Rest!TokenToSchemeCredential(type, location, "X-Key", value)
        tools == Rest!Toolset(OneOperation(<< >>, << >>,
                   [shape |-> "none", props |-> << >>, mime |-> "json"], <<"key">>), "pet", made.scheme)
        sent == Rest!RunTool(Rest!GetTools(tools, {"pet_addPet"})[1], Rest!Empty, made.credential, Rest!Empty)
    IN IF type = "apikey" /\ location = "body" THEN made = Thrown
       ELSE IF value = "" THEN sent.headers = Rest!Empty /\ sent.query = {}
       ELSE IF type = "oauth2Token" THEN sent.headers["Authorization"] = "Bearer s3"
       ELSE CASE location = "query" -> sent.query = {<<"X-Key", "s3">>}
              [] location = "header" -> sent.headers = ("X-Key" :> "s3")
              [] OTHER -> sent.headers = ("Authorization" :> "s3")

\* A client's secrets are found whether or not they come wrapped in an object,
\* and an incomplete configuration or secret makes no credential.
ASSUME ClientSecretsAreFound ==
  \A config \in SUBSET {"authorizationEndpoint", "tokenEndpoint"} :
  \A fields \in SUBSET {"client_id", "client_secret", "web"} : \A wrapped \in BOOLEAN :
    LET secrets == IF wrapped THEN "web" :> [fields |-> fields] ELSE [f \in fields |-> [fields |-> {}]]
        complete == Cardinality(config) = 2 /\ {"client_id", "client_secret"} \subseteq fields
    IN  Rest!OpenidDictToSchemeCredential(config, secrets) = (IF complete THEN fields ELSE Thrown)
=============================================================================
