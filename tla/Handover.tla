------------------------------ MODULE Handover ------------------------------
(***************************************************************************)
(* Who speaks next: the tree of agents and the transfers in it, what the   *)
(* answers of a batch of tool calls lead to, which agent a new message     *)
(* goes to, what an agent's callbacks say for it, and an agent that is run *)
(* as another one's tool.                                                  *)
(*                                                                         *)
(* A tree is [subs, name, llm, keeps, shuns]: the sub-agents of each agent *)
(* in order, its name, whether it is an LlmAgent, and the sets that        *)
(* disallow transfer to their parent (keeps) and to their peers (shuns).   *)
(* An event is [author, calls, answers, node]: the ids called, the ids     *)
(* answered in order, and whether a workflow node wrote it.                *)
(***************************************************************************)
EXTENDS Naturals, Sequences, SequencesExt, Functions, TLC

CONSTANTS Nobody, Throws

Members(tree) == DOMAIN tree.subs
ParentAgent(tree, a) ==
  IF \E p \in Members(tree) : a \in Range(tree.subs[p])
  THEN CHOOSE p \in Members(tree) : a \in Range(tree.subs[p]) ELSE Nobody

\* The agents from one downwards, in the order they are looked through.
Order(tree) ==
  LET below[a \in Members(tree)] ==
        << a >> \o FlattenSeq([i \in DOMAIN tree.subs[a] |-> below[tree.subs[a][i]]])
  IN below
Lineage(tree) ==
  LET above[a \in Members(tree)] ==
        LET p == ParentAgent(tree, a) IN {a} \cup (IF p = Nobody THEN {} ELSE above[p])
  IN above

First(seq, Test(_)) == LET i == SelectInSeq(seq, Test) IN IF i = 0 THEN Nobody ELSE seq[i]
FindAgent(tree, a, name) == First(Order(tree)[a], LAMBDA b : tree.name[b] = name)
FindSubAgent(tree, a, name) == First(Tail(Order(tree)[a]), LAMBDA b : tree.name[b] = name)
RootAgent(tree, a) == CHOOSE r \in Lineage(tree)[a] : ParentAgent(tree, r) = Nobody

IsRoutableLlmAgent(tree, a) ==
  \A b \in Lineage(tree)[a] : b \in tree.llm /\ b \notin tree.keeps

\* Where a model may transfer to; a transfer itself only looks for the name.
GetTransferTargets(tree, a) ==
  LET p == ParentAgent(tree, a)
      peers == SelectSeq(tree.subs[p], LAMBDA b : tree.name[b] # tree.name[a])
  IN tree.subs[a] \o
     (IF p = Nobody \/ p \notin tree.llm THEN << >>
      ELSE (IF a \in tree.keeps THEN << >> ELSE << p >>)
           \o (IF a \in tree.shuns THEN << >> ELSE peers))
GetAgentByName(tree, a, name) ==
  LET b == FindAgent(tree, RootAgent(tree, a), name) IN IF b = Nobody THEN Throws ELSE b

---------------------------------------------------------------------------
(* What the answers of a batch lead to                                     *)

NoActions == [state |-> << >>, artifacts |-> << >>, auths |-> << >>, gates |-> << >>,
              transferTo |-> Nobody]
MergeEventActions(sources) ==
  FoldLeft(LAMBDA all, s :
             [state |-> s.state @@ all.state, artifacts |-> s.artifacts @@ all.artifacts,
              auths |-> s.auths @@ all.auths, gates |-> s.gates @@ all.gates,
              transferTo |-> IF s.transferTo = Nobody THEN all.transferTo ELSE s.transferTo],
           NoActions, sources)
\* An answer is [id, says, actions].
MergeParallelFunctionResponseEvents(answers) ==
  [parts |-> [i \in DOMAIN answers |-> [id |-> answers[i].id, says |-> answers[i].says]],
   actions |-> MergeEventActions([i \in DOMAIN answers |-> answers[i].actions])]

\* The requests for credentials and for approval, one per answer that asks;
\* a request for approval names a call of the batch and takes all the actions.
GenerateAuthEvent(merged) == [asks |-> DOMAIN merged.actions.auths, actions |-> NoActions]
GenerateRequestConfirmationEvent(calls, merged) ==
  [asks |-> DOMAIN merged.actions.gates \cap calls, actions |-> merged.actions]

\* The events that follow the calls, whether the invocation ends with them,
\* and who goes on in this turn.
AfterAnswers(tree, a, calls, answers) ==
  LET merged == MergeParallelFunctionResponseEvents(answers)
      auth == IF merged.actions.auths = << >> THEN << >> ELSE << GenerateAuthEvent(merged) >>
      gated == merged.actions.gates # << >>
      to == merged.actions.transferTo
  IN [events |-> auth \o << IF gated THEN GenerateRequestConfirmationEvent(calls, merged) ELSE merged >>,
      ends |-> gated,
      next |-> IF gated \/ to = Nobody THEN Nobody ELSE GetAgentByName(tree, a, to)]

---------------------------------------------------------------------------
(* Which agent a new message goes to                                       *)

FindEventByFunctionCallId(events, id, end) ==
  LET found == {i \in 1..end : id \in events[i].calls}
  IN IF found = {} THEN 0 ELSE CHOOSE i \in found : \A j \in found : j <= i

\* The last of the calls the last event answers, and whether they are of two authors.
ResolveFunctionResponseMatch(events) ==
  IF events = << >> THEN [resolved |-> 0, conflict |-> FALSE]
  ELSE LET ids == Last(events).answers
           Match(id) == FindEventByFunctionCallId(events, id, Len(events) - 1)
           found == SelectSeq([i \in DOMAIN ids |-> Match(ids[i])], LAMBDA m : m # 0)
       IN [resolved |-> IF found = << >> THEN 0 ELSE Last(found),
           conflict |-> \E i \in 2..Len(found) :
                          events[found[i]].author # events[found[i - 1]].author]

\* A speaker that is known and may be returned to.
Speaker(tree, root, event) ==
  IF event.author \in {"user", ""} THEN Nobody
  ELSE IF event.author = tree.name[root] THEN root
  ELSE LET a == FindSubAgent(tree, root, event.author)
       IN IF a # Nobody /\ IsRoutableLlmAgent(tree, a) THEN a ELSE Nobody

LastSpeaker(tree, root, events) ==
  LET spoke == {i \in DOMAIN events : Speaker(tree, root, events[i]) # Nobody}
  IN IF spoke = {} THEN root
     ELSE Speaker(tree, root, events[CHOOSE i \in spoke : \A j \in spoke : j <= i])

DetermineAgentForResumption(tree, root, events, isResumable) ==
  LET match == ResolveFunctionResponseMatch(events)
      asker == IF match.resolved = 0 THEN Nobody
               ELSE FindAgent(tree, root, events[match.resolved].author)
      byAnswer == match.resolved # 0 /\ events[match.resolved].author # "" /\ isResumable
  IN CASE byAnswer /\ match.conflict -> Throws
       [] byAnswer /\ ~match.conflict /\ asker # Nobody -> asker
       [] OTHER -> LastSpeaker(tree, root, events)

---------------------------------------------------------------------------
(* What is kept of a message and of a run                                  *)

\* Uploads of a message become artifacts, unless saving one fails: `saved[i]'
\* is "fails", "local" or "public" (with a URI the model can open).
SaveArtifacts(parts, saved) ==
  FlattenSeq([i \in DOMAIN parts |->
    CASE parts[i].kind # "inline" \/ saved[i] = "fails" -> << parts[i] >>
      [] parts[i].kind = "inline" /\ saved[i] = "local" ->
           << [kind |-> "mark", of |-> parts[i].of] >>
      [] OTHER -> << [kind |-> "mark", of |-> parts[i].of], [kind |-> "uri", of |-> parts[i].of] >>])

\* A live event of whole media is heard and not stored.
StoredLive(event) == ~event.partial /\ ~event.media

\* The callbacks around a run: each is [says, writes, aborts].  What they wrote
\* goes with what the first of them says, or in an event of its own.
HandleCallbacks(callbacks) ==
  LET stop == SelectInSeq(callbacks, LAMBDA c : c.says \/ c.aborts)
      ran == IF stop = 0 THEN callbacks ELSE SubSeq(callbacks, 1, stop)
      wrote == UNION {c.writes : c \in Range(ran)}
      aborted == stop # 0 /\ callbacks[stop].aborts
      says == stop # 0 /\ callbacks[stop].says
  IN [event |-> IF aborted \/ ~(says \/ wrote # {}) THEN << >> ELSE << wrote >>,
      says |-> says /\ ~aborted, aborted |-> aborted, ran |-> Len(ran)]

\* `body': the events of the agent itself, and whether it ended the invocation.
RunAgent(before, body, ends, after) ==
  LET first == HandleCallbacks(before)
      last == HandleCallbacks(after)
      skips == first.says \/ first.aborted
  IN first.event \o (IF skips THEN << >>
                     ELSE body \o (IF ends THEN << >> ELSE last.event))

\* An agent as a tool runs in a session of its own name and the caller's id,
\* which the caller's state fills only when it is made.  `writes': the deltas
\* of the inner run's events, to keys that begin with "temp:" or not.
GetOrCreateSession(sessions, key, state) ==
  IF key \in DOMAIN sessions THEN sessions ELSE (key :> state) @@ sessions
Kept(delta, temporary) == [k \in DOMAIN delta \ temporary |-> delta[k]]
RunAgentTool(sessions, key, state, writes, temporary) ==
  LET opened == GetOrCreateSession(sessions, key, Kept(state, temporary))
      After(s) == FoldLeft(LAMBDA t, w : Kept(w, temporary) @@ t, s, writes)
  IN [sees |-> opened[key], state |-> After(state),
      sessions |-> [opened EXCEPT ![key] = After(@)]]
==============================================================================
