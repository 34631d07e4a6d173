--------------------------- MODULE RequestContents ---------------------------
(***************************************************************************)
(* What a model is told of the session: the events an agent may see, the   *)
(* compactions that shorten them, the rearrangement that puts every tool   *)
(* answer behind its call, and the window of the current turn.             *)
(*                                                                         *)
(* An event is a record.  `kind' is what its content is: "words", "none",  *)
(* "internal" (a credential, confirmation or input request of the          *)
(* framework) or "summary".  `calls' are the ids of its function calls,    *)
(* `answers' maps ids to the responses it carries, `words' is the set of   *)
(* its other parts.  `scope' is its isolation scope (NoScope: untagged),   *)
(* `branch' a sequence of names, `at' its timestamp and `upTo' the endTime *)
(* of a summary.                                                           *)
(***************************************************************************)
EXTENDS Naturals, SequencesExt, FiniteSetsExt, Functions

CONSTANTS User, System, NoScope   \* authors 'user' and 'system', no isolation scope

NoAnswers == << >>
Calls(e) == e.calls # {}
Answers(e) == DOMAIN e.answers # {}
AnsweredIn(es) == UNION {DOMAIN es[i].answers : i \in DOMAIN es}

IsEventVisibleInIsolationScope(e, scope) == e.scope \in {NoScope, scope}
Visible(log, scope) ==
  SelectSeq(log, LAMBDA e : IsEventVisibleInIsolationScope(e, scope))

---------------------------------------------------------------------------
(* The active events: the latest summary and what came after its end       *)

IsCompactedEvent(e) == e.kind = "summary"

GetActiveEvents(log, scope) ==
  LET seen == Visible(log, scope)
      sums == SelectSeq(seen, IsCompactedEvent)
      latest == sums[Len(sums)]
  IN IF sums = << >> THEN seen
     ELSE <<latest>> \o SelectSeq(seen, LAMBDA e : ~IsCompactedEvent(e) /\ e.at > latest.upTo)

---------------------------------------------------------------------------
(* Compaction.  A compactor maps the session's events to the events it     *)
(* leaves; the summary a summarizer writes at `now' covers `es'.           *)

\* Each cut is moved off an answer that directly follows its call (keep > 0).
CalculateRetainStartIndex(raw, keep) ==
  LET from == IF Len(raw) > keep THEN Len(raw) - keep ELSE 0
  IN Max({0} \cup {i \in 1..from : ~(Answers(raw[i + 1]) /\ Calls(raw[i]))})

Summarize(es, scope, now) ==
  [kind |-> "summary", who |-> System, calls |-> {}, answers |-> NoAnswers,
   words |-> UNION {es[i].words : i \in DOMAIN es}, branch |-> << >>,
   scope |-> scope, at |-> now, upTo |-> es[Len(es)].at]

Raw(es) == SelectSeq(es, LAMBDA e : ~IsCompactedEvent(e))

\* The summary takes the place of nothing: it is added at the end.
TokenBasedCompact(log, scope, keep, now) ==
  LET active == GetActiveEvents(log, scope)
      raw == Raw(active)
      cut == CalculateRetainStartIndex(raw, keep)
      sums == SelectSeq(active, IsCompactedEvent)
  IN IF keep >= Len(raw) \/ cut = 0 THEN log
     ELSE Append(log, Summarize((IF sums = << >> THEN << >> ELSE <<sums[1]>>)
                                \o SubSeq(raw, 1, cut), scope, now))

\* The summary takes the place of the events of its own scope that it covers;
\* shared events stay for the readers outside the scope.
AnchoredCompact(log, scope, keep, now) ==
  LET active == GetActiveEvents(log, scope)
      old == active # << >> /\ IsCompactedEvent(active[1])
      raw == IF old THEN Tail(active) ELSE active
      cut == CalculateRetainStartIndex(raw, keep)
      covered == (IF old THEN <<active[1]>> ELSE << >>) \o SubSeq(raw, 1, cut)
      Replaced(e) == Contains(covered, e) /\ (scope = NoScope \/ e.scope = scope)
      at == {i \in DOMAIN log : Replaced(log[i])}
      summary == Summarize(covered, scope, now)
      Kept(es) == SelectSeq(es, LAMBDA e : ~Replaced(e))
      first == Min(at)
  IN IF keep >= Len(raw) \/ cut = 0 THEN log
     ELSE IF at = {} THEN Append(log, summary)
     ELSE SubSeq(log, 1, first - 1) \o <<summary>>
          \o Kept(SubSeq(log, first, Len(log)))

\* Everything before the latest call of consolidate_context is summarised.
AgentControlledCompact(log, scope, asks, now) ==
  LET active == GetActiveEvents(log, scope)
      at == {i \in DOMAIN active : active[i].calls \cap asks # {}}
  IN IF at = {} \/ Max(at \cup {1}) = 1 THEN log
     ELSE Append(log, Summarize(SubSeq(active, 1, Max(at) - 1), scope, now))

VisibleAt(log, scope) ==
  {i \in DOMAIN log : IsEventVisibleInIsolationScope(log[i], scope)}
VisibleBefore(log, scope, i) == Cardinality({j \in VisibleAt(log, scope) : j < i})
Without(log, S) ==
  FoldLeftDomain(LAMBDA es, i : IF i \in S THEN es ELSE Append(es, log[i]), << >>, log)

\* The visible events over the threshold go, after a prefix that stays.
TruncatingCompact(log, scope, threshold, lead) ==
  LET n == Cardinality(VisibleAt(log, scope))
  IN Without(log, {i \in VisibleAt(log, scope) :
                     /\ VisibleBefore(log, scope, i) >= lead
                     /\ VisibleBefore(log, scope, i) + threshold < n})

---------------------------------------------------------------------------
(* Who sees what                                                           *)

IsSegmentPrefix(current, target) == IsPrefix(target, current)
IsEventFromAnotherAgent(me, e) == e.who \notin {me, User}

ShouldIncludeEventInContext(e, branch, scope) ==
  /\ e.kind \notin {"none", "internal"}
  /\ branch # << >> => IsSegmentPrefix(branch, e.branch)
  /\ IsEventVisibleInIsolationScope(e, scope)

\* Another agent's calls and answers are told as words of the user.
ConvertForeignEvent(e) ==
  [e EXCEPT !.who = User, !.calls = {}, !.answers = NoAnswers,
            !.words = @ \cup e.calls \cup DOMAIN e.answers]
ConvertCompactedEvent(e) == [e EXCEPT !.kind = "words", !.who = User]

Shown(log, me, branch, scope) ==
  LET In(e) == /\ IsEventVisibleInIsolationScope(e, scope)
               /\ \/ IsCompactedEvent(e)
                  \/ ShouldIncludeEventInContext(e, branch, scope)
      seen == SelectSeq(log, In)
  IN [i \in DOMAIN seen |->
        IF IsCompactedEvent(seen[i]) THEN ConvertCompactedEvent(seen[i])
        ELSE IF IsEventFromAnotherAgent(me, seen[i]) THEN ConvertForeignEvent(seen[i])
        ELSE seen[i]]

---------------------------------------------------------------------------
(* Every answer behind its call                                            *)

\* A later answer to the same call replaces the earlier one, in its place.
MergeFunctionResponseEvents(es) ==
  FoldLeft(LAMBDA m, e : [m EXCEPT !.answers = e.answers @@ @, !.words = @ \cup e.words],
           es[1], Tail(es))

\* Where the call of the latest answers is: the last event before them that
\* makes one of these calls.
CallsOf(es, ids) == {i \in 1..(Len(es) - 1) : es[i].calls \cap ids # {}}
AnswerIsLatest(es) == es # << >> /\ Answers(es[Len(es)])
CallIsDirectlyBefore(es, ids) == Len(es) > 1 /\ es[Len(es) - 1].calls \cap ids # {}

\* Building the request throws: the latest answers have no call in view, or
\* belong to more than one event's calls.
RearrangeThrows(es) ==
  /\ AnswerIsLatest(es)
  /\ LET ids == DOMAIN es[Len(es)].answers
     IN /\ ~CallIsDirectlyBefore(es, ids)
        /\ \/ CallsOf(es, ids) = {}
           \/ ~ ids \subseteq es[Max(CallsOf(es, ids))].calls

RearrangeForLatest(es) ==
  LET n == Len(es)
      ids == DOMAIN es[n].answers
      at == Max(CallsOf(es, ids))
      parts == SelectSeq(SubSeq(es, at + 1, n - 1),
                         LAMBDA e : DOMAIN e.answers \cap es[at].calls # {})
  IN IF ~AnswerIsLatest(es) \/ CallIsDirectlyBefore(es, ids) THEN es
     ELSE Append(SubSeq(es, 1, at), MergeFunctionResponseEvents(Append(parts, es[n])))

\* The events that hold the last answer to one of these calls, in order.
LastAnswers(es, ids) ==
  LET at == {Max({i \in DOMAIN es : c \in DOMAIN es[i].answers}) :
               c \in ids \cap AnsweredIn(es)}
  IN [k \in 1..Cardinality(at) |-> es[SetToSortSeq(at, <)[k]]]

RearrangeInHistory(es) ==
  LET With(out, e) ==
        LET answers == LastAnswers(es, e.calls)
        IN CASE Answers(e) -> out
             [] ~Answers(e) /\ answers = << >> -> Append(out, e)
             [] OTHER -> out \o <<e, MergeFunctionResponseEvents(answers)>>
  IN FoldLeft(With, << >>, es)

GetContents(log, me, branch, scope) ==
  RearrangeInHistory(RearrangeForLatest(Shown(log, me, branch, scope)))

---------------------------------------------------------------------------
(* The current turn (includeContents 'none')                               *)

\* The window is widened back over the first call it answers.
TurnStart(log, anchor) ==
  LET answered == AnsweredIn(SubSeq(log, anchor, Len(log)))
  IN Min({anchor} \cup {i \in 1..(anchor - 1) : log[i].calls \cap answered # {}})

TurnAnchors(log, me, branch, scope) ==
  {i \in DOMAIN log : /\ ShouldIncludeEventInContext(log[i], branch, scope)
                      /\ \/ log[i].who = User
                         \/ IsEventFromAnotherAgent(me, log[i])}

CurrentTurn(log, me, branch, scope) ==
  LET anchors == TurnAnchors(log, me, branch, scope)
  IN IF anchors = {} THEN << >>
     ELSE SubSeq(log, TurnStart(log, Max(anchors)), Len(log))

GetCurrentTurnContents(log, me, branch, scope) ==
  GetContents(CurrentTurn(log, me, branch, scope), me, branch, scope)

RunAsync(log, me, branch, scope, includeContents) ==
  LET active == GetActiveEvents(log, scope)
  IN IF includeContents = "default" THEN GetContents(active, me, branch, scope)
     ELSE GetCurrentTurnContents(active, me, branch, scope)
=============================================================================
