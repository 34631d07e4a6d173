---------------------------- MODULE RemoteAgents ----------------------------
(***************************************************************************)
(* An agent reached over the A2A protocol: the executor that turns the     *)
(* events of a run into the updates of a task, the agent that turns the    *)
(* updates of a task into events of its own, and what is sent to whom.     *)
(*                                                                         *)
(* An event of a run is [author, partial, text, calls, error]: `text' the  *)
(* sequence of pieces it says, `calls' its long-running calls.  An update  *)
(* is [kind, id, append, last, text]: an "artifact" chunk, or a status     *)
(* "working", "failed", "completed" or "input-required".                   *)
(***************************************************************************)
EXTENDS Naturals, SequencesExt, FiniteSetsExt, Functions

Status(kind, text) ==
  [kind |-> kind, id |-> 0, append |-> FALSE, last |-> FALSE, text |-> text]
IsFinal(u) == u.kind \in {"failed", "completed", "input-required"}

---------------------------------------------------------------------------
(* The executor                                                            *)

\* The artifacts under way, per author: `open' maps an author to the artifact
\* its partial events go to; `fresh' is the id a new artifact would get.
ArtifactIdOf(open, author, fresh) ==
  IF author \in DOMAIN open THEN open[author] ELSE fresh

ConvertAdkEventToA2AEvent(open, e, fresh) ==
  [kind |-> "artifact", id |-> ArtifactIdOf(open, e.author, fresh),
   append |-> e.partial, last |-> ~e.partial, text |-> e.text]

OpenAfter(open, e, fresh) ==
  IF e.partial THEN [a \in DOMAIN open \cup {e.author} |->
                       IF a = e.author THEN ArtifactIdOf(open, a, fresh) ELSE open[a]]
  ELSE Restrict(open, DOMAIN open \ {e.author})

\* The first error of the run, or the long-running calls it left, or success.
GetFinalTaskStatusUpdate(events) ==
  IF \E i \in DOMAIN events : events[i].error THEN Status("failed", <<"error">>)
  ELSE IF \E i \in DOMAIN events : events[i].calls # {} THEN Status("input-required", <<"calls">>)
  ELSE Status("completed", << >>)

\* The executor on the events of one run: `open' is its own, and outlives it.
Execute(open, events) ==
  LET Go(s, i) ==
        IF events[i].text = << >> THEN s
        ELSE [open |-> OpenAfter(s.open, events[i], i),
              out |-> Append(s.out, ConvertAdkEventToA2AEvent(s.open, events[i], i))]
      ran == FoldLeftDomain(Go, [open |-> open, out |-> <<Status("working", << >>)>>], events)
  IN [ran EXCEPT !.out = Append(@, GetFinalTaskStatusUpdate(events))]

---------------------------------------------------------------------------
(* The remote agent                                                        *)

Said(partial, text) == [partial |-> partial, text |-> text]

\* An update that has nothing to say is no event, and is not looked at again.
ToAdkEvent(u) ==
  IF u.text = << >> THEN << >>
  ELSE <<Said(IF u.kind = "artifact" THEN u.append \/ ~u.last ELSE u.kind = "working", u.text)>>

\* The artifacts being put together, in the order they were last added to.
RemoveAggregation(aggs, id) == SelectSeq(aggs, LAMBDA a : a.id # id)
TextOf(aggs, id) ==
  FlattenSeq([i \in DOMAIN aggs |-> IF aggs[i].id = id THEN aggs[i].text ELSE << >>])
UpdateAggregation(aggs, id, text) ==
  Append(RemoveAggregation(aggs, id), [id |-> id, text |-> TextOf(aggs, id) \o text])
BuildNonPartialAggregation(agg) == Said(FALSE, agg.text)

Emit(aggs, out) == [aggs |-> aggs, out |-> out]
AggregatePartial(aggs, u) ==
  LET e == ToAdkEvent(u)
      begun == IF u.append THEN aggs ELSE RemoveAggregation(aggs, u.id)
      added == UpdateAggregation(begun, u.id, u.text)
  IN CASE e = << >> -> Emit(aggs, << >>)
       [] e # << >> /\ IsFinal(u) ->
            Emit(<< >>, [i \in DOMAIN aggs |-> BuildNonPartialAggregation(aggs[i])] \o e)
       [] e # << >> /\ u.kind = "working" -> Emit(aggs, e)
       [] e # << >> /\ u.kind = "artifact" /\ ~u.append /\ u.last -> Emit(begun, e)
       [] e # << >> /\ u.kind = "artifact" /\ u.append /\ u.last ->
            Emit(RemoveAggregation(added, u.id),
                 Append(e, BuildNonPartialAggregation(added[Len(added)])))
       [] OTHER -> Emit(added, e)

\* The events the remote agent emits for the updates of one request.
RunAsyncImpl(updates) ==
  LET Go(s, u) == LET r == AggregatePartial(s.aggs, u) IN Emit(r.aggs, s.out \o r.out)
  IN FoldLeft(Go, Emit(<< >>, << >>), updates).out

\* What is sent: everything after the last event that bears the agent's name.
ToMissingRemoteSessionParts(authors, name) ==
  LET own == {i \in DOMAIN authors : authors[i] = name}
  IN {i \in DOMAIN authors : i > Max({0} \cup own)}
=============================================================================
