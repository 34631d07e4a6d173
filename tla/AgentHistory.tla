---------------------------- MODULE AgentHistory ----------------------------
(***************************************************************************)
(* What an LlmAgent reads of the session when it runs as a workflow node.  *)
(* A chain of agents in single_turn mode: each appends its node input to   *)
(* the session as a user turn, then alternates model requests and tool     *)
(* calls until it answers.  The events it emits go into the event channel  *)
(* (Invocation) and reach the session when the runner gets to them, while  *)
(* the input goes there directly.                                          *)
(*                                                                         *)
(* An event is its author, the agent it belongs to, and what it is.  All   *)
(* agents run on the branch of the chain; thoughts, empty texts and the    *)
(* conversion to prompt text are left out.                                 *)
(***************************************************************************)
EXTENDS Naturals, SequencesExt

CONSTANTS
  Chain,     \* the agents of the workflow, in order
  MaxCalls,  \* bound: tool calls of one agent
  Prompt     \* the runner commits an event before the agents go on

VARIABLES
  session,  \* session.events
  stream,   \* events emitted and not committed yet
  at,       \* where each agent stands
  own,      \* what each agent said in this run, in order
  request   \* the contents of its last model request

vars == <<session, stream, at, own, request>>

Agent == {Chain[i] : i \in DOMAIN Chain}
Said(author, of, what) == [author |-> author, of |-> of, what |-> what]
Input(a) == Said("user", a, "input")

\* The agent goes on, once its events are committed if commits are prompt.
Goes(a, from) == at[a] = from /\ (Prompt => stream = << >>)
Emit(a, what, next) ==
  /\ stream' = Append(stream, Said(a, a, what))
  /\ own' = [own EXCEPT ![a] = Append(@, Said(a, a, what))]
  /\ at' = [at EXCEPT ![a] = next]
  /\ UNCHANGED <<session, request>>

---------------------------------------------------------------------------
\* An event that starts a turn of agent a: the user's or another agent's.
StartsTurn(e, a) == e.author # a
Anchor(events, a) ==
  CHOOSE i \in DOMAIN events :
    /\ StartsTurn(events[i], a)
    /\ \A j \in DOMAIN events : j > i => ~StartsTurn(events[j], a)

\* turnStart: back to the call a response of the turn answers.
TurnStart(events, anchor) ==
  LET calls == {i \in 1..(anchor - 1) :
                  /\ events[i].what = "call"
                  /\ \E j \in anchor..Len(events) : /\ events[j].what = "response"
                                                    /\ events[j].of = events[i].of}
  IN  IF calls = {} THEN anchor ELSE CHOOSE i \in calls : \A j \in calls : i <= j

\* getCurrentTurnContents.
CurrentTurn(events, a) ==
  IF \E i \in DOMAIN events : StartsTurn(events[i], a)
  THEN SubSeq(events, TurnStart(events, Anchor(events, a)), Len(events))
  ELSE << >>

---------------------------------------------------------------------------
AppendNodeInputAsUserTurn(i) ==
  LET a == Chain[i] IN
  /\ Goes(a, "idle")
  /\ i > 1 => at[Chain[i - 1]] = "done"
  /\ session' = Append(session, Input(a))
  /\ at' = [at EXCEPT ![a] = "ready"]
  /\ UNCHANGED <<stream, own, request>>

BuildRequest(a) ==
  /\ Goes(a, "ready")
  /\ request' = [request EXCEPT ![a] = CurrentTurn(session, a)]
  /\ at' = [at EXCEPT ![a] = "model"]
  /\ UNCHANGED <<session, stream, own>>

\* The model calls a tool, whose response follows; or it answers.
CallTool(a) == Goes(a, "model") /\ Len(own[a]) < 2 * MaxCalls /\ Emit(a, "call", "tool")
Respond(a) == Goes(a, "tool") /\ Emit(a, "response", "ready")
Answer(a) == Goes(a, "model") /\ Emit(a, "answer", "done")

\* The runner takes the next event and appends it to the session.
Commit ==
  /\ stream # << >>
  /\ session' = Append(session, Head(stream))
  /\ stream' = Tail(stream)
  /\ UNCHANGED <<at, own, request>>

Init ==
  /\ session = <<Said("user", "user", "message")>> /\ stream = << >>
  /\ at = [a \in Agent |-> "idle"]
  /\ own = [a \in Agent |-> << >>] /\ request = [a \in Agent |-> << >>]

Done == stream = << >> /\ (\A a \in Agent : at[a] = "done") /\ UNCHANGED vars
Next ==
  \/ \E i \in DOMAIN Chain : AppendNodeInputAsUserTurn(i)
  \/ \E a \in Agent : BuildRequest(a) \/ CallTool(a) \/ Respond(a) \/ Answer(a)
  \/ Commit
  \/ Done
Spec == Init /\ [][Next]_vars

---------------------------------------------------------------------------
\* A model request of an agent node starts at the input the graph handed it and
\* holds nothing else but the agent's own calls and responses since
\* (appendNodeInputAsUserTurn, getCurrentTurnContents).  Those of its own that
\* are not committed yet may be missing.
RequestIsOwnTurn ==
  \A a \in Agent :
    at[a] = "model" => /\ request[a] # << >>
                       /\ IsPrefix(request[a], <<Input(a)>> \o own[a])
=============================================================================
