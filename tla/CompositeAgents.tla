--------------------------- MODULE CompositeAgents ---------------------------
(***************************************************************************)
(* A tree of agents as generators: leaves that do the work, and the        *)
(* composite agents that run their sub-agents one after the other, again   *)
(* and again, side by side, or one in place of another that failed.  Each  *)
(* runAsync is a generator: it moves when its caller asks for an event,    *)
(* and is suspended at its yield until it is asked again.  At the top the  *)
(* runner asks, takes, and may stop.                                       *)
(*                                                                         *)
(* A caller that throws or stops leaves nobody to ask the runs below it;   *)
(* ParallelAgent does not close its branches, so what was asked of them    *)
(* goes on until its next event.                                           *)
(***************************************************************************)
EXTENDS Naturals, FiniteSets, SequencesExt

CONSTANTS
  Root,
  SubAgents,      \* for every agent, its sub-agents in order
  Kind,           \* for every agent: leaf, sequence, loop, parallel, routed
  MaxIterations,  \* LoopAgent.maxIterations
  MaxEvents       \* bound: events of one run of a leaf

Agents == DOMAIN Kind
Leaves == {a \in Agents : Kind[a] = "leaf"}
Subs(a) == Range(SubAgents[a])
\* The agents of every set that has the agent and is closed under sub-agents.
Reach ==
  [a \in Agents |->
     {b \in Agents : \A S \in SUBSET Agents : a \in S /\ (\A x \in S : Subs(x) \subseteq S) => b \in S}]
Below(a) == Reach[a]

\* Every agent but the root is a sub-agent of one agent, once, and the root is
\* above them all.
ASSUME TreeAssumption ==
  /\ DOMAIN SubAgents = Agents /\ Root \in Agents
  /\ \A a \in Agents : SubAgents[a] \in Seq(Agents \ {Root}) /\ IsInjective(SubAgents[a])
  /\ Below(Root) = Agents
  /\ \A a \in Agents : (Kind[a] = "leaf") <=> (SubAgents[a] = << >>)
  /\ \A a \in Agents \ {Root} : \E p \in Agents : a \in Subs(p) /\ \A q \in Agents : a \in Subs(q) => q = p
  /\ MaxIterations \in Nat /\ MaxEvents \in Nat

VARIABLES
  run,      \* the generator of each agent's current run
  runner,   \* asking, holding an event, or gone
  unheard   \* events of each leaf that the runner was not given
treeVars == <<run, runner, unheard>>

LeafEvent == [by : Leaves, escalate : BOOLEAN]
NoEvent == [by |-> Root, escalate |-> FALSE]
\* off: not started; asked: running; ready: at a yield nobody took; held: at
\* a yield its caller passed on; ended; threw.
Run == [st : {"off", "asked", "ready", "held", "ended", "threw"},
        event : LeafEvent \cup {NoEvent}, count : Nat,
        pos : Nat, iteration : Nat, shouldExit : BOOLEAN, escalated : BOOLEAN,
        tried : SUBSET Agents, target : Agents, firstYielded : BOOLEAN]
Started(a) ==
  [st |-> "asked", event |-> NoEvent, count |-> 0, pos |-> 0, iteration |-> 0,
   shouldExit |-> FALSE, escalated |-> FALSE,
   tried |-> {}, target |-> a, firstYielded |-> FALSE]

TreeTypeOK ==
  /\ run \in [Agents -> Run]
  /\ runner \in {"asking", "holding", "gone", "done"}
  /\ unheard \in [Leaves -> Nat]

TreeInit ==
  /\ run = [a \in Agents |-> IF a = Root THEN Started(a) ELSE [Started(a) EXCEPT !.st = "off"]]
  /\ runner = "asking" /\ unheard = [a \in Leaves |-> 0]

---------------------------------------------------------------------------
(* The leaves                                                              *)

Asked(a) == run[a].st = "asked"

Emit(a) ==
  /\ Asked(a) /\ run[a].count < MaxEvents
  /\ \E escalate \in BOOLEAN :
       run' = [run EXCEPT ![a].st = "ready", ![a].count = @ + 1,
                          ![a].event = [by |-> a, escalate |-> escalate]]
  /\ unheard' = [unheard EXCEPT ![a] = @ + 1]
  /\ UNCHANGED runner
Finish(a) ==
  /\ Asked(a)
  /\ \E how \in {"ended", "threw"} : run' = [run EXCEPT ![a].st = how]
  /\ UNCHANGED <<runner, unheard>>

---------------------------------------------------------------------------
(* What a composite agent does with one sub-agent                          *)

Settles(a, how) == run' = [run EXCEPT ![a].st = how]
\* It passes the event on and is suspended until it is asked again.
PassesOn(a, c) ==
  run' = [run EXCEPT ![c].st = "held", ![a].st = "ready", ![a].event = run[c].event,
                     ![a].escalated = @ \/ run[c].event.escalate]
AsksAgain(c) == [run EXCEPT ![c].st = "asked"]

\* SequentialAgent and LoopAgent: the sub-agent at pos.
Starts(a, p) ==
  LET c == SubAgents[a][p]
  IN  run' = [run EXCEPT ![a].pos = p, ![c] = Started(c)]
Goes(a) ==
  LET p == run[a].pos
      c == SubAgents[a][p]
      st == run[c].st
  IN \/ st = "ready" /\ PassesOn(a, c)
     \/ st = "threw" /\ Settles(a, "threw")

Sequence(a) ==
  LET p == run[a].pos
      c == SubAgents[a][p]
  IN \/ p = 0 /\ Starts(a, 1)
     \/ p > 0 /\ Goes(a)
     \/ p > 0 /\ run[c].st = "held" /\ run' = AsksAgain(c)
     \/ /\ p > 0 /\ run[c].st = "ended"
        /\ IF p < Len(SubAgents[a]) THEN Starts(a, p + 1) ELSE Settles(a, "ended")

\* The flag outlives the event: the sub-agent runs to its end first.
\* Mutant of ShouldExit: only the last event of the sub-agent counts.
LastEventEscalates(a, c) == run[c].event.escalate
ShouldExit(a, c) == run[a].shouldExit \/ run[c].event.escalate
StartsOver(a) ==
  LET c == SubAgents[a][1]
  IN  run' = [run EXCEPT ![a].iteration = @ + 1, ![a].pos = 1, ![c] = Started(c)]
Loop(a) ==
  LET p == run[a].pos
      c == SubAgents[a][p]
      last == p = Len(SubAgents[a])
  IN \/ /\ p = 0
        /\ IF MaxIterations = 0 THEN Settles(a, "ended") ELSE Starts(a, 1)
     \/ p > 0 /\ Goes(a)
     \/ /\ p > 0 /\ run[c].st = "held"
        /\ run' = [AsksAgain(c) EXCEPT ![a].shouldExit = ShouldExit(a, c)]
     \/ /\ p > 0 /\ run[c].st = "ended"
        /\ \/ run[a].shouldExit /\ Settles(a, "ended")
           \/ ~run[a].shouldExit /\ ~last /\ Starts(a, p + 1)
           \/ /\ ~run[a].shouldExit /\ last
              /\ IF run[a].iteration + 1 < MaxIterations
                 THEN StartsOver(a) ELSE Settles(a, "ended")

\* mergeAgentRuns: all branches are asked; one that passed its event on is
\* asked again when the merge is.  Of the branches that have something, the
\* race takes any.
\* Mutant of Taken: the branch is asked again before its event is passed on.
TakenAndAsked(a, c) ==
  run' = [run EXCEPT ![c].st = "asked", ![a].st = "ready", ![a].event = run[c].event]
Taken(a, c) == PassesOn(a, c)
HeldBranches(a) == {c \in Subs(a) : run[c].st = "held"}
\* Mutant of AllEnded: the merge ends with the first branch.
AnyEnded(a) == \E c \in Subs(a) : run[c].st = "ended"
AllEnded(a) == \A c \in Subs(a) : run[c].st = "ended"
Parallel(a) ==
  \/ /\ run[a].pos = 0
     /\ run' = [x \in Agents |-> IF x \in Subs(a) THEN Started(x)
                                 ELSE IF x = a THEN [run[x] EXCEPT !.pos = 1] ELSE run[x]]
  \/ /\ run[a].pos = 1
     /\ \/ \E c \in HeldBranches(a) : run' = AsksAgain(c)
        \/ HeldBranches(a) = {} /\ \E c \in Subs(a) : run[c].st = "ready" /\ Taken(a, c)
        \/ HeldBranches(a) = {} /\ (\E c \in Subs(a) : run[c].st = "threw") /\ Settles(a, "threw")
        \/ AllEnded(a) /\ Settles(a, "ended")

\* runWithRouting: a target that fails before it gave an event is replaced by
\* one that was not tried; the router may give up.
Routes(a, c) ==
  run' = [run EXCEPT ![a].target = c, ![a].tried = @ \cup {c}, ![c] = Started(c)]
GivenUp(a) == run[a].firstYielded \/ Subs(a) \subseteq run[a].tried
Routed(a) ==
  LET c == run[a].target
  IN \/ run[a].tried = {} /\ \E t \in Subs(a) : Routes(a, t)
     \/ /\ run[a].tried # {}
        /\ \/ run[c].st = "ready" /\ PassesOn(a, c)
           \/ /\ run[c].st = "held"
              /\ run' = [AsksAgain(c) EXCEPT ![a].firstYielded = TRUE]
           \/ run[c].st = "ended" /\ Settles(a, "ended")
           \/ run[c].st = "threw" /\ Settles(a, "threw")
           \/ /\ run[c].st = "threw" /\ ~GivenUp(a)
              /\ \E t \in Subs(a) \ run[a].tried : Routes(a, t)

Advance(a) ==
  /\ Asked(a) /\ UNCHANGED <<runner, unheard>>
  /\ \/ Kind[a] = "sequence" /\ Sequence(a)
     \/ Kind[a] = "loop" /\ Loop(a)
     \/ Kind[a] = "parallel" /\ Parallel(a)
     \/ Kind[a] = "routed" /\ Routed(a)

---------------------------------------------------------------------------
(* The runner                                                              *)

Take ==
  /\ runner = "asking" /\ run[Root].st = "ready"
  /\ runner' = "holding"
  /\ unheard' = [unheard EXCEPT ![run[Root].event.by] = @ - 1]
  /\ run' = [run EXCEPT ![Root].st = "held"]
AskForMore ==
  /\ runner = "holding"
  /\ runner' = "asking" /\ run' = AsksAgain(Root)
  /\ UNCHANGED unheard
\* return(): the generators suspended below are closed where they are.
Leave ==
  /\ runner = "holding"
  /\ runner' = "gone"
  /\ UNCHANGED <<run, unheard>>
RootEnds ==
  /\ runner = "asking" /\ run[Root].st \in {"ended", "threw"}
  /\ runner' = "done"
  /\ UNCHANGED <<run, unheard>>

TreeNext ==
  \/ \E a \in Leaves : Emit(a) \/ Finish(a)
  \/ \E a \in Agents \ Leaves : Advance(a)
  \/ Take \/ AskForMore \/ Leave \/ RootEnds

TreeSpec == TreeInit /\ [][TreeNext]_treeVars

---------------------------------------------------------------------------
(* Properties                                                              *)

\* The tree does not start an agent whose abandoned run may still be going on,
\* as a loop does with the parallel target of a routed agent that went on to
\* another target: there is one run for each agent here.
HasParallel(a) == \E d \in Below(a) : Kind[d] = "parallel"
OneRunAtATime ==
  \A l, r \in Agents : Kind[l] = "loop" /\ Kind[r] = "routed" /\ r \in Below(l) => ~HasParallel(r)

\* No agent moves on before the runner is done with its last event, however
\* deep it is and whatever runs beside it.
NoRunAhead ==
  \A a \in Leaves :
    Asked(a) => unheard[a] = 0 /\ ~(runner = "holding" /\ run[Root].event.by = a)

\* When the root has ended, every event a leaf yielded reached the runner,
\* except those of a target that another one took the place of.
Replaced == UNION {run[r].tried \ {run[r].target} : r \in {x \in Agents : Kind[x] = "routed"}}
NothingIsLost ==
  runner = "done" /\ run[Root].st = "ended"
    => \A a \in Leaves : unheard[a] = 0 \/ \E t \in Replaced : a \in Below(t)

\* Once a loop passed on an event that escalates, that run of it starts no
\* other sub-agent and no other iteration, whatever its sub-agent says next.
EscalationLeavesTheLoop ==
  [][\A a \in Agents :
       Kind[a] = "loop" /\ run[a].escalated /\ run'[a].escalated
         => /\ run'[a].pos = run[a].pos
            /\ run'[a].iteration = run[a].iteration]_treeVars

=============================================================================
