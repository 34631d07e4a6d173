------------------------------ MODULE Callbacks ------------------------------
(***************************************************************************)
(* Who answers when plugins and an agent's own callbacks are asked around  *)
(* a tool call and a model call, and the two plugins that answer failures  *)
(* with a request to try again, up to a limit.                             *)
(*                                                                         *)
(* What a callback does is None (nothing), Throws or the answer it gives.  *)
(***************************************************************************)
EXTENDS Naturals, Sequences, FiniteSetsExt

CONSTANTS None, Throws

---------------------------------------------------------------------------
(* Chains of callbacks                                                     *)

\* The first that does something ends the chain.
RunCallbacks(chain) ==
  LET acts == {i \in DOMAIN chain : chain[i] # None}
  IN IF acts = {} THEN None ELSE chain[Min(acts)]

\* Plugins are asked before the agent's callbacks, which are asked only when
\* no plugin answered.
PluginsThenAgent(plugins, own) == RunCallbacks(<<RunCallbacks(plugins)>> \o own)

---------------------------------------------------------------------------
(* One tool call                                                           *)

\* h: what each chain does; tool: what the tool returns, or Throws.
BeforeTool(h) == PluginsThenAgent(h.before, h.ownBefore)
ToolRuns(h) == BeforeTool(h) = None
ToolFails(h, tool) == ToolRuns(h) /\ tool = Throws

\* What the after callbacks are handed.
ToolResult(h, tool) ==
  IF ~ToolRuns(h) THEN BeforeTool(h)
  ELSE IF ToolFails(h, tool) THEN RunCallbacks(h.onError)
  ELSE tool

\* An exception of a callback is the batch's; an error message the tool left
\* and no plugin handled is the answer whatever the after callbacks say.
ToolAnswer(h, tool, error) ==
  LET given == ToolResult(h, tool)
      after == PluginsThenAgent(h.after, h.ownAfter)
  IN IF Throws \in {given, after} THEN Throws
     ELSE IF given = None /\ ToolFails(h, tool) THEN error
     ELSE IF after # None THEN after
     ELSE given

\* A call whose tool cannot be found: only the error callbacks are asked.
AnswerUnresolvableCall(h, error) ==
  LET given == RunCallbacks(h.onError) IN IF given = None THEN error ELSE given

---------------------------------------------------------------------------
(* One model call                                                          *)

\* Each response of the model passes the after callbacks by itself; what
\* throws ends the call, and is answered by the error callbacks or reported.
Altered(h, response) ==
  LET after == PluginsThenAgent(h.after, h.ownAfter)
  IN IF response = Throws \/ after = None THEN response ELSE after

HandleError(h, response, error) ==
  IF response # Throws THEN response
  ELSE IF RunCallbacks(h.onError) = None THEN error ELSE RunCallbacks(h.onError)

\* What the caller of the model is handed, for the model's `stream'.
CallLlm(h, stream, error) ==
  LET before == PluginsThenAgent(h.before, h.ownBefore)
      given == IF before # None THEN <<before>>
               ELSE [i \in DOMAIN stream |-> Altered(h, stream[i])]
      breaks == {i \in DOMAIN given : given[i] = Throws}
      ended == IF breaks = {} THEN given ELSE SubSeq(given, 1, Min(breaks))
  IN [i \in DOMAIN ended |-> HandleError(h, ended[i], error)]

---------------------------------------------------------------------------
(* Trying again.  `failures' counts, per scope and item, what failed since *)
(* it last succeeded; reading and writing it is one step.                  *)

\* The plugin counts per invocation, or for all of them together.
ScopeKey(p, invocation, item) ==
  <<IF p.perInvocation THEN invocation ELSE "__global__", item>>
Increment(failures, k) == [failures EXCEPT ![k] = @ + 1]
ResetCount(failures, k) == [failures EXCEPT ![k] = 0]

\* A step returns the counters and the answer: None, "again", "exceeded" or
\* Throws.
Gave(failures, answer) == [failures |-> failures, answer |-> answer]

\* p: maxRetries and throwExceptionIfRetryExceeded.
HandleToolError(p, failures, k) ==
  LET counted == Increment(failures, k)
      over == IF p.throws THEN Throws ELSE "exceeded"
  IN IF p.maxRetries = 0 THEN Gave(failures, over)
     ELSE IF counted[k] <= p.maxRetries THEN Gave(counted, "again")
     ELSE Gave(counted, over)

\* The plugin's own guidance comes back as the result of the failed call.
AfterToolCallback(failures, k, result) ==
  IF result \in {"again", "exceeded"} THEN Gave(failures, None)
  ELSE Gave(ResetCount(failures, k), None)

\* One call of tool k: its error is answered, and the answer passes the after
\* callback like any result.
RetriedTool(p, failures, k, fails) ==
  LET handled == HandleToolError(p, failures, k)
  IN CASE ~fails -> AfterToolCallback(failures, k, "result")
       [] fails /\ handled.answer = Throws -> handled
       [] OTHER -> Gave(AfterToolCallback(handled.failures, k, handled.answer).failures,
                        handled.answer)

HandleModelRetry(p, failures, k, fallback) ==
  LET counted == Increment(failures, k)
  IN IF counted[k] <= p.maxRetries THEN Gave(counted, "again")
     ELSE Gave(counted, IF p.throws THEN Throws ELSE fallback)

\* response: "malformed" (a finishReason that is retried), "reserved" (a call
\* of the plugin's own tool) or anything else, a streamed part included.
AfterModelCallback(p, failures, k, response) ==
  CASE response = "reserved" -> HandleModelRetry(p, failures, k, "exceeded")
    [] response = "malformed" -> HandleModelRetry(p, failures, k, response)
    [] OTHER -> Gave(ResetCount(failures, k), None)
=============================================================================
