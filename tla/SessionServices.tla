--------------------------- MODULE SessionServices ---------------------------
(***************************************************************************)
(* What the session services return of what they store: the window of      *)
(* events of getSession and the page of sessions of listSessions, by the   *)
(* services in memory, on a database and on the Vertex AI API; and which   *)
(* of an event's fields survive being stored as an API event.              *)
(*                                                                         *)
(* For a window an event is its timestamp; sessions are listed in the      *)
(* order they were sorted in.  For the API an event maps the names of the  *)
(* fields it has to values.  An API event has the event whole (`raw', or   *)
(* Nothing) and, beside it, its structured fields: `columns', `actions',   *)
(* `metadata' and `custom'.  `api' is what the API does with a request:    *)
(* "ok", "invalid" (400) or "fails".                                       *)
(***************************************************************************)
EXTENDS Integers, SequencesExt, FiniteSetsExt, Functions, TLC

CONSTANTS Nothing, Throws

\* Marks an option that was not given.
None == -1
LastOf(s, n) == SubSeq(s, Max({0, Len(s) - n}) + 1, Len(s))

---------------------------------------------------------------------------
(* The services in memory and on a database                                *)

\* InMemorySessionService.getSession: the last numRecentEvents events (0 counts
\* as not given), then what follows the last event before afterTimestamp.
WindowInMemory(times, recent, after) ==
  LET kept == IF recent \in {None, 0} THEN times ELSE LastOf(times, recent)
      before == {i \in DOMAIN kept : kept[i] < after}
  IN IF after \in {None, 0} \/ before = {} THEN kept
     ELSE SubSeq(kept, Max(before) + 1, Len(kept))

\* DatabaseSessionService.getSession: the events after afterTimestamp, newest
\* first, up to numRecentEvents, and turned around.
WindowInDatabase(times, recent, after) ==
  LET later == IF after \in {None, 0} THEN times
               ELSE SelectSeq(times, LAMBDA t : t > after)
      newest == SortSeq(later, LAMBDA a, b : a > b)
  IN Reverse(IF recent = None THEN newest ELSE SubSeq(newest, 1, Min({recent, Len(newest)})))

\* listSessions with a limit: the page of a list of n sessions, as the range of
\* the sessions it holds.
PageOffset(limit, offset, page) ==
  IF page # None THEN (page - 1) * limit ELSE IF offset = None THEN 0 ELSE offset
PageRange(n, limit, offset, page) ==
  LET from == PageOffset(limit, offset, page)
  IN {i \in 1..n : from < i /\ i <= from + limit}
PageNumber(limit, offset, page) ==
  IF page # None THEN page
  ELSE IF limit = 0 THEN 1 ELSE (PageOffset(limit, offset, page) \div limit) + 1
TotalPages(n, limit) == IF limit = 0 THEN 0 ELSE (n + limit - 1) \div limit

---------------------------------------------------------------------------
(* The service on the Vertex AI API: events                                *)

Take(f, names) == Restrict(f, DOMAIN f \cap names)
\* `whole', with what `parts' says in its place where it says something.
Over(whole, parts) == parts @@ whole

Columns == {"author", "invocationId", "timestamp", "content", "errorCode", "errorMessage"}
Metadata == {"partial", "turnComplete", "interrupted", "branch", "longRunningToolIds",
             "groundingMetadata"}
\* Kept among the user's custom metadata, under names of their own.
Compaction == {"startTime", "endTime", "compactedContent"}
Workflow == {"output", "route", "nodeInfo", "isolationScope", "agentState", "endOfAgent"}
Reserved == Compaction \cup {"usageMetadata"} \cup Workflow
Actions == {"stateDelta", "artifactDelta", "requestedAuthConfigs", "requestedToolConfirmations",
            "skipSummarization", "transferToAgent", "escalate"}
\* A part field the API does not take, in what is sent either way.
DropUnsupportedPartFields(e) == Restrict(e, DOMAIN e \ {"partMetadata"})

\* The API knows the agent to transfer to by another name.
ToApiActions(e) ==
  LET own == Take(e, Actions \ {"transferToAgent"})
  IN IF "transferToAgent" \in DOMAIN e
     THEN ("transferAgent" :> e["transferToAgent"]) @@ own ELSE own

ToApiEvent(e) ==
  [raw |-> DropUnsupportedPartFields(e), columns |-> Take(e, Columns),
   actions |-> ToApiActions(e), metadata |-> Take(e, Metadata),
   custom |-> Take(e, Reserved \cup {"customMetadata"})]

FromApiActions(actions) ==
  LET own == Take(actions, Actions)
  IN IF "transferAgent" \in DOMAIN actions
     THEN ("transferToAgent" :> actions["transferAgent"]) @@ own ELSE own

\* What the API says of an event goes before what the event said of itself.
FromApiEvent(a) ==
  IF a.raw # Nothing
  THEN Over(a.raw, Take(a.columns, {"author", "invocationId", "timestamp"}))
  ELSE a.columns @@ a.metadata @@ a.custom @@ FromApiActions(a.actions)

\* A request that is refused is made once more without the whole event; the
\* caller's session has the event already, whatever becomes of the request.
AppendEvent(stored, e, api, again) ==
  LET sent == ToApiEvent(e)
  IN CASE api = "ok" -> Append(stored, sent)
       [] api = "invalid" /\ again = "ok" -> Append(stored, [sent EXCEPT !.raw = Nothing])
       [] OTHER -> Throws

---------------------------------------------------------------------------
(* The service on the Vertex AI API: sessions                              *)

\* The creation of a session is a task, which is looked at up to `attempts'
\* times; `takes' is the look at which it is done.
CreateSession(takes, attempts) == IF takes <= attempts THEN "session" ELSE Throws

\* The events from afterTimestamp on, and of them the last numRecentEvents; no
\* event is asked for when none is wanted.
Window(times, recent, after) ==
  LET later == IF after \in {None, 0} THEN times
               ELSE SelectSeq(times, LAMBDA t : t >= after)
  IN CASE recent = 0 -> << >>
       [] recent = None -> later
       [] OTHER -> LastOf(later, recent)

\* `owners' maps the ids of the stored sessions to their users.
GetSession(owners, user, id) ==
  CASE id \notin DOMAIN owners -> Nothing
    [] id \in DOMAIN owners /\ owners[id] # user -> Throws
    [] OTHER -> id

\* A session that is not there is deleted already; one of another user is not.
DeleteSession(owners, user, id) ==
  CASE GetSession(owners, user, id) = Throws -> Throws
    [] GetSession(owners, user, id) = Nothing -> owners
    [] OTHER -> Restrict(owners, DOMAIN owners \ {id})

\* The pages the API returns are put together before they are sorted and cut;
\* a session is [id, at].
ListSessions(apiPages, order, limit, offset, page) ==
  LET all == FlattenSeq(apiPages)
      sorted == CASE order = "asc" -> SortSeq(all, LAMBDA a, b : a.at < b.at
                                                     \/ (a.at = b.at /\ a.id < b.id))
                  [] order = "desc" -> SortSeq(all, LAMBDA a, b : a.at > b.at
                                                      \/ (a.at = b.at /\ a.id < b.id))
                  [] OTHER -> all
      given == IF offset = None THEN 0 ELSE offset
      from == IF limit # None /\ page # None THEN (page - 1) * limit ELSE given
      to == IF limit = None THEN Len(all) ELSE Min({from + limit, Len(all)})
  IN SubSeq(sorted, from + 1, to)
=============================================================================
