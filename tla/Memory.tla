------------------------------- MODULE Memory -------------------------------
(***************************************************************************)
(* What the memory services keep of a session and give back of it: the     *)
(* in-memory one, the one over a retrieval corpus, and the memory bank.    *)
(*                                                                         *)
(* An event is [at, author, parts], a part [kind, words]: a "text" with    *)
(* its words (none if it is blank), a "media" or a "call".                 *)
(***************************************************************************)
EXTENDS Naturals, FiniteSets, SequencesExt, TLC

CONSTANTS LowerCase(_), Throws, Nothing

TextsOf(event) == SelectSeq(event.parts, LAMBDA p : p.kind = "text" /\ p.words # << >>)
WordsOf(event) == FlattenSeq([i \in DOMAIN TextsOf(event) |-> TextsOf(event)[i].words])
Remembered(event) == [author |-> event.author, at |-> event.at, words |-> WordsOf(event)]

---------------------------------------------------------------------------
(* In memory: a sequence of [key, session, events], and a search by words. *)

UserKey(app, user) == app \o "/" \o user

\* A session added again takes the place of what it was.
AddSession(memory, s) ==
  LET entry == [key |-> UserKey(s.app, s.user), session |-> s.id,
                events |-> SelectSeq(s.events, LAMBDA e : e.parts # << >>)]
      same == {i \in DOMAIN memory : memory[i].key = entry.key /\ memory[i].session = s.id}
  IN  IF same = {} THEN Append(memory, entry)
      ELSE [i \in DOMAIN memory |-> IF i \in same THEN entry ELSE memory[i]]

\* Any word of the query, as it stands between blanks.
Matches(event, query) ==
  {LowerCase(w) : w \in query} \cap {LowerCase(w) : w \in Range(WordsOf(event))} # {}
Search(memory, app, user, query) ==
  LET own == SelectSeq(memory, LAMBDA m : m.key = UserKey(app, user))
      all == FlattenSeq([i \in DOMAIN own |-> own[i].events])
      hits == SelectSeq(all, LAMBDA e : Matches(e, query))
  IN  [i \in DOMAIN hits |-> Remembered(hits[i])]

---------------------------------------------------------------------------
(* Over a corpus of files, one more for each time a session is added.  A   *)
(* name is a sequence of characters; "p" stands for the prefix of the      *)
(* names this service gives.                                               *)

EncodeSegment(s) == [i \in DOMAIN s |-> IF s[i] = "." THEN "_" ELSE s[i]]
\* Base64 that no text encodes to, or of nothing, is no segment.
DecodeSegment(s) ==
  IF s = << >> \/ \E i \in DOMAIN s : s[i] = "=" THEN Nothing
  ELSE [i \in DOMAIN s |-> IF s[i] = "_" THEN "." ELSE s[i]]

JoinDots(parts) ==
  FlattenSeq([i \in DOMAIN parts |-> IF i = 1 THEN parts[i] ELSE <<".">> \o parts[i]])
SplitDots(s) ==
  FoldLeft(LAMBDA acc, c : IF c = "." THEN Append(acc, << >>)
                           ELSE [acc EXCEPT ![Len(acc)] = Append(@, c)],
           << << >> >>, s)

BuildSourceDisplayName(id) == <<"p">> \o JoinDots([i \in 1..3 |-> EncodeSegment(id[i])])

\* A name without the prefix is an earlier version's, its parts as they are.
ParseSourceDisplayName(name) ==
  LET prefixed == name # << >> /\ name[1] = "p"
      parts == SplitDots(IF prefixed THEN Tail(name) ELSE name)
      decoded == [i \in DOMAIN parts |-> IF prefixed THEN DecodeSegment(parts[i]) ELSE parts[i]]
  IN  IF Len(parts) # 3 \/ Nothing \in Range(decoded) THEN Nothing ELSE decoded

\* One line for each event with text; a file may come back cut anywhere.
SerializeTranscript(s) ==
  LET told == SelectSeq(s.events, LAMBDA e : TextsOf(e) # << >>)
  IN  [i \in DOMAIN told |-> Remembered(told[i])]
ParseTranscript(lines) == SelectSeq(lines, LAMBDA x : x # Nothing)    \* Nothing: no whole line

AddSessionFile(corpus, s) ==
  Append(corpus, [id |-> Len(corpus) + 1, name |-> BuildSourceDisplayName(<<s.app, s.user, s.id>>),
                  lines |-> SerializeTranscript(s)])

TenantSource(name, app, user) ==
  LET id == ParseSourceDisplayName(name)
  IN  IF id = Nothing \/ name = << >> THEN Nothing
      ELSE IF id[1] = app /\ id[2] = user THEN id ELSE Nothing

\* The user's files, unless listing fails or takes more than `pages' pages; then
\* the search is not limited to them.
ListTenantFiles(corpus, app, user, pageSize, pages, fails) ==
  IF fails \/ Len(corpus) > pageSize * pages THEN Nothing
  ELSE {corpus[i].id : i \in {k \in DOMAIN corpus : TenantSource(corpus[k].name, app, user) # Nothing}}

\* The contexts retrieved, [name, lines], in any order: of each session its
\* events in theirs, the first of those that share a timestamp.
ToMemoryEntries(contexts, app, user) ==
  LET Add(acc, context) ==
        LET id == TenantSource(context.name, app, user)
            had == {i \in DOMAIN acc : acc[i].session = id[3]}
            told == ParseTranscript(context.lines)
            Put(events, e) == IF \E k \in DOMAIN events : events[k].at = e.at THEN events
                              ELSE Append(events, e)
        IN  IF id = Nothing THEN acc
            ELSE IF had = {} THEN Append(acc, [session |-> id[3], events |-> FoldLeft(Put, << >>, told)])
            ELSE [i \in DOMAIN acc |->
                    IF i \in had THEN [acc[i] EXCEPT !.events = FoldLeft(Put, @, told)] ELSE acc[i]]
      sessions == FoldLeft(Add, << >>, contexts)
  IN  FlattenSeq([i \in DOMAIN sessions |->
        SortSeq(sessions[i].events, LAMBDA e, f : e.at < f.at)])

\* `contexts' is what the service answers for these files.
SearchFiles(files, contexts, app, user) ==
  IF files = {} THEN << >> ELSE ToMemoryEntries(contexts, app, user)

---------------------------------------------------------------------------
(* The bank.  What is added becomes facts, by requests that may fail.      *)

Holds(event) == \E i \in DOMAIN event.parts :
                  event.parts[i].kind # "text" \/ event.parts[i].words # << >>
EventsToGenerate(events) == SelectSeq(events, Holds)

MemoryEntryToFact(memory) ==
  IF (\E i \in DOMAIN memory.parts : memory.parts[i].kind = "media") \/ TextsOf(memory) = << >>
  THEN Throws ELSE WordsOf(memory)

BatchSize == 5
IterMemoryBatches(facts) ==
  [b \in 1..((Len(facts) + BatchSize - 1) \div BatchSize) |->
     SubSeq(facts, (b - 1) * BatchSize + 1, IF b * BatchSize < Len(facts) THEN b * BatchSize ELSE Len(facts))]

\* [sent, throws]: one request for each memory as it is read; `up' is how many
\* requests the service takes.
AddViaCreate(memories, up) ==
  FoldLeft(LAMBDA acc, m :
             IF acc.throws THEN acc
             ELSE IF MemoryEntryToFact(m) = Throws \/ Len(acc.sent) = up THEN [acc EXCEPT !.throws = TRUE]
             ELSE [acc EXCEPT !.sent = Append(@, <<MemoryEntryToFact(m)>>)],
           [sent |-> << >>, throws |-> memories = << >>], memories)

\* With consolidation all are read before the first request.
AddViaGenerate(memories, up) ==
  LET facts == [i \in DOMAIN memories |-> MemoryEntryToFact(memories[i])]
      batches == IterMemoryBatches(facts)
  IN  IF memories = << >> \/ \E i \in DOMAIN facts : facts[i] = Throws
      THEN [sent |-> << >>, throws |-> TRUE]
      ELSE [sent |-> SubSeq(batches, 1, IF up < Len(batches) THEN up ELSE Len(batches)),
            throws |-> up < Len(batches)]

AddMemory(memories, consolidate, up) ==
  CASE consolidate \in {"absent", "false"} -> AddViaCreate(memories, up)
    [] consolidate = "true" -> AddViaGenerate(memories, up)
    [] OTHER -> [sent |-> << >>, throws |-> TRUE]

---------------------------------------------------------------------------
(* The configuration of a request out of an application's metadata: a      *)
(* function from keys to kinds of values.                                  *)

CreateKnown == {"ttl", "expireTime", "topics", "waitForCompletion", "revisionTtl"}
GenerateKnown == {"allowedTopics", "waitForCompletion", "revisionTtl", "revisionLabels"}
Consolidation == "enable_consolidation"

ToVertexValue(kind) ==
  CASE kind \in {"bool", "number", "date", "vertex"} -> kind
    [] kind = "null" -> Nothing
    [] OTHER -> "string"
VertexMetadata(custom, keys) ==
  LET kept == {k \in keys : ToVertexValue(custom[k]) # Nothing}
  IN  [k \in kept |-> ToVertexValue(custom[k])]

\* What no known field takes is metadata, with what `metadata' itself holds
\* (left out here).
WithMetadata(custom, known) ==
  LET loose == {k \in DOMAIN custom : k \notin known \cup {Consolidation, "ttl", "revisionLabels"}}
  IN  VertexMetadata(custom, loose)
Fields(custom, known) ==
  LET taken == {k \in DOMAIN custom \cap known : custom[k] # "null"}
  IN  [k \in taken |-> custom[k]] @@ ("waitForCompletion" :> "default")

\* Labels are strings; the memory's own author and time go over them.
CreateConfig(custom, labels, own) ==
  [fields |-> Fields(custom, CreateKnown),
   metadata |-> WithMetadata(custom, CreateKnown),
   labels |-> own @@ [l \in {x \in DOMAIN labels : labels[x] = "string"} |-> "string"]]

GenerateConfig(custom) ==
  LET ttl == "ttl" \in DOMAIN custom /\ custom["ttl"] # "null" /\ "revisionTtl" \notin DOMAIN custom
  IN  [fields |-> (IF ttl THEN "revisionTtl" :> custom["ttl"] ELSE [x \in {} |-> ""])
                    @@ Fields(custom, GenerateKnown),
       metadata |-> WithMetadata(custom, GenerateKnown)]

\* What is sent with a memory: its own metadata goes over the request's.
MergeMetadata(custom, own) == own @@ custom
=============================================================================
