------------------------- MODULE MCDatabaseSessions -------------------------
(* DatabaseSessions with two processes, and what the services return of a  *)
(* session, an artifact and a memory: SessionServices, Artifacts and Memory. *)
EXTENDS DatabaseSessions, TLC

CONSTANTS Absent, Refused

V == INSTANCE SessionServices WITH Nothing <- Absent, Throws <- Refused

Symmetry == Permutations(Copies)

Times == UNION {[1..n -> 1..4] : n \in 0..4}
Sorted(s) == \A i, j \in DOMAIN s : i < j => s[i] < s[j]

\* Of events in order both services return the same window, unless an event
\* bears the very timestamp asked for: one service counts it, the other not.
ASSUME WindowsAgree ==
  \A s \in {t \in Times : Sorted(t)}, recent \in {-1} \cup 1..5, after \in -1..5 :
    (\A i \in DOMAIN s : s[i] # after)
      => V!WindowInMemory(s, recent, after) = V!WindowInDatabase(s, recent, after)

\* Whatever the order of the timestamps, the database returns a window in
\* their order that holds no more events than asked for, all of them later.
ASSUME WindowIsRecent ==
  \A s \in Times, recent \in 1..3, after \in 1..4 :
    LET w == V!WindowInDatabase(s, recent, after)
    IN /\ Len(w) <= recent
       /\ \A i \in DOMAIN w : w[i] > after /\ (i > 1 => w[i - 1] <= w[i])

\* The pages of a list are disjoint, complete, and numbered as they are asked for.
ASSUME PagesPartition ==
  \A n \in 0..7, limit \in 1..4 :
    LET pages == 1..V!TotalPages(n, limit)
        Of(p) == V!PageRange(n, limit, -1, p)
    IN /\ UNION {Of(p) : p \in pages} = 1..n
       /\ \A p, q \in pages : p # q => Of(p) \cap Of(q) = {}
       /\ \A p \in pages :
            /\ Of(p) # {}
            /\ V!PageRange(n, limit, (p - 1) * limit, -1) = Of(p)
            /\ V!PageNumber(limit, (p - 1) * limit, -1) = p
---------------------------------------------------------------------------
A == INSTANCE Artifacts WITH Failed <- -1, Latest <- -2, Nothing <- "nothing", UserScope <- "user"

Named(user) == [user |-> user, file |-> "f"]
Paths == {A!Path(s, Named(u)) : s \in {"s", "t"}, u \in BOOLEAN}
Saves == Paths \X {"p", "q", "empty"}
Operations == Saves \cup (Paths \X {"delete"})
Empty == [mem |-> << >>, file |-> << >>, gcs |-> << >>, agree |-> TRUE]

\* One operation on each of the services.
Apply(w, op) ==
  LET m == A!MemorySave(w.mem, op[1], op[2])
      f == A!FileSave(w.file, op[1], op[2])
      g == A!GcsSave(w.gcs, op[1], op[2])
  IN IF op[2] = "delete"
     THEN [w EXCEPT !.mem = A!MemoryDelete(@, op[1]), !.file = A!Delete(@, op[1]),
                    !.gcs = A!Delete(@, op[1])]
     ELSE [mem |-> m.store, file |-> f.store, gcs |-> g.store,
           agree |-> w.agree /\ m.version = f.version /\ f.version = g.version]

\* Whatever is saved and deleted in two sessions and the user namespace, one
\* operation after another and with content in every file, the services return
\* the same versions, list the same names and load the same parts.
ASSUME ArtifactServicesAgree ==
  \A ops \in UNION {[1..n -> Operations] : n \in 1..3} :
    LET w == FoldLeft(Apply, Empty, ops)
    IN /\ w.agree
       /\ \A s \in {"s", "t"} : /\ A!Keys(w.mem, s) = A!Keys(w.file, s)
                                /\ A!Keys(w.mem, s) = A!Keys(w.gcs, s)
       /\ \A path \in Paths :
            /\ A!MemoryVersions(w.mem, path) = A!VersionsOf(w.file, path)
            /\ A!MemoryVersions(w.mem, path) = A!VersionsOf(w.gcs, path)
            /\ \A v \in {-2} \cup 0..3 :
                 /\ A!MemoryLoad(w.mem, path, v) = A!FileLoad(w.file, path, v)
                 /\ A!MemoryLoad(w.mem, path, v) = A!GcsLoad(w.gcs, path, v)

\* Saves that stop half way lose no version that was returned: it still loads
\* by its number, and no later save is given it again.
ASSUME TornSavesLoseNothing ==
  \A ops \in UNION {[1..n -> {"p", "q", "noUri", "stops"}] : n \in 1..5} :
    LET path == A!Path("s", Named(FALSE))
        Go(w, op) == LET r == IF op = "stops" THEN A!Result(A!FileBegin(w.store, path), -1)
                              ELSE A!FileSave(w.store, path, op)
                     IN [store |-> r.store, gave |-> Append(w.gave, <<r.version, op>>)]
        end == FoldLeft(Go, [store |-> << >>, gave |-> << >>], ops)
        kept == {i \in DOMAIN ops : end.gave[i][1] # -1}
    IN /\ \A i \in kept : A!FileLoad(end.store, path, end.gave[i][1]) = ops[i]
       /\ \A i, j \in kept : i # j => end.gave[i][1] # end.gave[j][1]
---------------------------------------------------------------------------
\* An event with the fields the others leave open: a part's metadata, and one
\* that has no place among the structured fields.
Fields == V!Columns \cup V!Metadata \cup V!Reserved \cup V!Actions
          \cup {"customMetadata", "partMetadata", "finishReason"}
Events == {[f \in S |-> f] : S \in {{a, b} : a, b \in Fields}}
          \cup {[f \in Fields |-> f]}

\* An event that is read back is the event that was written, but for what the
\* API has no field for; the fields the workflow engine resumes from survive
\* in either form.
ASSUME EventsSurviveTheirStore ==
  \A e \in Events : \A again \in {"ok", "invalid"} :
    LET whole == V!AppendEvent(<< >>, e, "ok", again)
        parts == V!AppendEvent(<< >>, e, "invalid", again)
        Kept(s) == V!FromApiEvent(s[1])
    IN /\ Kept(whole) = Restrict(e, DOMAIN e \ {"partMetadata"})
       /\ again = "ok" =>
            Kept(parts) = Restrict(e, DOMAIN e \ {"partMetadata", "finishReason"})
       /\ again # "ok" => parts = Refused

\* Of events in order the service returns the window the other services
\* return, unless an event bears the very timestamp asked for.
ASSUME RemoteWindowsAgree ==
  \A s \in {t \in Times : Sorted(t)}, recent \in {-1} \cup 1..5, after \in -1..5 :
    (\A i \in DOMAIN s : s[i] # after)
      => V!Window(s, recent, after) = V!WindowInDatabase(s, recent, after)

Listed == [id : 1..3, at : 1..2]
Lists == {s \in UNION {[1..n -> Listed] : n \in 0..3} :
            \A i, j \in DOMAIN s : i # j => s[i].id # s[j].id}
\* However the API cuts its list, the pages of a sorted list put together are
\* the list, each session once and in order.
ASSUME RemotePagesPartition ==
  \A s \in Lists : \A cut \in 0..Len(s) : \A limit \in 1..3 : \A order \in {"asc", "desc"} :
    LET api == <<SubSeq(s, 1, cut), SubSeq(s, cut + 1, Len(s))>>
        Page(p) == V!ListSessions(api, order, limit, -1, p)
        all == FlattenSeq([p \in 1..V!TotalPages(Len(s), limit) |-> Page(p)])
    IN /\ all = V!ListSessions(api, order, -1, -1, -1)
       /\ Range(all) = Range(s) /\ Len(all) = Len(s)
       /\ \A i \in 1..(Len(all) - 1) :
            IF order = "asc" THEN all[i].at <= all[i + 1].at ELSE all[i].at >= all[i + 1].at

---------------------------------------------------------------------------
LowerOf(w) == IF w = "Cat" THEN "cat" ELSE w
Mem == INSTANCE Memory WITH LowerCase <- LowerOf, Throws <- Refused, Nothing <- Absent

Words(w) == << [kind |-> "text", words |-> w] >>
Told(at, parts) == [at |-> at, author |-> "x", parts |-> parts]
Talk == << Told(2, Words(<<"Cat", "sat">>)), Told(3, Words(<< >>)), Told(1, Words(<<"dog">>)),
           Told(4, << [kind |-> "call", words |-> << >>] >>) >>
Saved(user, id, n) == [app |-> <<"a">>, user |-> user, id |-> id, events |-> SubSeq(Talk, 1, n)]
Additions == {Saved(user, id, n) : user \in {<<"u">>, <<"v">>}, id \in {<<"s">>, <<"t">>}, n \in {1, 2, 4}}
\* What was last added of each session of a user.
Latest(added, user) ==
  {added[i] : i \in {k \in DOMAIN added : added[k].user = user /\
                       \A m \in DOMAIN added : m > k => added[m].user # user \/ added[m].id # added[k].id}}
WithWord(added, user, w) ==
  {[author |-> "x", at |-> e.at, words |-> Mem!WordsOf(e)] :
     e \in {x \in UNION {Range(s.events) : s \in Latest(added, user)} : w \in Range(Mem!WordsOf(x))}}

\* However often the sessions of two users were added, a search in memory finds
\* each event of the last version with the word once, and the user's own only.
ASSUME MemoryHoldsTheLatest ==
  \A n \in 0..3 : \A added \in [1..n -> Additions] : \A user \in {<<"u">>, <<"v">>} :
    LET Add(m, s) == Mem!AddSession(m, [s EXCEPT !.app = @[1], !.user = @[1], !.id = @[1]])
        found == Mem!Search(FoldLeft(Add, << >>, added), "a", user[1], {"cat", "dog?"})
    IN /\ Range(found) = WithWord(added, user, "Cat")
       /\ Len(found) = Cardinality(Latest(added, user))

Chunk(file, cut) == [name |-> file.name,
                     lines |-> [i \in DOMAIN file.lines |-> IF i = cut THEN Absent ELSE file.lines[i]]]
\* Though every addition leaves one more file and a file may come back in part,
\* a search of the corpus gives a user's own events only, each once, those of a
\* session in their order; of whole files, all that were ever added, and it does
\* so whether or not the files could be listed.
ASSUME CorpusRemembersOnce ==
  \A n \in 1..3 : \A added \in [1..n -> Additions] : \A user \in {<<"u">>, <<"v">>} :
  \A fails \in BOOLEAN : \A cut \in 0..2 : \A back \in BOOLEAN :
    LET corpus == FoldLeft(Mem!AddSessionFile, << >>, added)
        Retrieve(fs) ==
          LET order == IF back THEN Reverse(corpus) ELSE corpus
              own == SelectSeq(order, LAMBDA f : fs = Absent \/ f.id \in fs)
          IN  [i \in DOMAIN own |-> Chunk(own[i], cut)]
        files == Mem!ListTenantFiles(corpus, <<"a">>, user, 2, 1, fails)
        found == Mem!SearchFiles(files, Retrieve(files), <<"a">>, user)
        sessions == {added[i].id : i \in {k \in 1..n : added[k].user = user}}
        long == {added[i].id : i \in {k \in 1..n : added[k].user = user /\ Len(added[k].events) = 4}}
    IN /\ \A e \in Range(found) : Cardinality({i \in DOMAIN found : found[i] = e}) <= Cardinality(sessions)
       /\ Range(found) \subseteq {Mem!Remembered(Talk[1]), Mem!Remembered(Talk[3])}
       /\ cut = 0 => Len(found) = Cardinality(sessions) + Cardinality(long)
       /\ Cardinality(sessions) = 1 => \A i \in 1..(Len(found) - 1) : found[i].at < found[i + 1].at

Texts(n) == UNION {[1..k -> {"a", "."}] : k \in 1..n}
\* The name of a file says whose it is, dots in the ids or not; one of an
\* earlier version says so or says nothing.
ASSUME NamesTellTheirOwners ==
  \A a, u, s \in Texts(2) :
    LET id == <<a, u, s>>
    IN /\ Mem!ParseSourceDisplayName(Mem!BuildSourceDisplayName(id)) = id
       /\ Mem!ParseSourceDisplayName(Mem!JoinDots(id)) \in {id, Absent}
       /\ Mem!ParseSourceDisplayName(<<"p">> \o Mem!JoinDots(<<a, <<"=">>, s>>)) = Absent

Kept(w) == [parts |-> Words(w)]
Bad == {[parts |-> << [kind |-> "media", words |-> << >>] >>], Kept(<< >>)}
\* Facts are sent in order and each once, by consolidation in requests of at
\* most five and not before all of them were read; a memory that cannot be read
\* keeps back those after it at least.
ASSUME FactsAreSentInOrder ==
  \A n \in 1..7 : \A memories \in [1..n -> Bad \cup {Kept(<<"x">>)}] : \A up \in {0, 1, 7} :
  \A how \in {"absent", "true"} :
    LET texts == [i \in 1..n |-> IF memories[i] \in Bad THEN memories[i] ELSE Kept(<<ToString(i)>>)]
        made == Mem!AddMemory(texts, how, up)
        facts == FlattenSeq(made.sent)
        bad == {i \in 1..n : memories[i] \in Bad}
        reach == IF bad = {} THEN n ELSE Min(bad) - 1
    IN /\ facts = [i \in 1..Len(facts) |-> <<ToString(i)>>] /\ Len(facts) <= reach
       /\ \A b \in DOMAIN made.sent : Len(made.sent[b]) \in 1..(IF how = "true" THEN 5 ELSE 1)
       /\ made.throws <=> Len(facts) < n
       /\ how = "true" /\ bad # {} => facts = << >>
       /\ up = 7 => Len(facts) \in {0, reach}

MetaKeys == {"ttl", "revisionTtl", "expireTime", "allowedTopics", "note", "enable_consolidation"}
\* Each value an application gives with a memory is sent in one place, as a
\* field or as metadata, and none that is null is sent; what a memory brings
\* itself is sent in place of what the call says of all of them.
ASSUME MetadataIsSentOnce ==
  \A keys \in SUBSET MetaKeys : \A custom \in [keys -> {"null", "string", "object"}] :
    LET create == Mem!CreateConfig(custom, [x \in {} |-> ""], [x \in {} |-> ""])
        with == Mem!CreateConfig(Mem!MergeMetadata(custom, "note" :> "number"),
                                 [x \in {} |-> ""], [x \in {} |-> ""])
        generate == Mem!GenerateConfig(custom)
        Sent(c, k) == k \in DOMAIN c.fields \/ k \in DOMAIN c.metadata
        Once(c, k) == ~(k \in DOMAIN c.fields /\ k \in DOMAIN c.metadata)
    IN
    /\ with = [create EXCEPT !.metadata = ("note" :> "number") @@ @]
    /\ \A k \in keys \ {"enable_consolidation"} :
         /\ Once(create, k) /\ Once(generate, k) /\ "ttl" \notin DOMAIN generate.metadata
         /\ Sent(create, k) <=> custom[k] # "null"
         /\ k \notin {"ttl", "revisionTtl"} => (Sent(generate, k) <=> custom[k] # "null")
         /\ k = "ttl" /\ custom[k] # "null" /\ "revisionTtl" \notin keys => generate.fields["revisionTtl"] = custom[k]
         /\ k = "revisionTtl" /\ custom[k] # "null" => generate.fields[k] = custom[k]
=============================================================================
