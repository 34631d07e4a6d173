----------------------------- MODULE DevServer -----------------------------
(***************************************************************************)
(* The developer server that runs the agents of a directory while their    *)
(* files are being edited: the loader's pass over the files, shared by the *)
(* requests that overlap it, the watcher that drops what was loaded when a *)
(* file changes, and the runner the server keeps for each app.             *)
(*                                                                         *)
(* A file's content is its version, which grows with each edit; what of it *)
(* can be loaded is a constant.  The compiled files that a pass leaves     *)
(* behind are left out, and so is the run itself: a request is served when *)
(* its run starts.                                                         *)
(***************************************************************************)
EXTENDS Integers, FiniteSets

CONSTANTS Apps, Requests, MaxEdits,
          Broken, \* the <<app, version>> whose module throws when imported
          Empty   \* the <<app, version>> that export no agent and no app

None == -1
Versions == 0..MaxEdits
\* A pass is started by a request that finds none to join.
Passes == Requests
NoPass == "no pass"

VARIABLES
  disk,      \* the version of each file
  noticed,   \* the version the watcher last told of
  changed,   \* an event of the watcher is on its way
  watching,
  agentsAlreadyPreloaded,
  preloadInFlight,
  passes,    \* what each pass has read of each app, and which it has loaded
  preloadedAgents,
  loadFailures,
  runnerCache,
  asked      \* each request: its state, app, pass, what was noticed, what it runs

vars == <<disk, noticed, changed, watching, agentsAlreadyPreloaded, preloadInFlight,
          passes, preloadedAgents, loadFailures, runnerCache, asked>>
loaded == <<agentsAlreadyPreloaded, preloadInFlight, preloadedAgents, loadFailures>>

Untouched == [app \in Apps |-> None]
Idle == [st |-> "idle", app |-> CHOOSE a \in Apps : TRUE, pass |-> NoPass,
         noticed |-> None, runs |-> None]

TypeOK ==
  /\ disk \in [Apps -> Versions] /\ noticed \in [Apps -> Versions]
  /\ changed \in BOOLEAN /\ watching \in BOOLEAN /\ agentsAlreadyPreloaded \in BOOLEAN
  /\ preloadInFlight \in Passes \cup {NoPass}
  /\ passes \in [Passes -> [st : {"off", "running", "ended"},
                            read : [Apps -> Versions \cup {None}], done : SUBSET Apps]]
  /\ preloadedAgents \in [Apps -> Versions \cup {None}]
  /\ loadFailures \in [Apps -> Versions \cup {None}]
  /\ runnerCache \in [Apps -> Versions \cup {None}]
  /\ asked \in [Requests -> [st : {"idle", "waiting", "served", "failed", "missing"}, app : Apps,
                             pass : Passes \cup {NoPass}, noticed : Versions \cup {None},
                             runs : Versions \cup {None}]]

Init ==
  /\ disk = [app \in Apps |-> 0] /\ noticed = disk
  /\ changed = FALSE /\ watching = FALSE
  /\ agentsAlreadyPreloaded = FALSE /\ preloadInFlight = NoPass
  /\ passes = [p \in Passes |-> [st |-> "off", read |-> Untouched, done |-> {}]]
  /\ preloadedAgents = Untouched /\ loadFailures = Untouched /\ runnerCache = Untouched
  /\ asked = [r \in Requests |-> Idle]

Edit(app) ==
  /\ disk[app] < MaxEdits
  /\ disk' = [disk EXCEPT ![app] = @ + 1]
  /\ changed' = (changed \/ watching)
  /\ UNCHANGED <<noticed, watching, loaded, passes, runnerCache, asked>>

\* The pass in flight is forgotten, not stopped.
InvalidateAll ==
  /\ changed
  /\ changed' = FALSE /\ noticed' = disk
  /\ preloadedAgents' = Untouched /\ loadFailures' = Untouched
  /\ agentsAlreadyPreloaded' = FALSE /\ preloadInFlight' = NoPass
  /\ UNCHANGED <<disk, watching, passes, runnerCache, asked>>

\* A runner is made of what the loader has the first time, and kept.
GetRunner(app) == IF runnerCache[app] = None THEN preloadedAgents[app] ELSE runnerCache[app]
GetAgentFile(app) ==
  CASE preloadedAgents[app] # None -> "served"
    [] preloadedAgents[app] = None /\ loadFailures[app] # None -> "failed"
    [] OTHER -> "missing"
Answered(req) ==
  LET st == GetAgentFile(req.app)
  IN [req EXCEPT !.st = st, !.runs = IF st = "served" THEN GetRunner(req.app) ELSE None]
\* All the requests that are answered now are answered from the same cache.
Answer(rs, as) ==
  /\ asked' = [r \in Requests |-> IF r \in rs THEN Answered(as[r]) ELSE as[r]]
  /\ runnerCache' = [app \in Apps |->
       IF \E r \in rs : as[r].app = app THEN GetRunner(app) ELSE runnerCache[app]]

ExecuteAgentRun(r, app) ==
  LET p == IF preloadInFlight = NoPass THEN r ELSE preloadInFlight
      req == [Idle EXCEPT !.st = "waiting", !.app = app, !.pass = p, !.noticed = noticed[app]]
  IN /\ asked[r].st = "idle"
     /\ \/ /\ agentsAlreadyPreloaded
           /\ Answer({r}, [asked EXCEPT ![r] = [req EXCEPT !.pass = NoPass]])
           /\ UNCHANGED <<passes, preloadInFlight>>
        \/ /\ ~agentsAlreadyPreloaded
           /\ asked' = [asked EXCEPT ![r] = req]
           /\ preloadInFlight' = p
           /\ passes' = [passes EXCEPT ![p].st = "running"]
           /\ UNCHANGED runnerCache
     /\ UNCHANGED <<disk, noticed, changed, watching, agentsAlreadyPreloaded,
                    preloadedAgents, loadFailures>>

\* A pass compiles the files side by side and then imports each.
Compile(p, app) ==
  /\ passes[p].st = "running" /\ passes[p].read[app] = None
  /\ passes' = [passes EXCEPT ![p].read[app] = disk[app]]
  /\ UNCHANGED <<disk, noticed, changed, watching, loaded, runnerCache, asked>>

LoadAgentFromFile(p, app) ==
  LET version == passes[p].read[app]
  IN /\ passes[p].st = "running" /\ version # None /\ app \notin passes[p].done
     /\ passes' = [passes EXCEPT ![p].done = @ \cup {app}]
     /\ preloadedAgents' = IF <<app, version>> \in Broken \cup Empty THEN preloadedAgents
                           ELSE [preloadedAgents EXCEPT ![app] = version]
     /\ loadFailures' = IF <<app, version>> \in Broken
                        THEN [loadFailures EXCEPT ![app] = version] ELSE loadFailures
     /\ UNCHANGED <<disk, noticed, changed, watching, agentsAlreadyPreloaded,
                    preloadInFlight, runnerCache, asked>>

\* The end of any pass counts, and clears the one in flight, whichever it is.
EndPass(p) ==
  /\ passes[p].st = "running" /\ passes[p].done = Apps
  /\ passes' = [passes EXCEPT ![p].st = "ended"]
  /\ agentsAlreadyPreloaded' = TRUE /\ preloadInFlight' = NoPass
  /\ watching' = TRUE
  /\ Answer({r \in Requests : asked[r].st = "waiting" /\ asked[r].pass = p}, asked)
  /\ UNCHANGED <<disk, noticed, changed, preloadedAgents, loadFailures>>

Next ==
  \/ \E app \in Apps : Edit(app)
  \/ InvalidateAll
  \/ \E r \in Requests, app \in Apps : ExecuteAgentRun(r, app)
  \/ \E p \in Passes, app \in Apps : Compile(p, app) \/ LoadAgentFromFile(p, app)
  \/ \E p \in Passes : EndPass(p)

Spec == Init /\ [][Next]_vars

---------------------------------------------------------------------------
\* A run that is asked for after the watcher has told of a change runs the
\* changed file, or a later one (cli.ts, the option --reload_agents).
NewRunSeesTheChange ==
  \A r \in Requests : asked[r].st = "served" => asked[r].runs >= asked[r].noticed
============================================================================
