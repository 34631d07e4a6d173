----------------------------- MODULE Sandboxes -----------------------------
(***************************************************************************)
(* Where the code a model writes runs: a process of the host with a        *)
(* directory of its own, a docker container all runs of an executor share, *)
(* a remote sandbox per session and language; and the working directory of *)
(* a local environment.                                                    *)
(*                                                                         *)
(* A file name is a sequence: <<b>> is the plain name, Append(n, k) the    *)
(* name n with the suffix _k.  A directory maps names to contents.         *)
(***************************************************************************)
EXTENDS Naturals, Integers, FiniteSets, SequencesExt, TLC

CONSTANTS Throws, Nothing

---------------------------------------------------------------------------
(* Files are written under names no file has yet.                          *)

RECURSIVE FreeName(_, _, _, _)
FreeName(dir, original, name, counter) ==
  IF name \notin DOMAIN dir THEN name
  ELSE FreeName(dir, original, Append(original, counter), counter + 1)

\* The files keep the names they got.
MaterializeFiles(files, start) ==
  FoldLeft(LAMBDA acc, f :
             LET name == FreeName(acc.dir, f.name, f.name, 2)
             IN  [dir |-> (name :> f.content) @@ acc.dir,
                  files |-> Append(acc.files, [f EXCEPT !.name = name])],
           [dir |-> start, files |-> << >>], files)

---------------------------------------------------------------------------
(* A process of the host.  What it does: [ends, code, says, writes], it    *)
(* ends by itself ("exit"), by a signal or not at all; `code' is its exit  *)
(* code, `says' whether it wrote to its error output.                      *)

LocalLanguages == {"javascript", "python", "shell", "cmd", "powershell"}

\* The interpreter, and whether the script is passed as its -File.
CommandOf(language, shell) ==
  CASE language = "python" -> "python3"
    [] language = "shell" -> shell
    [] language = "powershell" -> "pwsh"
    [] language = "cmd" -> "cmd.exe"
    [] OTHER -> "node"

GetExtensionForLanguage(language, shell) ==
  CASE language = "javascript" -> "js"
    [] language = "python" -> "py"
    [] language = "powershell" -> "ps1"
    [] language = "cmd" -> "bat"
    [] language = "shell" -> IF shell \in {"powershell", "pwsh"} THEN "ps1" ELSE "sh"
    [] OTHER -> "js"

\* A process that does not end is killed when its time is over.
LocalMessage(did) ==
  CASE did.ends \in {"never", "signal"} -> "timed out"
    [] did.ends = "exit" /\ did.code # 0 /\ ~did.says -> "exit code"
    [] OTHER -> ""

UnsafeLocalExecuteCode(input, shell, did) ==
  IF input.language \notin LocalLanguages
  THEN [stderr |-> "unsupported", ran |-> "", code |-> Nothing, outputFiles |-> << >>]
  ELSE LET script == <<"script", GetExtensionForLanguage(input.language, shell)>>
           given  == MaterializeFiles(input.files, script :> input.code)
           after  == did.writes @@ given.dir
           made   == DOMAIN after \ ({script} \cup {given.files[i].name : i \in DOMAIN given.files})
       IN  [stderr |-> LocalMessage(did), ran |-> CommandOf(input.language, shell),
            code |-> given.dir[script],
            outputFiles |-> [n \in made |-> after[n]]]

---------------------------------------------------------------------------
(* An environment: [dir, disk, ready, own].  `dir' is Nothing until one is *)
(* given or made; `disk' maps directories to what is in them.  A path is   *)
(* [up, name]: `up' if it leaves the directory it is resolved in.          *)

NewEnvironment(given) == [dir |-> given, disk |-> [d \in {} |-> << >>], ready |-> FALSE, own |-> FALSE]

Initialize(e) ==
  LET dir == IF e.dir = Nothing THEN "temp" ELSE e.dir
  IN  [e EXCEPT !.dir = dir, !.own = @ \/ e.dir = Nothing, !.ready = TRUE,
                !.disk = @ @@ (dir :> [n \in {} |-> Nothing])]

Close(e) ==
  IF e.own /\ e.dir # Nothing
  THEN [e EXCEPT !.dir = Nothing, !.ready = FALSE, !.disk = [d \in DOMAIN @ \ {e.dir} |-> @[d]]]
  ELSE [e EXCEPT !.ready = FALSE]

\* An operation is [env, result].
WriteFile(e, path, content) ==
  IF ~e.ready \/ path.up THEN [env |-> e, result |-> Throws]
  ELSE [env |-> [e EXCEPT !.disk[e.dir] = (path.name :> content) @@ @], result |-> Nothing]

ReadFile(e, path) ==
  [env |-> e,
   result |-> IF ~e.ready \/ path.up \/ path.name \notin DOMAIN e.disk[e.dir] THEN Throws
              ELSE e.disk[e.dir][path.name]]

\* A command killed by a signal has the negated signal as its exit code; one
\* that cannot be started throws.
EnvironmentExecute(e, did, timeout) ==
  IF ~e.ready \/ did.ends = "unstartable" THEN [env |-> e, result |-> Throws]
  ELSE [env |-> [e EXCEPT !.disk[e.dir] = did.writes @@ @],
        result |-> [exitCode |-> CASE did.ends = "exit" -> did.code
                                   [] did.ends = "signal" -> -15
                                   [] did.ends = "never" -> -9,
                    timedOut |-> did.ends = "never"]]

---------------------------------------------------------------------------
(* The containers of one executor: w = [engine, active, held, inits,       *)
(* promise].                                                               *)
(*   engine   what docker has of each container, "none", "created", "up"   *)
(*            or "gone"                                                    *)
(*   active   the containers the process removes when it exits             *)
(*   held     the container calls run in, Nothing before there is one      *)
(*   inits    the initialisations under way, [id, stage]                   *)
(*   promise  the initialisation calls wait for, Nothing if there is none  *)

NoContainers == [engine |-> << >>, active |-> {}, held |-> Nothing, inits |-> {}, promise |-> Nothing]

\* The first call starts the container, the others wait for it.
EnsureContainer(w, builds) ==
  IF w.promise # Nothing THEN w
  ELSE LET n == Len(w.engine) + 1
       IN  [w EXCEPT !.promise = n, !.engine = Append(@, "none"),
                     !.inits = @ \cup {[id |-> n, stage |-> IF builds THEN "build" ELSE "create"]}]

\* A failed initialisation lets the next call try again.
InitFails(w, i) == [w EXCEPT !.inits = @ \ {i}, !.promise = Nothing]

InitContainer(w, i, ok) ==
  LET To(v, stage) == [v EXCEPT !.inits = (@ \ {i}) \cup {[i EXCEPT !.stage = stage]}]
  IN  CASE ~ok -> InitFails(w, i)
        [] ok /\ i.stage = "build" -> To(w, "create")
        [] ok /\ i.stage = "create" -> To([w EXCEPT !.engine[i.id] = "created"], "start")
        [] ok /\ i.stage = "start" ->
             To([w EXCEPT !.engine[i.id] = "up", !.active = @ \cup {i.id}, !.held = i.id], "probe")
        [] ok /\ i.stage = "probe" -> [w EXCEPT !.inits = @ \ {i}]

\* A container that is not removed stays with those to remove at the exit.
StopAndRemove(w, n, ok) ==
  IF ok THEN [w EXCEPT !.engine[n] = "gone", !.active = @ \ {n}] ELSE w

CloseExecutor(w, ok) ==
  LET v == [w EXCEPT !.held = Nothing, !.promise = Nothing]
  IN  IF w.held = Nothing THEN v ELSE StopAndRemove(v, w.held, ok)

CleanupContainers(w, removed) ==
  FoldSet(LAMBDA n, v : StopAndRemove(v, n, n \in removed), w, w.active)

ContainerCommand == [python |-> <<"python3", "-c">>, javascript |-> <<"node", "-e">>,
                     typescript |-> <<"tsx", "--eval">>, shell |-> <<"sh", "-c">>]

TimeoutExitCode == 124

\* What an execution in the container came to: its stream ended, with its exit
\* code if it has one by then, broke, or said nothing until the time was over.
DockerExecute(did) ==
  CASE did.stream = "error" -> Throws
    [] did.stream = "silent" -> [exitCode |-> TimeoutExitCode, stderr |-> did.stderr]
    [] OTHER -> [exitCode |-> did.code, stderr |-> did.stderr]

DescribeExit(stderr, exitCode) ==
  CASE exitCode = TimeoutExitCode -> stderr \o "timed out"
    [] exitCode \notin {0, TimeoutExitCode, Nothing} /\ stderr = "" -> "exit code"
    [] OTHER -> stderr

ContainerExecuteCode(language, did) ==
  IF language \notin DOMAIN ContainerCommand THEN Throws
  ELSE LET out == DockerExecute(did)
       IN  IF out = Throws THEN Throws ELSE DescribeExit(out.stderr, out.exitCode)

---------------------------------------------------------------------------
(* The sandboxes: s = [engine, creating, made, state, boxes].              *)
(*   engine    the name of the agent engine once there is one              *)
(*   creating  "no", "pending", "made" or "failed": its one creation       *)
(*   made      how many engines were created                               *)
(*   state     the sandbox of each language the session names              *)
(*   boxes     the sandboxes, [language, running]                          *)

SandboxLanguages == {"python", "javascript"}
NoSandboxes == [engine |-> Nothing, creating |-> "no", made |-> 0,
                state |-> [l \in SandboxLanguages |-> 0], boxes |-> << >>]

\* A creation that is not done after its attempts throws.
AwaitOperation(polls, attempts) == polls <= attempts

GetOrCreateAgentEngine(s) ==
  IF s.engine # Nothing \/ s.creating # "no" THEN s ELSE [s EXCEPT !.creating = "pending", !.made = @ + 1]
AgentEngineAnswers(s, polls, attempts) ==
  IF AwaitOperation(polls, attempts) THEN [s EXCEPT !.creating = "made", !.engine = s.made]
  ELSE [s EXCEPT !.creating = "failed"]
AgentEngine(s) ==
  CASE s.engine # Nothing -> s.engine
    [] s.engine = Nothing -> Throws

\* The sandbox the session names is used while it runs.
LookUpSandbox(s, language) ==
  LET n == s.state[language] IN IF n # 0 /\ s.boxes[n].running THEN n ELSE Nothing
CreateSandbox(s, language) == [s EXCEPT !.boxes = Append(@, [language |-> language, running |-> TRUE])]
UseSandbox(s, language, n) == [s EXCEPT !.state[language] = n]
SandboxStops(s, n) == [s EXCEPT !.boxes[n].running = FALSE]

\* The first unnamed JSON output is the text of the run, everything else a file.
ReadOutputs(outputs) ==
  FoldLeft(LAMBDA acc, o :
             IF o.mime = "json" /\ o.name = ""
             THEN CASE o.data = "" -> acc
                    [] o.data = "broken" -> [acc EXCEPT !.stdout = o.data]
                    [] OTHER -> [acc EXCEPT !.stdout = o.out, !.stderr = o.err]
             ELSE [acc EXCEPT !.files = Append(@, [name |-> IF o.name = "" THEN "output_file" ELSE o.name,
                                                   content |-> o.data])],
           [stdout |-> "", stderr |-> "", files |-> << >>], outputs)
=============================================================================
