-------------------------- MODULE PresentationRunner --------------------------
(***************************************************************************)
(* The presentation stack: runner.mjs starts and stops a database, the     *)
(* API, the web site and a simulator, and keeps what it knows of them in   *)
(* files - the pids, the secret of the device, the passwords, the sources  *)
(* that the web build was made of.  A command may end anywhere, by an      *)
(* error or Ctrl-C, and the next one goes by the files.                    *)
(***************************************************************************)
EXTENDS Integers, FiniteSets

CONSTANTS
  None,   \* no value
  MaxCommands, MaxAccidents   \* bounds of the instance

ASSUME RunnerAssumption ==
  /\ MaxCommands \in Nat /\ MaxAccidents \in Nat
  /\ None \notin Int
  /\ None \notin [password : Nat \cup {None}, secret : Nat \cup {None}]

VARIABLES
  runner,     \* the command, its step and component, what it holds
  processes,  \* pid, component, secret, if told to terminate, if it has its port
  records,    \* processes.json: a pid of each component
  kept,       \* device-credential.json: the secret
  config,     \* .env.presentation.local: its passwords are drawn at once
  volume,     \* of the database: the password it was made with, the device's secret
  build,      \* .next: the sources it was made of, and those the sentinel names
  source,     \* fingerprint of the web sources
  serial,     \* of pids, secrets and passwords
  commands,
  accidents,
  spoilt,     \* the files that an accident has made wrong
  orphaned,   \* a start has ended between spawn() and writeJson()
  unseen      \* whose port was found free although a process without a record was to take it

files == <<records, kept, config, build>>
counters == <<serial, commands, accidents>>
ghosts == <<spoilt, orphaned, unseen>>
stack == <<runner, processes, files, volume, source, counters, ghosts>>

Components == {"api", "web", "simulator"}
Servers == {"api", "web"}
Idle == [command |-> "none", at |-> "idle", of |-> None, held |-> None, pid |-> None]

At(step) == runner.at = step
Go(step) == runner' = [runner EXCEPT !.at = step]
GoTo(step, c) == runner' = [runner EXCEPT !.at = step, !.of = c]
Accident == accidents < MaxAccidents /\ accidents' = accidents + 1

\* processRunning(): there is a process of the pid on record.
Running(c) == \E p \in processes : p.pid = records[c]
Listening(c) == \E p \in processes : p.component = c /\ p.bound

Command(command, step, c, held) ==
  /\ At("idle")
  /\ commands < MaxCommands /\ commands' = commands + 1
  /\ runner' = [command |-> command, at |-> step, of |-> c, held |-> held, pid |-> None]
  /\ UNCHANGED <<processes, files, volume, source, serial, accidents, ghosts>>

-----------------------------------------------------------------------------
(* setup                                                                   *)

\* An existing configuration is not changed.
Setup ==
  /\ At("idle") /\ config = None
  /\ commands < MaxCommands /\ commands' = commands + 1
  /\ config' = serial /\ serial' = serial + 1
  /\ UNCHANGED <<runner, processes, records, kept, build, volume, source, accidents, ghosts>>

-----------------------------------------------------------------------------
(* start                                                                   *)

\* presentationConfig() is read once.
Start == config # None /\ Command("start", "ports", None, config)

\* A process of c that the files do not tell of, and that ensurePortsAvailable()
\* does not see, now or when it looked for the first time.
Unseen(c) ==
  \E p \in processes :
    p.component = c /\ ~p.told /\ p.pid # records[c] /\ (~p.bound \/ c \in unseen)

\* ensurePortsAvailable(), and compose up: a new volume takes the password.
CheckPorts ==
  /\ At("ports")
  /\ \A c \in Servers : Listening(c) => Running(c)
  /\ unseen' = {c \in Servers : Unseen(c)}
  /\ volume' = IF volume = None THEN [password |-> runner.held, secret |-> None] ELSE volume
  /\ Go("migrate")
  /\ UNCHANGED <<processes, files, source, counters, spoilt, orphaned>>

\* The API is built, the schema migrated, the accounts seeded.
Migrate ==
  /\ At("migrate") /\ volume.password = runner.held
  /\ runner' = [runner EXCEPT !.at = "spawn", !.of = "api", !.held = None]
  /\ UNCHANGED <<processes, files, volume, source, counters, ghosts>>

Started(c) ==
  CASE c = "api" -> runner' = [runner EXCEPT !.at = "provision", !.pid = None]
    [] c = "web" -> runner' = [runner EXCEPT !.at = "site", !.pid = None]
    [] c = "simulator" -> runner' = Idle

\* startComponent(): it is running, or it is spawned and then recorded.
Leave(c) ==
  /\ At("spawn") /\ runner.of = c /\ Running(c)
  /\ Started(c)
  /\ UNCHANGED <<processes, files, volume, source, counters, ghosts>>
Spawn(c) ==
  /\ At("spawn") /\ runner.of = c /\ ~Running(c)
  /\ processes' = processes \cup
       {[pid |-> serial, component |-> c, secret |-> runner.held, told |-> FALSE, bound |-> FALSE]}
  /\ serial' = serial + 1
  /\ runner' = [runner EXCEPT !.at = "record", !.pid = serial]
  /\ UNCHANGED <<files, volume, source, commands, accidents, ghosts>>
Record(c) ==
  /\ At("record") /\ runner.of = c
  /\ records' = [records EXCEPT ![c] = runner.pid]
  /\ Started(c)
  /\ UNCHANGED <<processes, kept, config, build, volume, source, counters, ghosts>>

\* provisionDeviceAndProfile(): there is no device to have a secret, or the
\* file does not tell it.
NeedsSecret(file, device) == device = None \/ file = None

\* Mutation: secret ??= created.data.credential.secret
FileFirst(file, device, new) == IF file = None THEN new ELSE file
Held(file, device, new) == IF NeedsSecret(file, device) THEN new ELSE file

\* waitForApi(); POST /devices, or rotate-credential, or neither.
Provision ==
  /\ At("provision") /\ Listening("api")
  /\ IF NeedsSecret(kept, volume.secret)
     THEN volume' = [volume EXCEPT !.secret = serial] /\ serial' = serial + 1
     ELSE UNCHANGED <<volume, serial>>
  /\ runner' = [runner EXCEPT !.at = "keep", !.held = Held(kept, volume.secret, serial)]
  /\ UNCHANGED <<processes, files, source, commands, accidents, ghosts>>

KeepSecret ==
  /\ At("keep")
  /\ kept' = runner.held
  /\ spoilt' = IF runner.held = volume.secret THEN spoilt \ {"secret"} ELSE spoilt
  /\ Go("fingerprint")
  /\ UNCHANGED <<processes, records, config, build, volume, source, counters, orphaned, unseen>>

\* buildIfNeeded("web"): a build is used again if the sentinel names the
\* sources; next build empties .next, with the sentinel.
UseBuild ==
  /\ At("fingerprint") /\ build.sentinel = source
  /\ GoTo("spawn", "web")
  /\ UNCHANGED <<processes, files, volume, source, counters, ghosts>>
Build ==
  /\ At("fingerprint") /\ build.sentinel # source
  /\ build' = [of |-> source, sentinel |-> None]
  /\ spoilt' = spoilt \ {"build"}
  /\ runner' = [runner EXCEPT !.at = "sentinel", !.of = source]
  /\ UNCHANGED <<processes, records, kept, config, volume, source, counters, orphaned, unseen>>
WriteSentinel ==
  /\ At("sentinel")
  /\ build' = [build EXCEPT !.sentinel = runner.of]
  /\ GoTo("spawn", "web")
  /\ UNCHANGED <<processes, records, kept, config, volume, source, counters, ghosts>>

\* waitForUrl(webUrl)
WaitForWeb ==
  /\ At("site") /\ Listening("web")
  /\ GoTo("spawn", "simulator")
  /\ UNCHANGED <<processes, files, volume, source, counters, ghosts>>

-----------------------------------------------------------------------------
(* stop and reset                                                          *)

Stop == Command("stop", "terminate", Components, None)

\* Whoever typed the name of the project.
Reset == Command("reset", "terminate", Components, None)

\* Mutation: the simulator is forgotten.
WithPorts(c) == c # "simulator"
Terminated(c) == Running(c)

\* stopComponent() in turn: SIGTERM to the pid on record.
Terminate(c) ==
  /\ At("terminate") /\ c \in runner.of
  /\ c = "web" => "simulator" \notin runner.of
  /\ c = "api" => runner.of = {"api"}
  /\ processes' = IF Terminated(c)
                  THEN {IF p.pid = records[c] THEN [p EXCEPT !.told = TRUE] ELSE p : p \in processes}
                  ELSE processes
  /\ IF c = "api" THEN GoTo("forget", None) ELSE GoTo("terminate", runner.of \ {c})
  /\ UNCHANGED <<files, volume, source, counters, ghosts>>

\* compose down, and then the pids are removed.
Forget ==
  /\ At("forget")
  /\ records' = [c \in Components |-> None]
  /\ IF runner.command = "reset" THEN Go("wipe") ELSE runner' = Idle
  /\ UNCHANGED <<processes, kept, config, build, volume, source, counters, ghosts>>

\* compose down -v
Wipe ==
  /\ At("wipe")
  /\ volume' = None
  /\ spoilt' = spoilt \ {"password"}
  /\ Go("clear")
  /\ UNCHANGED <<processes, files, source, counters, orphaned, unseen>>
\* rm -r tmp/presentation
Clear ==
  /\ At("clear")
  /\ kept' = None /\ records' = [c \in Components |-> None]
  /\ spoilt' = spoilt \ {"secret"}
  /\ runner' = Idle
  /\ UNCHANGED <<processes, config, build, volume, source, counters, orphaned, unseen>>

-----------------------------------------------------------------------------
(* What happens to them                                                    *)

\* A command ends where it is: an error, a wait in vain, Ctrl-C.
Interrupt ==
  /\ ~At("idle")
  /\ runner' = Idle
  /\ spoilt' = IF At("keep") /\ kept # None /\ kept # runner.held THEN spoilt \cup {"secret"} ELSE spoilt
  /\ orphaned' = (orphaned \/ At("record"))
  /\ UNCHANGED <<processes, files, volume, source, counters, unseen>>

\* What service.mjs has started takes its port, some time after spawn().
Bind(p) ==
  /\ p.component \in Servers /\ ~p.bound /\ ~Listening(p.component)
  /\ processes' = (processes \ {p}) \cup {[p EXCEPT !.bound = TRUE]}
  /\ UNCHANGED <<runner, files, volume, source, counters, ghosts>>

\* A process ends: as it was told, or a server whose port is taken, or a
\* simulator that is refused or finds no API, or by itself.
End(p) ==
  /\ \/ /\ UNCHANGED accidents
        /\ \/ p.told
           \/ p.component \in Servers /\ ~p.bound /\ Listening(p.component)
           \/ p.component = "simulator" /\ ~(Listening("api") /\ volume # None /\ p.secret = volume.secret)
     \/ Accident
  /\ processes' = processes \ {p}
  /\ UNCHANGED <<runner, files, volume, source, serial, commands, ghosts>>

\* After a restart of the machine another program may have a pid that is on record.
Restart ==
  /\ Accident
  /\ \E reused \in SUBSET {c \in Components : records[c] # None} :
       processes' = {[pid |-> records[c], component |-> "other", secret |-> None, told |-> FALSE,
                        bound |-> FALSE] : c \in reused}
  /\ runner' = Idle
  /\ spoilt' = IF At("keep") /\ kept # None /\ kept # runner.held THEN spoilt \cup {"secret"} ELSE spoilt
  /\ orphaned' = FALSE /\ unseen' = {}
  /\ UNCHANGED <<files, volume, source, serial, commands>>

\* The owner rotates the credential on the device page.
RotateByHand ==
  /\ Accident
  /\ Listening("api") /\ volume # None /\ volume.secret # None
  /\ volume' = [volume EXCEPT !.secret = serial] /\ serial' = serial + 1
  /\ spoilt' = spoilt \cup {"secret"}
  /\ UNCHANGED <<runner, processes, files, source, commands, orphaned, unseen>>

\* Somebody edits the sources, also while they are built.
Edit ==
  /\ Accident
  /\ source' = 1 - source
  /\ UNCHANGED <<runner, processes, files, volume, serial, commands, ghosts>>
EditDuringBuild ==
  /\ Accident
  /\ At("sentinel")
  /\ source' = 1 - source
  /\ build' = [build EXCEPT !.of = source']
  /\ spoilt' = spoilt \cup {"build"}
  /\ UNCHANGED <<runner, processes, records, kept, config, volume, serial, commands, orphaned, unseen>>

\* Between two commands the configuration is lost.
LoseConfig ==
  /\ Accident
  /\ At("idle")
  /\ config # None /\ config' = None
  /\ spoilt' = IF volume = None THEN spoilt ELSE spoilt \cup {"password"}
  /\ UNCHANGED <<runner, processes, records, kept, build, volume, source, serial, commands, orphaned, unseen>>

RunnerInit ==
  /\ runner = Idle /\ processes = {}
  /\ records = [c \in Components |-> None]
  /\ kept = None /\ config = None /\ volume = None
  /\ build = [of |-> None, sentinel |-> None] /\ source = 0
  /\ serial = 1 /\ commands = 0 /\ accidents = 0
  /\ spoilt = {} /\ orphaned = FALSE /\ unseen = {}

RunnerNext ==
  \/ Setup \/ Start \/ Stop \/ Reset
  \/ CheckPorts \/ Migrate \/ Provision \/ KeepSecret \/ UseBuild \/ Build
  \/ WriteSentinel \/ WaitForWeb
  \/ \E c \in Components : Leave(c) \/ Spawn(c) \/ Record(c) \/ Terminate(c)
  \/ Forget \/ Wipe \/ Clear
  \/ Interrupt
  \/ \E p \in processes : Bind(p) \/ End(p)
  \/ Restart \/ RotateByHand \/ Edit \/ EditDuringBuild \/ LoseConfig

-----------------------------------------------------------------------------
(* Properties                                                              *)

\* What start finds in the files is so - the password of the database, the
\* secret of the device, the build - wherever a command before it ended.
\* Only an accident can change that: a configuration that is lost, a
\* credential rotated elsewhere or made and not written down over an old
\* one, an edit during the build.
FilesTellTheTruth ==
  /\ config # None /\ volume # None /\ "password" \notin spoilt => config = volume.password
  /\ kept # None /\ volume # None /\ "secret" \notin spoilt /\ ~At("keep") =>
       volume.secret \in {None, kept}
  /\ build.sentinel # None /\ "build" \notin spoilt => build.of = build.sentinel

\* However starts, stops and interruptions follow each other, there are no
\* two processes of a component.  Only a start that ended before it had
\* written the pid makes two: of the simulator, for which no port is looked
\* at; of a server, if the next start looks before the first has its port.
OneOfEach ==
  \A c \in Components :
    \/ Cardinality({p \in processes : p.component = c /\ ~p.told}) <= 1
    \/ c = "simulator" /\ orphaned
    \/ c \in unseen
=============================================================================
