------------------------ MODULE PresentationRunnerProofs ------------------------
(***************************************************************************)
(* However often the runner is interrupted: its files do not contradict    *)
(* what they are about, and it starts no component twice.  Both follow     *)
(* from what the running command holds between a change and the file that  *)
(* tells of it.  DevicePathProofs states them of the whole.                *)
(***************************************************************************)
EXTENDS PresentationRunner, FiniteSetTheorems, TLAPS

Starting == {"migrate", "spawn", "record", "provision", "keep", "fingerprint", "sentinel", "site"}
Steps == {"idle", "ports", "terminate", "forget", "wipe", "clear"} \cup Starting
Places == {None, 0, 1} \cup Components \cup SUBSET Components
Serials == Nat \cup {None}

Runners == [command : {"none", "start", "stop", "reset"}, at : Steps, of : Places,
            held : Serials, pid : Serials]

\* The shapes that EXCEPT relies on.
ShapesOK ==
  /\ runner \in Runners
  /\ volume \in [password : Serials, secret : Serials] \cup {None}
  /\ build \in [of : {None, 0, 1}, sentinel : Places]
  /\ records \in [Components -> Serials]
  /\ kept \in Serials /\ config \in Serials
  /\ serial \in Nat /\ source \in {0, 1}
  /\ At("terminate") => runner.of \subseteq Components

-----------------------------------------------------------------------------
(* The files                                                               *)

\* What a command holds is what the file will say, and a configuration that
\* is missing next to a volume has been lost.
FilesInv ==
  /\ ShapesOK
  /\ FilesTellTheTruth
  /\ volume # None /\ config = None => "password" \in spoilt
  /\ At("ports") => config # None /\ runner.held = config
  /\ runner.at \in Starting => volume # None
  /\ At("keep") => runner.held # None
  /\ At("keep") /\ "secret" \notin spoilt => volume.secret = runner.held
  /\ At("sentinel") /\ "build" \notin spoilt => build.of = runner.of

LEMMA FilesInit == RunnerInit => FilesInv
  BY RunnerAssumption DEF RunnerInit, FilesInv, ShapesOK, Runners, FilesTellTheTruth, Idle, At, Steps,
     Starting, Places, Serials, Components

\* What the steps of the commands write as places.
LEMMA ArePlaces ==
  /\ {None, 0, 1, Components} \cup Components \subseteq Places
  /\ \A s \in SUBSET Components : s \in Places
  /\ {"api", "web", "simulator"} \subseteq Places
  BY DEF Places, Components

LEMMA FilesStep == FilesInv /\ RunnerNext => FilesInv'
<1> USE RunnerAssumption, ArePlaces DEF FilesInv, FilesTellTheTruth, At, Steps, Starting, files, counters, ghosts
<1> SUFFICES ASSUME FilesInv, RunnerNext
             PROVE  FilesInv'
  OBVIOUS
<1> USE DEF ShapesOK, Serials, Runners
<1>1. ASSUME Setup PROVE FilesInv'
  BY <1>1 DEF Setup
<1>2. ASSUME Start PROVE FilesInv'
  BY <1>2 DEF Start, Command
<1>3. ASSUME Stop \/ Reset PROVE FilesInv'
  BY <1>3 DEF Stop, Reset, Command
<1>4. ASSUME CheckPorts PROVE FilesInv'
  BY <1>4 DEF CheckPorts, Go
<1>5. ASSUME Migrate PROVE FilesInv'
  <2>1. /\ runner' = [runner EXCEPT !.at = "spawn", !.of = "api", !.held = None]
        /\ UNCHANGED <<files, volume, spoilt, serial, source>>
    BY <1>5 DEF Migrate
  <2>2. runner'.at = "spawn" /\ runner'.of = "api"
    BY <2>1
  <2>3. ShapesOK'
    BY <2>1
  <2>4. FilesTellTheTruth'
    BY <1>5, <2>1, <2>2 DEF Migrate
  <2> QED
    BY <1>5, <2>1, <2>2, <2>3, <2>4 DEF Migrate
<1>6. ASSUME NEW c \in Components, Leave(c) \/ Record(c) PROVE FilesInv'
  <2>1. /\ Started(c)
        /\ UNCHANGED <<kept, config, build, volume, source, serial, spoilt>>
        /\ runner.at \in {"spawn", "record"}
        /\ records' = records \/ records' = [records EXCEPT ![c] = runner.pid]
    BY <1>6 DEF Leave, Record
  <2>2. runner' \in Runners /\ runner'.at \in {"provision", "site", "idle"}
    <3> HIDE DEF FilesInv, FilesTellTheTruth, ShapesOK, Serials
    <3>1. runner \in Runners
      BY DEF FilesInv, ShapesOK
    <3>2. None \in Serials
      BY DEF Serials
    <3>3. CASE c = "api"
      <4>1. runner' = [runner EXCEPT !.at = "provision", !.pid = None]
        BY <2>1, <3>3 DEF Started
      <4> QED
        BY <3>1, <3>2, <4>1 DEF Runners
    <3>4. CASE c = "web"
      <4>1. runner' = [runner EXCEPT !.at = "site", !.pid = None]
        BY <2>1, <3>4 DEF Started
      <4> QED
        BY <3>1, <3>2, <4>1 DEF Runners
    <3>5. CASE c = "simulator"
      <4>1. runner' = Idle
        BY <2>1, <3>5 DEF Started
      <4> QED
        BY <3>2, <4>1 DEF Runners, Idle
    <3> QED
      BY <3>3, <3>4, <3>5 DEF Components
  <2>3. ShapesOK'
    <3>1. records' \in [Components -> Serials]
      BY <2>1
    <3> QED
      BY <2>1, <2>2, <3>1
  <2> QED
    BY <2>1, <2>2, <2>3
<1>7. ASSUME NEW c \in Components, Spawn(c) PROVE FilesInv'
  <2>1. /\ runner' = [runner EXCEPT !.at = "record", !.pid = serial]
        /\ serial' = serial + 1 /\ runner.at = "spawn"
        /\ UNCHANGED <<records, kept, config, build, volume, source, spoilt>>
    BY <1>7 DEF Spawn
  <2>2. runner' \in Runners /\ runner'.at = "record"
    <3> HIDE DEF FilesInv, FilesTellTheTruth, ShapesOK, Serials
    <3>1. runner \in Runners /\ serial \in Serials
      BY DEF FilesInv, ShapesOK, Serials
    <3> QED
      BY <2>1, <3>1 DEF Runners
  <2>3. ShapesOK'
    BY <2>1, <2>2
  <2> QED
    BY <2>1, <2>2, <2>3
<1>8. ASSUME Provision PROVE FilesInv'
  <2>1. /\ runner' = [runner EXCEPT !.at = "keep", !.held = Held(kept, volume.secret, serial)]
        /\ IF NeedsSecret(kept, volume.secret)
           THEN volume' = [volume EXCEPT !.secret = serial] /\ serial' = serial + 1
           ELSE UNCHANGED <<volume, serial>>
        /\ runner.at = "provision"
        /\ UNCHANGED <<records, kept, config, build, source, spoilt>>
    BY <1>8 DEF Provision
  <2>2. volume \in [password : Serials, secret : Serials]
    BY <2>1
  <2>3. Held(kept, volume.secret, serial) \in Nat
    BY <2>2 DEF Held, NeedsSecret
  <2>4. runner'.at = "keep" /\ runner'.held = Held(kept, volume.secret, serial)
    BY <2>1
  <2>5. /\ volume' \in [password : Serials, secret : Serials]
        /\ volume'.password = volume.password
        /\ serial' \in Nat
    BY <2>1, <2>2
  <2>6. ShapesOK'
    BY <2>1, <2>3, <2>5
  <2>7. "secret" \notin spoilt => volume'.secret = runner'.held
    BY <2>1, <2>2, <2>4 DEF Held, NeedsSecret
  <2>8. volume' # None
    BY <2>5
  <2>9. FilesTellTheTruth'
    BY <2>1, <2>4, <2>5, <2>8
  <2> QED
    BY <2>1, <2>3, <2>4, <2>6, <2>7, <2>8, <2>9
<1>9. ASSUME KeepSecret PROVE FilesInv'
  BY <1>9 DEF KeepSecret, Go
<1>10. ASSUME UseBuild PROVE FilesInv'
  BY <1>10 DEF UseBuild, GoTo, Components
<1>11. ASSUME Build PROVE FilesInv'
  BY <1>11 DEF Build
<1>12. ASSUME WriteSentinel PROVE FilesInv'
  BY <1>12 DEF WriteSentinel, GoTo, Components
<1>13. ASSUME NEW c \in Components, Terminate(c) PROVE FilesInv'
  <2>1. /\ runner' = [runner EXCEPT !.at = "forget", !.of = None]
           \/ runner' = [runner EXCEPT !.at = "terminate", !.of = runner.of \ {c}]
        /\ UNCHANGED <<records, kept, config, build, volume, source, serial, spoilt>>
        /\ runner.at = "terminate"
    BY <1>13 DEF Terminate, GoTo
  <2>2. /\ runner' \in Runners
        /\ runner'.at = "forget" \/ (runner'.at = "terminate" /\ runner'.of = runner.of \ {c})
    <3> HIDE DEF FilesInv, FilesTellTheTruth, ShapesOK, Serials
    <3>1. runner \in Runners /\ runner.of \ {c} \in Places
      BY <2>1 DEF FilesInv, ShapesOK
    <3> QED
      BY <2>1, <3>1 DEF Runners
  <2>3. ShapesOK'
    BY <2>1, <2>2
  <2> QED
    BY <2>1, <2>2, <2>3
<1>14. ASSUME Forget PROVE FilesInv'
  BY <1>14 DEF Forget, Go, Idle
<1>15. ASSUME Wipe PROVE FilesInv'
  BY <1>15 DEF Wipe, Go
<1>16. ASSUME Clear PROVE FilesInv'
  BY <1>16 DEF Clear, Idle
<1>17. ASSUME Interrupt PROVE FilesInv'
  BY <1>17 DEF Interrupt, Idle
<1>18. ASSUME NEW p \in processes, Bind(p) \/ End(p) PROVE FilesInv'
  BY <1>18 DEF Bind, End
<1>19. ASSUME Restart PROVE FilesInv'
  BY <1>19 DEF Restart, Idle
<1>20. ASSUME RotateByHand PROVE FilesInv'
  BY <1>20 DEF RotateByHand
<1>21. ASSUME Edit PROVE FilesInv'
  BY <1>21 DEF Edit
<1>22. ASSUME EditDuringBuild PROVE FilesInv'
  BY <1>22 DEF EditDuringBuild
<1>23. ASSUME LoseConfig PROVE FilesInv'
  BY <1>23 DEF LoseConfig
<1>24. ASSUME WaitForWeb PROVE FilesInv'
  BY <1>24 DEF WaitForWeb, GoTo, Components
<1> QED
  BY <1>1, <1>2, <1>3, <1>4, <1>5, <1>6, <1>7, <1>8, <1>9, <1>10, <1>11, <1>12, <1>13, <1>14,
     <1>15, <1>16, <1>17, <1>18, <1>19, <1>20, <1>21, <1>22, <1>23, <1>24 DEF RunnerNext
-----------------------------------------------------------------------------
(* The processes                                                           *)

Process ==
  [pid : Nat, component : Components \cup {"other"}, secret : Serials, told : BOOLEAN, bound : BOOLEAN]

\* The start under way has looked at the port of c and not yet at its pid.
NotYet(c) ==
  \/ At("migrate")
  \/ At("spawn") /\ runner.of = c
  \/ c = "web" /\ \/ runner.at \in {"provision", "keep", "fingerprint", "sentinel"}
                  \/ runner.at \in {"spawn", "record"} /\ runner.of = "api"

\* The stop under way has been at the simulator.
SimulatorTold ==
  \/ At("terminate") /\ "simulator" \notin runner.of
  \/ runner.at \in {"forget", "wipe", "clear"}

\* It has not been told to terminate.
Serves(p, c) == p.component = c /\ ~p.told

ServerInv(c) ==
  /\ \A p, q \in processes : Serves(p, c) /\ (Serves(q, c) \/ q.pid = records[c]) => p = q
  /\ NotYet(c) => \A p \in processes : Serves(p, c) => p.pid = records[c]

PidOnRecord == IF At("record") /\ runner.of = "simulator" THEN runner.pid ELSE records["simulator"]

\* A pid is that of one process.  Of a server that the last start has seen
\* there is at most one process not told to terminate; if the pid on record
\* is one of a process it is this one's, and while the start has still to
\* look at it, it is on record.
ProcessesInv ==
  /\ processes \subseteq Process
  /\ \A p \in processes : p.pid < serial
  /\ \A c \in Components : records[c] # None => records[c] < serial
  /\ At("record") =>
       /\ runner.of \in Components /\ runner.pid \in Nat /\ runner.pid < serial
       /\ \A p \in processes : p.pid = runner.pid => p.component = runner.of /\ ~p.told
  /\ \A p, q \in processes : p.pid = q.pid => p = q
  /\ \A c \in Servers \ unseen : ServerInv(c)
  /\ \A p \in processes :
       p.component = "simulator" /\ ~p.told => orphaned \/ (~SimulatorTold /\ p.pid = PidOnRecord)

LEMMA ProcessesInit == RunnerInit => ProcessesInv
  BY DEF RunnerInit, ProcessesInv, Idle, At, NotYet, ServerInv, Components

\* A step that brings no process that serves and writes no pid.
LEMMA ServersKeep ==
  ASSUME NEW c, ServerInv(c), records' = records, NotYet(c)' => NotYet(c),
         \A p, q \in processes' : p.pid = q.pid => p = q,
         \A p \in processes' : \E o \in processes : o.pid = p.pid /\ (Serves(p, c) => Serves(o, c))
  PROVE  ServerInv(c)'
<1>1. ASSUME NEW p \in processes', NEW q \in processes', Serves(p, c), Serves(q, c) \/ q.pid = records'[c]
      PROVE  p = q
  <2>1. PICK o \in processes : o.pid = p.pid /\ Serves(o, c)
    BY <1>1
  <2>2. PICK r \in processes : r.pid = q.pid /\ (Serves(q, c) => Serves(r, c))
    OBVIOUS
  <2>3. o = r
    BY <1>1, <2>1, <2>2 DEF ServerInv
  <2> QED
    BY <2>1, <2>2, <2>3
<1>2. ASSUME NotYet(c)', NEW p \in processes', Serves(p, c) PROVE p.pid = records'[c]
  BY <1>2 DEF ServerInv
<1> QED
  BY <1>1, <1>2 DEF ServerInv

\* A step that leaves the processes and the pids on record alone.
LEMMA ProcessesKeep ==
  ASSUME ShapesOK, ProcessesInv,
         UNCHANGED <<processes, records, orphaned, unseen>>,
         serial' \in Nat, serial <= serial',
         (At("record") \/ At("record")') => UNCHANGED runner,
         \A c \in Servers : NotYet(c)' => NotYet(c),
         SimulatorTold' => SimulatorTold
  PROVE  ProcessesInv'
<1> USE DEF ProcessesInv, ShapesOK
<1>1. \A p \in processes : p.pid < serial'
  BY DEF Process
<1>2. \A c \in Components : records[c] # None => records[c] < serial'
  BY DEF Serials
<1>3. At("record")' =>
       /\ runner'.of \in Components /\ runner'.pid \in Nat /\ runner'.pid < serial'
       /\ \A p \in processes : p.pid = runner'.pid => p.component = runner'.of /\ ~p.told
  BY DEF At
<1>4. \A c \in Servers \ unseen : ServerInv(c)'
  BY ServersKeep
<1>5. PidOnRecord' = PidOnRecord
  BY DEF PidOnRecord, At
<1>6. \A p \in processes' :
       p.component = "simulator" /\ ~p.told => orphaned' \/ (~SimulatorTold' /\ p.pid = PidOnRecord')
  BY <1>5
<1> QED
  BY <1>1, <1>2, <1>3, <1>4, <1>6

\* Where the start goes on after a component.
LEMMA StartedPlace ==
  ASSUME NEW c \in Components, runner \in Runners, Started(c)
  PROVE  /\ c = "api" => runner'.at = "provision"
         /\ c = "web" => runner'.at = "site"
         /\ c = "simulator" => runner'.at = "idle"
<1>1. CASE c = "api"
  <2>1. runner' = [runner EXCEPT !.at = "provision", !.pid = None]
    BY <1>1 DEF Started
  <2> QED
    BY <1>1, <2>1 DEF Runners
<1>2. CASE c = "web"
  <2>1. runner' = [runner EXCEPT !.at = "site", !.pid = None]
    BY <1>2 DEF Started
  <2> QED
    BY <1>2, <2>1 DEF Runners
<1>3. CASE c = "simulator"
  <2>1. runner' = Idle
    BY <1>3 DEF Started
  <2> QED
    BY <1>3, <2>1 DEF Idle
<1> QED
  BY <1>1, <1>2, <1>3 DEF Components

LEMMA ProcessesStep == FilesInv /\ ProcessesInv /\ RunnerNext => ProcessesInv'
<1> SUFFICES ASSUME FilesInv, ProcessesInv, RunnerNext
             PROVE  ProcessesInv'
  OBVIOUS
<1>0. ShapesOK /\ ShapesOK'
  BY FilesStep DEF FilesInv
<1>n. serial \in Nat /\ serial + 1 \in Nat /\ serial <= serial + 1
  BY <1>0 DEF ShapesOK
<1>a. ASSUME UNCHANGED <<processes, records, orphaned, unseen>>, serial' = serial \/ serial' = serial + 1,
             (At("record") \/ At("record")') => UNCHANGED runner,
             \A c \in Servers : NotYet(c)' => NotYet(c),
             SimulatorTold' => SimulatorTold
      PROVE  ProcessesInv'
  <2>1. serial' \in Nat /\ serial <= serial'
    BY <1>a, <1>n
  <2> QED
    BY <1>0, <1>a, <2>1, ProcessesKeep
<1>1. ASSUME Setup \/ RotateByHand \/ Edit \/ EditDuringBuild \/ LoseConfig PROVE ProcessesInv'
  <2>1. /\ UNCHANGED <<processes, records, orphaned, unseen, runner>>
        /\ serial' = serial \/ serial' = serial + 1
    BY <1>1 DEF Setup, RotateByHand, Edit, EditDuringBuild, LoseConfig, files, ghosts
  <2> QED
    BY <1>a, <2>1 DEF NotYet, SimulatorTold, At
<1>2. ASSUME Start \/ Stop \/ Reset PROVE ProcessesInv'
  <2>1. /\ UNCHANGED <<processes, records, orphaned, unseen, serial>>
        /\ At("idle")
        /\ runner'.at = "ports" \/ (runner'.at = "terminate" /\ runner'.of = Components)
    BY <1>2 DEF Start, Stop, Reset, Command, files, ghosts
  <2> QED
    BY <1>a, <2>1 DEF NotYet, SimulatorTold, At, Components
<1>3. ASSUME CheckPorts PROVE ProcessesInv'
  <2>1. /\ UNCHANGED <<processes, records, orphaned, serial>>
        /\ At("ports") /\ runner'.at = "migrate"
        /\ \A c \in Servers : Listening(c) => Running(c)
        /\ unseen' = {c \in Servers : Unseen(c)}
    BY <1>0, <1>3 DEF CheckPorts, Go, files, ghosts, counters, ShapesOK, Runners
  <2>2. ASSUME NEW c \in Servers \ unseen', NEW p \in processes, Serves(p, c) PROVE p.pid = records[c]
    <3>1. SUFFICES ASSUME p.bound, c \notin unseen PROVE p.pid = records[c]
      BY <2>1, <2>2 DEF Unseen, Serves
    <3>2. PICK q \in processes : q.pid = records[c]
      BY <2>1, <2>2, <3>1 DEF Listening, Running, Serves
    <3> QED
      BY <2>2, <3>1, <3>2 DEF ProcessesInv, ServerInv
  <2>3. ~At("record") /\ ~At("record")' /\ ~SimulatorTold /\ ~SimulatorTold'
    BY <2>1 DEF At, SimulatorTold
  <2>4. PidOnRecord' = PidOnRecord
    BY <2>1, <2>3 DEF PidOnRecord
  <2>5. ASSUME NEW c \in Servers \ unseen' PROVE ServerInv(c)'
    BY <2>1, <2>2 DEF ProcessesInv, ServerInv
  <2> QED
    BY <2>1, <2>3, <2>4, <2>5 DEF ProcessesInv
<1>4. ASSUME Migrate \/ Provision \/ KeepSecret \/ UseBuild \/ Build \/ WriteSentinel
             \/ WaitForWeb \/ Wipe
      PROVE  ProcessesInv'
  <2>0. runner \in Runners
    BY <1>0 DEF ShapesOK
  <2>1. /\ UNCHANGED <<processes, records, orphaned, unseen>>
        /\ serial' = serial \/ serial' = serial + 1
        /\ \/ runner.at = "migrate" /\ runner'.at = "spawn"
           \/ runner.at = "provision" /\ runner'.at = "keep"
           \/ runner.at = "keep" /\ runner'.at = "fingerprint"
           \/ runner.at = "fingerprint" /\ runner'.at = "spawn" /\ runner'.of = "web"
           \/ runner.at = "fingerprint" /\ runner'.at = "sentinel"
           \/ runner.at = "sentinel" /\ runner'.at = "spawn" /\ runner'.of = "web"
           \/ runner.at = "site" /\ runner'.at = "spawn" /\ runner'.of = "simulator"
           \/ runner.at = "wipe" /\ runner'.at = "clear"
    BY <2>0, <1>4 DEF Migrate, Provision, KeepSecret, UseBuild, Build, WriteSentinel, WaitForWeb, Wipe, At,
       Go, GoTo, files, ghosts, counters, Runners
  <2> QED
    BY <1>a, <2>1 DEF NotYet, SimulatorTold, At, Servers
<1>5. ASSUME NEW c \in Components, Leave(c) PROVE ProcessesInv'
  <2>2. /\ c = "api" => runner'.at = "provision"
        /\ c = "web" => runner'.at = "site"
        /\ c = "simulator" => runner'.at = "idle"
    BY <1>0, <1>5, StartedPlace DEF Leave, ShapesOK
  <2>1. /\ UNCHANGED <<processes, records, orphaned, unseen, serial>>
        /\ runner.at = "spawn" /\ runner.of = c
        /\ \/ c = "api" /\ runner'.at = "provision"
           \/ runner'.at \in {"site", "idle"}
    BY <2>2, <1>5 DEF Leave, At, Components, files, ghosts, counters
  <2> QED
    BY <1>a, <2>1 DEF NotYet, SimulatorTold, At
<1>6. ASSUME NEW c \in Components, Spawn(c) PROVE ProcessesInv'
  <2> DEFINE new == [pid |-> serial, component |-> c, secret |-> runner.held, told |-> FALSE,
                 bound |-> FALSE]
  <2>1. /\ runner.at = "spawn" /\ runner.of = c /\ ~Running(c)
        /\ processes' = processes \cup {new}
        /\ serial' = serial + 1
        /\ UNCHANGED <<records, orphaned, unseen>>
    BY <1>6 DEF Spawn, At, files, ghosts
  <2>2. runner'.at = "record" /\ runner'.of = c /\ runner'.pid = serial
    BY <1>0, <1>6, <2>1 DEF Spawn, ShapesOK, Runners
  <2>3. new \in Process
    BY <1>0, <1>n DEF Process, ShapesOK, Runners
  <2>4. new.pid = serial /\ new.component = c /\ ~new.told
    OBVIOUS
  <2> HIDE DEF new
  <2>5. \A p \in processes : p.pid \in Nat /\ p.pid < serial /\ p.pid # serial
    BY <1>n DEF ProcessesInv, Process
  <2>6. \A d \in Components : records[d] # serial
    BY <1>0, <1>n, RunnerAssumption DEF ProcessesInv, ShapesOK, Serials
  <2>7. \A d \in Components : records'[d] # None => records'[d] < serial'
    BY <1>0, <1>n, <2>1 DEF ProcessesInv, ShapesOK, Serials
  <2>8. processes' \subseteq Process /\ \A p \in processes' : p.pid < serial'
    BY <1>n, <2>1, <2>3, <2>4, <2>5 DEF ProcessesInv
  <2>9. At("record")' =>
          /\ runner'.of \in Components /\ runner'.pid \in Nat /\ runner'.pid < serial'
          /\ \A p \in processes' : p.pid = runner'.pid => p.component = runner'.of /\ ~p.told
    BY <1>n, <2>1, <2>2, <2>4, <2>5
  <2>10. \A p, q \in processes' : p.pid = q.pid => p = q
    BY <2>1, <2>4, <2>5 DEF ProcessesInv
  <2>11. ASSUME NEW d \in Servers \ unseen PROVE ServerInv(d)'
    <3>1. d \in Components /\ ServerInv(d)
      BY DEF ProcessesInv, Servers, Components
    <3>2. d = c => NotYet(d) /\ \A p \in processes : ~Serves(p, d) /\ p.pid # records[d]
      BY <2>1, <3>1 DEF ServerInv, NotYet, At, Running
    <3>3. d # c => ~Serves(new, d)
      BY <2>4 DEF Serves
    <3>4. new.pid # records[d] /\ records' = records
      BY <2>1, <2>4, <2>6, <3>1
    <3>5. NotYet(d)' => NotYet(d) /\ d # c
      BY <2>1, <2>2 DEF NotYet, At
    <3>6. ASSUME NEW p \in processes', NEW q \in processes', Serves(p, d), Serves(q, d) \/ q.pid = records[d]
          PROVE  p = q
      <4>1. CASE d = c
        BY <2>1, <3>2, <3>4, <3>6, <4>1
      <4>2. CASE d # c
        BY <2>1, <3>1, <3>3, <3>4, <3>6, <4>2 DEF ServerInv
      <4> QED
        BY <4>1, <4>2
    <3>7. ASSUME NotYet(d)', NEW p \in processes', Serves(p, d) PROVE p.pid = records[d]
      BY <2>1, <3>1, <3>3, <3>5, <3>7 DEF ServerInv
    <3> QED
      BY <3>4, <3>6, <3>7 DEF ServerInv
  <2>12. ASSUME NEW p \in processes', p.component = "simulator", ~p.told
         PROVE  orphaned' \/ (~SimulatorTold' /\ p.pid = PidOnRecord')
    <3>1. ~SimulatorTold'
      BY <2>2 DEF SimulatorTold, At
    <3>2. CASE p = new
      BY <2>2, <2>4, <2>12, <3>1, <3>2 DEF PidOnRecord, At
    <3>3. CASE p \in processes
      <4>1. orphaned \/ p.pid = records["simulator"]
        BY <2>1, <2>12, <3>3 DEF ProcessesInv, PidOnRecord, At
      <4>2. CASE c = "simulator"
        BY <2>1, <3>3, <4>1, <4>2 DEF Running
      <4>3. CASE c # "simulator"
        BY <2>1, <2>2, <3>1, <4>1, <4>3 DEF PidOnRecord, At
      <4> QED
        BY <4>2, <4>3
    <3> QED
      BY <2>1, <3>2, <3>3
  <2> QED
    BY <2>1, <2>7, <2>8, <2>9, <2>10, <2>11, <2>12 DEF ProcessesInv
<1>7. ASSUME NEW c \in Components, Record(c) PROVE ProcessesInv'
  <2>1. /\ runner.at = "record" /\ runner.of = c
        /\ records' = [records EXCEPT ![c] = runner.pid]
        /\ UNCHANGED <<processes, serial, orphaned, unseen>>
    BY <1>7 DEF Record, At, counters, ghosts
  <2>2. \/ c = "api" /\ runner'.at = "provision"
        \/ c = "web" /\ runner'.at = "site"
        \/ c = "simulator" /\ runner'.at = "idle"
    BY <1>0, <1>7, StartedPlace DEF Record, ShapesOK, Components
  <2>3. records'[c] = runner.pid /\ \A d \in Components \ {c} : records'[d] = records[d]
    BY <1>0, <2>1 DEF ShapesOK
  <2>4. \A d \in Components : records'[d] # None => records'[d] < serial'
    BY <2>1, <2>3 DEF ProcessesInv, At
  <2>5. ASSUME NEW d \in Servers \ unseen PROVE ServerInv(d)'
    <3>1. d \in Components /\ ServerInv(d)
      BY DEF ProcessesInv, Servers, Components
    <3>2. d = c => \A q \in processes : q.pid = records'[d] => Serves(q, d)
      BY <2>1, <2>3 DEF ProcessesInv, At, Serves
    <3>3. d # c => records'[d] = records[d]
      BY <2>3, <3>1
    <3>4. NotYet(d)' => NotYet(d) /\ d # c
      BY <2>1, <2>2 DEF NotYet, At
    <3>5. ASSUME NEW p \in processes, NEW q \in processes, Serves(p, d), Serves(q, d) \/ q.pid = records'[d]
          PROVE  p = q
      BY <3>1, <3>2, <3>3, <3>5 DEF ServerInv
    <3>6. ASSUME NotYet(d)', NEW p \in processes, Serves(p, d) PROVE p.pid = records'[d]
      BY <3>1, <3>3, <3>4, <3>6 DEF ServerInv
    <3> QED
      BY <2>1, <3>5, <3>6 DEF ServerInv
  <2>6. ~SimulatorTold' /\ PidOnRecord' = PidOnRecord
    <3>1. ~At("record")' /\ ~SimulatorTold'
      BY <2>2 DEF At, SimulatorTold
    <3>2. PidOnRecord' = records'["simulator"]
      BY <3>1 DEF PidOnRecord
    <3>3. PidOnRecord = IF c = "simulator" THEN runner.pid ELSE records["simulator"]
      BY <2>1 DEF PidOnRecord, At
    <3> QED
      BY <2>3, <3>1, <3>2, <3>3 DEF Components
  <2>7. ~At("record")'
    BY <2>2 DEF At
  <2> QED
    BY <2>1, <2>4, <2>5, <2>6, <2>7 DEF ProcessesInv
<1>8. ASSUME NEW c \in Components, Terminate(c) PROVE ProcessesInv'
  <2> DEFINE told(p) == IF p.pid = records[c] THEN [p EXCEPT !.told = TRUE] ELSE p
  <2>0. processes \subseteq Process
    BY DEF ProcessesInv
  <2>1. /\ runner.at = "terminate" /\ c \in runner.of
        /\ c # "simulator" => "simulator" \notin runner.of
        /\ UNCHANGED <<records, serial, orphaned, unseen>>
        /\ \/ processes' = {told(p) : p \in processes}
           \/ ~Running(c) /\ processes' = processes
    BY <1>8 DEF Terminate, Terminated, At, files, counters, ghosts, Components
  <2>2. runner'.at = "forget" \/ (runner'.at = "terminate" /\ runner'.of = runner.of \ {c})
    BY <1>0, <1>8 DEF Terminate, Go, GoTo, ShapesOK, Runners
  <2>3. ASSUME NEW p \in processes
        PROVE  /\ told(p) \in Process
               /\ told(p).pid = p.pid /\ told(p).component = p.component
               /\ ~told(p).told => told(p) = p /\ p.pid # records[c]
    <3>1. p \in Process
      BY <2>0
    <3>2. CASE p.pid = records[c]
      <4>1. told(p) = [p EXCEPT !.told = TRUE]
        BY <3>2
      <4> HIDE DEF told
      <4>2. told(p) \in Process /\ told(p).pid = p.pid /\ told(p).component = p.component /\ told(p).told
        BY <3>1, <4>1 DEF Process
      <4> QED
        BY <4>2
    <3>3. CASE p.pid # records[c]
      BY <3>1, <3>3
    <3> QED
      BY <3>2, <3>3
  <2> HIDE DEF told
  <2>4. ASSUME NEW p \in processes'
        PROVE  \E o \in processes :
                 /\ p = told(o) \/ p = o
                 /\ p \in Process
                 /\ p.pid = o.pid /\ p.component = o.component
                 /\ ~p.told => p = o /\ p.pid # records[c]
    <3>1. CASE processes' = {told(o) : o \in processes}
      BY <2>3, <2>4, <3>1
    <3>2. CASE ~Running(c) /\ processes' = processes
      BY <2>0, <2>4, <3>2 DEF Running
    <3> QED
      BY <2>1, <3>1, <3>2
  <2>5. ASSUME NEW p \in processes', NEW q \in processes', NEW o \in processes,
               p = told(o) \/ p = o, q = told(o) \/ q = o
        PROVE  p = q
    <3>1. CASE processes' = {told(r) : r \in processes}
      <4>1. ASSUME NEW r \in processes', r = told(o) \/ r = o PROVE r = told(o)
        <5>1. PICK s \in processes : r = told(s)
          BY <3>1, <4>1
        <5>2. s.pid = o.pid
          BY <2>3, <4>1, <5>1
        <5> QED
          BY <5>1, <5>2 DEF ProcessesInv
      <4> QED
        BY <2>5, <4>1
    <3>2. CASE ~Running(c) /\ processes' = processes
      <4>1. told(o) = o
        BY <3>2 DEF told, Running
      <4> QED
        BY <2>5, <4>1
    <3> QED
      BY <2>1, <3>1, <3>2
  <2>6. processes' \subseteq Process /\ \A p \in processes' : p.pid < serial'
    BY <2>1, <2>4 DEF ProcessesInv
  <2>7. ASSUME NEW p \in processes', NEW q \in processes', p.pid = q.pid PROVE p = q
    BY <2>4, <2>5, <2>7 DEF ProcessesInv
  <2>8. ASSUME NEW d \in Servers \ unseen PROVE ServerInv(d)'
    <3>1. ServerInv(d) /\ records' = records
      BY <2>1 DEF ProcessesInv
    <3>2. ~NotYet(d)'
      BY <2>2 DEF NotYet, At
    <3>3. \A p \in processes' : \E o \in processes : o.pid = p.pid /\ (Serves(p, d) => Serves(o, d))
      BY <2>4 DEF Serves
    <3> QED
      BY <2>7, <3>1, <3>2, <3>3, ServersKeep
  <2>9. ASSUME NEW p \in processes', p.component = "simulator", ~p.told
         PROVE  orphaned' \/ (~SimulatorTold' /\ p.pid = PidOnRecord')
    <3>1. p \in processes /\ p.pid # records[c]
      BY <2>4, <2>9
    <3>2. orphaned \/ (~SimulatorTold /\ p.pid = records["simulator"])
      BY <2>1, <2>9, <3>1 DEF ProcessesInv, PidOnRecord, At
    <3>3. c # "simulator" => SimulatorTold
      BY <2>1 DEF SimulatorTold, At
    <3> QED
      BY <2>1, <3>1, <3>2, <3>3
  <2>10. ~At("record")'
    BY <2>2 DEF At
  <2> QED
    BY <2>1, <2>6, <2>7, <2>8, <2>9, <2>10 DEF ProcessesInv
<1>9. ASSUME Forget \/ Clear PROVE ProcessesInv'
  <2>1. /\ runner.at \in {"forget", "clear"}
        /\ \A c \in Components : records'[c] = None
        /\ UNCHANGED <<processes, serial, orphaned, unseen>>
    BY <1>9 DEF Forget, Clear, At, counters, ghosts
  <2>2. runner'.at \in {"idle", "wipe"}
    BY <1>0, <1>9 DEF Forget, Clear, Idle, Go, ShapesOK, Runners
  <2>3. \A p \in processes : p.pid # None
    BY RunnerAssumption DEF ProcessesInv, Process
  <2>4. ~At("record")' /\ \A c \in Servers : ~NotYet(c)'
    BY <2>2 DEF At, NotYet
  <2>5. SimulatorTold
    BY <2>1 DEF SimulatorTold, At
  <2>6. \A p \in processes : p.component = "simulator" /\ ~p.told => orphaned
    BY <2>5 DEF ProcessesInv
  <2>7. ASSUME NEW c \in Servers \ unseen PROVE ServerInv(c)'
    <3>1. ServerInv(c) /\ c \in Components
      BY DEF ProcessesInv, Servers, Components
    <3> QED
      BY <2>1, <2>3, <2>4, <3>1 DEF ServerInv
  <2> QED
    BY <2>1, <2>4, <2>6, <2>7 DEF ProcessesInv
<1>10. ASSUME Interrupt PROVE ProcessesInv'
  <2>1. /\ UNCHANGED <<processes, records, serial, unseen>>
        /\ runner'.at = "idle"
        /\ orphaned' = (orphaned \/ At("record"))
    BY <1>10 DEF Interrupt, Idle, files, counters
  <2>2. ~At("record")' /\ ~SimulatorTold' /\ \A c \in Servers : ~NotYet(c)'
    BY <2>1 DEF At, NotYet, SimulatorTold
  <2>3. ~At("record") => PidOnRecord' = PidOnRecord
    BY <2>1, <2>2 DEF PidOnRecord, At
  <2>4. orphaned \/ At("record") => orphaned'
    BY <2>1
  <2>5. ASSUME NEW p \in processes, p.component = "simulator", ~p.told, ~orphaned'
        PROVE  p.pid = PidOnRecord'
    <3>1. p.pid = PidOnRecord
      BY <2>4, <2>5 DEF ProcessesInv
    <3> QED
      BY <2>3, <2>4, <2>5, <3>1
  <2>6. \A c \in Servers \ unseen : ServerInv(c)'
    BY <2>1, <2>2, ServersKeep DEF ProcessesInv
  <2> QED
    BY <2>1, <2>2, <2>5, <2>6 DEF ProcessesInv
<1>11. ASSUME NEW p \in processes, End(p) PROVE ProcessesInv'
  <2>1. /\ processes' = processes \ {p}
        /\ UNCHANGED <<runner, records, serial, orphaned, unseen>>
    BY <1>11 DEF End, files, ghosts
  <2>2. \A c : NotYet(c)' = NotYet(c)
    BY <2>1 DEF NotYet, At
  <2>3. SimulatorTold' = SimulatorTold /\ PidOnRecord' = PidOnRecord /\ At("record")' = At("record")
    BY <2>1 DEF SimulatorTold, PidOnRecord, At
  <2>4. \A c \in Servers \ unseen : ServerInv(c)'
    BY <2>1, <2>2, ServersKeep DEF ProcessesInv
  <2> QED
    BY <2>1, <2>3, <2>4 DEF ProcessesInv
<1>13. ASSUME NEW p \in processes, Bind(p) PROVE ProcessesInv'
  <2>1. PICK new : new = [p EXCEPT !.bound = TRUE]
    OBVIOUS
  <2>2. /\ p.component \in Servers
        /\ processes' = (processes \ {p}) \cup {new}
        /\ UNCHANGED <<runner, records, serial, orphaned, unseen>>
    BY <1>13, <2>1 DEF Bind, files, ghosts, counters
  <2>3. p \in Process
    BY DEF ProcessesInv
  <2>4. /\ new \in Process
        /\ new.pid = p.pid /\ new.component = p.component /\ new.told = p.told
    BY <2>1, <2>3 DEF Process
  <2>5. new.component # "simulator"
    BY <2>2, <2>4 DEF Servers
  <2>6. \A q \in processes' : \E o \in processes :
          o.pid = q.pid /\ o.component = q.component /\ o.told = q.told
    BY <2>2, <2>4
  <2>7. \A q, r \in processes' : q.pid = r.pid => q = r
    BY <2>2, <2>4 DEF ProcessesInv
  <2>8. \A c : NotYet(c)' = NotYet(c)
    BY <2>2 DEF NotYet, At
  <2>9. SimulatorTold' = SimulatorTold /\ PidOnRecord' = PidOnRecord /\ At("record")' = At("record")
    BY <2>2 DEF SimulatorTold, PidOnRecord, At
  <2>10. ASSUME NEW c \in Servers \ unseen PROVE ServerInv(c)'
    <3>1. \A q \in processes' : \E o \in processes : o.pid = q.pid /\ (Serves(q, c) => Serves(o, c))
      BY <2>6 DEF Serves
    <3> QED
      BY <2>2, <2>7, <2>8, <3>1, ServersKeep DEF ProcessesInv
  <2> QED
    BY <2>2, <2>4, <2>5, <2>6, <2>7, <2>9, <2>10 DEF ProcessesInv
<1>12. ASSUME Restart PROVE ProcessesInv'
  <2>1. PICK reused \in SUBSET {c \in Components : records[c] # None} :
          processes' = {[pid |-> records[c], component |-> "other", secret |-> None, told |-> FALSE,
                           bound |-> FALSE] :
                          c \in reused}
    BY <1>12 DEF Restart
  <2>2. runner'.at = "idle" /\ UNCHANGED <<records, serial>>
    BY <1>12 DEF Restart, Idle, files
  <2>3. \A c \in reused : records[c] \in Nat /\ records[c] < serial
    BY <1>0 DEF ShapesOK, ProcessesInv, Serials
  <2>4. ASSUME NEW p \in processes'
        PROVE  /\ p \in Process /\ p.pid < serial /\ p.component = "other"
               /\ p = [pid |-> p.pid, component |-> "other", secret |-> None, told |-> FALSE,
                           bound |-> FALSE]
    <3>1. PICK c \in reused :
            p = [pid |-> records[c], component |-> "other", secret |-> None, told |-> FALSE,
                           bound |-> FALSE]
      BY <2>1
    <3>2. records[c] \in Nat /\ records[c] < serial
      BY <2>3
    <3>3. p.pid = records[c] /\ p.component = "other"
      BY <3>1
    <3>4. p \in Process
      BY <3>1, <3>2 DEF Process, Serials
    <3> QED
      BY <3>1, <3>2, <3>3, <3>4
  <2>5. \A p, q \in processes' : p.pid = q.pid => p = q
    BY <2>4
  <2>6. ~At("record")' /\ \A c \in Servers : ~NotYet(c)'
    BY <2>2 DEF At, NotYet
  <2>7. \A c \in Servers : ServerInv(c)'
    BY <2>4, <2>6 DEF ServerInv, Serves, Servers
  <2> QED
    BY <2>2, <2>4, <2>5, <2>6, <2>7 DEF ProcessesInv, Components
<1> QED
  BY <1>1, <1>2, <1>3, <1>4, <1>5, <1>6, <1>7, <1>8, <1>9, <1>10, <1>11, <1>12, <1>13 DEF RunnerNext

-----------------------------------------------------------------------------

\* A set whose elements are equal.
LEMMA AtMostOne ==
  ASSUME NEW S, \A p, q \in S : p = q
  PROVE  Cardinality(S) <= 1
<1>1. CASE S = {}
  BY <1>1, FS_EmptySet
<1>2. CASE S # {}
  <2>1. PICK p : p \in S
    BY <1>2
  <2>2. S = {p}
    BY <2>1
  <2>3. Cardinality({p}) = 1
    BY FS_Singleton
  <2> QED
    BY <2>2, <2>3
<1> QED
  BY <1>1, <1>2

LEMMA ProcessesAreOne == ProcessesInv => OneOfEach
<1> SUFFICES ASSUME ProcessesInv, NEW c \in Components, ~(c = "simulator" /\ orphaned), c \notin unseen
             PROVE  Cardinality({p \in processes : p.component = c /\ ~p.told}) <= 1
  BY DEF OneOfEach
<1>1. CASE c = "simulator"
  BY <1>1, AtMostOne DEF ProcessesInv
<1>2. CASE c # "simulator"
  BY <1>2, AtMostOne DEF ProcessesInv, ServerInv, Serves, Servers, Components
<1> QED
  BY <1>1, <1>2
=============================================================================
