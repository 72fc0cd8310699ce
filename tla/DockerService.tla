---------------------------- MODULE DockerService ----------------------------
(***************************************************************************)
(* Update-ContainerHost.ps1: the docker service of a host is stopped, its  *)
(* two executables replaced and the service started, or all of it          *)
(* installed where there is no service.                                    *)
(*                                                                         *)
(* Sessions run the script again and again and have no lock.  A cmdlet's   *)
(* error either ends the run or is only reported; the script may be        *)
(* killed, the daemon may die or refuse to stop, the host may restart.     *)
(***************************************************************************)
EXTENDS Naturals

CONSTANTS
  Session,
  Absent, Partial,   \* no file, half a file
  MaxVersion,   \* bound: versions the sources come to offer
  MaxRuns,      \* bound: runs of the script
  MaxFaults     \* bound: failures, kills and restarts

VARIABLES
  docker, dockerd,   \* docker.exe and dockerd.exe
  service,           \* the service, for the service control manager
  hung,              \* does the daemon answer nobody, and neither start nor stop?
  settings,          \* is there a daemon.json?
  configDir,         \* is there a directory for it?
  offered,           \* the version at the sources
  pc, from, install, \* where a run is, what each copy is of, its branch
  outcome,           \* how the last run of a session ended
  since,             \* the version offered when the run began
  disturbed,         \* a fault, another run or its stop during the run?
  runs, faults

Version == 1..MaxVersion
File == Version \cup {Absent, Partial}
Source == {"path", "url"}   \* a file, or a link to download

\* The daemon is a process.
Up == {"starting", "running", "stopping"}

ASSUME DockerAssumption ==
  /\ MaxVersion \in Nat \ {0} /\ MaxRuns \in Nat /\ MaxFaults \in Nat
  /\ Absent \notin Version /\ Partial \notin Version /\ Absent # Partial

fileVars == <<docker, dockerd, settings, configDir>>
serviceVars == <<service, hung>>
runVars == <<from, install, since>>
vars == <<docker, dockerd, service, hung, settings, configDir, offered, pc,
          from, install, outcome, since, disturbed, runs, faults>>

Complete(file) == file \in Version
Answers == service = "running" /\ ~hung /\ Complete(docker)

\* docker.exe runs, but the daemon it asks does not answer: it waits without end.
Silent == hung /\ Complete(docker)
Inside(s) == pc[s] # "idle"

--------------------------------------------------------------------------
\* Steps of a run.

Goto(s, label) == pc' = [pc EXCEPT ![s] = label]
Continues(s, label) == Goto(s, label) /\ UNCHANGED <<outcome, runVars>>

\* A run ends, and its variables with it.
AnyFrom == [docker |-> "url", dockerd |-> "url"]
Forget(S) ==
  /\ from' = [s \in Session |-> IF s \in S THEN AnyFrom ELSE from[s]]
  /\ install' = [s \in Session |-> s \notin S /\ install[s]]
  /\ since' = [s \in Session |-> IF s \in S THEN 1 ELSE since[s]]
Ends(s, how) ==
  Goto(s, "idle") /\ outcome' = [outcome EXCEPT ![s] = how] /\ Forget({s})

\* A fault disturbs every run that is under way.
NoFault == UNCHANGED <<faults, disturbed>>
Fault ==
  /\ faults < MaxFaults /\ faults' = faults + 1
  /\ disturbed' = [s \in Session |-> disturbed[s] \/ Inside(s)]

\* A run begins.  A run beside another one disturbs both, and so does a stop or
\* a start of the service that nobody has waited for.
Begin(s) ==
  /\ pc[s] = "idle" /\ runs < MaxRuns /\ runs' = runs + 1
  /\ \E sources \in [docker: Source, dockerd: Source] :
       from' = [from EXCEPT ![s] = sources]
  /\ since' = [since EXCEPT ![s] = offered]
  /\ Goto(s, "testDocker") /\ outcome' = [outcome EXCEPT ![s] = "none"]
  /\ LET beside == service \in {"starting", "stopping"} \/ \E t \in Session : Inside(t)
     IN disturbed' = [t \in Session |-> IF t = s THEN beside
                                        ELSE disturbed[t] \/ Inside(t)]
  /\ UNCHANGED <<fileVars, serviceVars, offered, install, faults>>

\* Mutant: the executable stands for the service.
TestDockerByFile(s) ==
  /\ pc[s] = "testDocker"
  /\ install' = [install EXCEPT ![s] = (dockerd = Absent)]
  /\ Goto(s, IF dockerd = Absent THEN "copyDocker" ELSE "stopDocker") /\ NoFault
  /\ UNCHANGED <<fileVars, serviceVars, offered, from, since, outcome, runs>>

TestDocker(s) ==
  /\ pc[s] = "testDocker"
  /\ install' = [install EXCEPT ![s] = (service = "absent")]
  /\ Goto(s, IF service = "absent" THEN "copyDocker" ELSE "stopDocker") /\ NoFault
  /\ UNCHANGED <<fileVars, serviceVars, offered, from, since, outcome, runs>>

\* Stop-Service asks, and waits for as long as the service is stopping.  An
\* error is only reported, one of them that it is stopping already or still
\* starting.
StopDocker(s) ==
  /\ pc[s] = "stopDocker"
  /\ \/ /\ service \in {"running", "stopped", "absent"} /\ NoFault
        /\ service' = IF service = "running" THEN "stopping" ELSE service
        /\ Continues(s, "stopping")
     \/ /\ service \in {"starting", "stopping"} /\ NoFault
        /\ Continues(s, "copyDocker") /\ UNCHANGED service
     \/ service = "running" /\ Fault /\ Continues(s, "copyDocker") /\ UNCHANGED service
  /\ UNCHANGED <<fileVars, hung, offered, runs>>

\* Mutant: nothing waits for the service to stop.
StoppedEarly(s) ==
  /\ pc[s] = "stopping"
  /\ Continues(s, "copyDocker") /\ NoFault
  /\ UNCHANGED <<fileVars, serviceVars, offered, runs>>

Stopped(s) ==
  /\ pc[s] = "stopping" /\ service # "stopping"
  /\ Continues(s, "copyDocker") /\ NoFault
  /\ UNCHANGED <<fileVars, serviceVars, offered, runs>>

\* A file that another run writes, or that runs, cannot be opened: docker.exe
\* now and then while a run waits for the daemon or lists its images.
DockerLocked(s) == \E t \in Session \ {s} : pc[t] = "copyingDocker"
DockerInUse(s) ==
  DockerLocked(s) \/ \E t \in Session \ {s} : pc[t] \in {"waitDocker", "listImages"}
DockerdLocked(s) ==
  service \in Up \/ \E t \in Session \ {s} : pc[t] = "copyingDockerd"

\* A copy that fails: a download throws, Copy-Item reports and goes on.  Only
\* the update takes a throw of the daemon's copy for a warning.
DockerFails(s) ==
  IF from[s].docker = "url" THEN Ends(s, "error") ELSE Continues(s, "copyDockerd")
DockerdFails(s) ==
  IF from[s].dockerd = "url" /\ install[s] THEN Ends(s, "error")
  ELSE Continues(s, IF install[s] THEN "register" ELSE "startDocker")

\* The copy of docker.exe: others can see half of it.
CopyDockerBegin(s) ==
  /\ pc[s] = "copyDocker"
  /\ \/ ~DockerLocked(s) /\ docker' = Partial /\ Continues(s, "copyingDocker") /\ NoFault
     \/ DockerInUse(s) /\ DockerFails(s) /\ NoFault /\ UNCHANGED docker
     \/ Fault /\ DockerFails(s) /\ UNCHANGED docker
  /\ UNCHANGED <<dockerd, settings, configDir, serviceVars, offered, runs>>

\* Copy-Item leaves no file when it breaks off, a download what it had written.
CopyDockerEnd(s) ==
  /\ pc[s] = "copyingDocker"
  /\ \/ docker' = offered /\ Continues(s, "copyDockerd") /\ NoFault
     \/ /\ docker' = IF from[s].docker = "url" THEN Partial ELSE Absent
        /\ Fault /\ DockerFails(s)
  /\ UNCHANGED <<dockerd, settings, configDir, serviceVars, offered, runs>>

CopyDockerdBegin(s) ==
  /\ pc[s] = "copyDockerd"
  /\ \/ ~DockerdLocked(s) /\ dockerd' = Partial /\ Continues(s, "copyingDockerd") /\ NoFault
     \/ DockerdLocked(s) /\ DockerdFails(s) /\ NoFault /\ UNCHANGED dockerd
     \/ Fault /\ DockerdFails(s) /\ UNCHANGED dockerd
  /\ UNCHANGED <<docker, settings, configDir, serviceVars, offered, runs>>

CopyDockerdEnd(s) ==
  /\ pc[s] = "copyingDockerd"
  /\ \/ /\ dockerd' = offered /\ NoFault
        /\ Continues(s, IF install[s] THEN "register" ELSE "startDocker")
     \/ /\ dockerd' = IF from[s].dockerd = "url" THEN Partial ELSE Absent
        /\ Fault /\ DockerdFails(s)
  /\ UNCHANGED <<docker, settings, configDir, serviceVars, offered, runs>>

\* dockerd --register-service: a file that is no program throws, a service
\* that is there already only makes an exit code nobody reads.
Register(s) ==
  /\ pc[s] = "register"
  /\ IF Complete(dockerd)
       THEN /\ service' = IF service = "absent" THEN "stopped" ELSE service
            /\ Continues(s, "writeSettings")
       ELSE Ends(s, "error") /\ UNCHANGED service
  /\ NoFault
  /\ UNCHANGED <<fileVars, hung, offered, runs>>

\* Out-File makes no directory.
WriteSettings(s) ==
  /\ pc[s] = "writeSettings"
  /\ IF configDir THEN settings' = TRUE /\ Continues(s, "startDocker")
     ELSE Ends(s, "error") /\ UNCHANGED settings
  /\ NoFault
  /\ UNCHANGED <<docker, dockerd, configDir, serviceVars, offered, runs>>

AfterStart(s) == IF install[s] THEN Continues(s, "waitDocker") ELSE Ends(s, "well")

\* Mutant: started without a look at the file.
StartDockerAnyway(s) ==
  /\ pc[s] = "startDocker" /\ Continues(s, "starting")
  /\ service' = "starting" /\ NoFault
  /\ UNCHANGED <<fileVars, hung, offered, runs>>

\* Mutant: only the update starts the service.
StartDockerUpdated(s) ==
  /\ pc[s] = "startDocker" /\ Continues(s, "starting")
  /\ service' = IF service = "stopped" /\ Complete(dockerd) /\ ~install[s]
                THEN "starting" ELSE service
  /\ NoFault
  /\ UNCHANGED <<fileVars, hung, offered, runs>>

\* Start-Service asks, and waits for as long as the service is starting, also
\* when another has asked.  It reports its errors and leaves a service alone
\* that is running.
StartDocker(s) ==
  /\ pc[s] = "startDocker"
  /\ \/ /\ service = "stopped" /\ Complete(dockerd) /\ NoFault
        /\ service' = "starting" /\ Continues(s, "starting")
     \/ /\ service = "starting" /\ NoFault
        /\ Continues(s, "starting") /\ UNCHANGED service
     \/ /\ service # "starting" /\ NoFault
        /\ service = "stopped" => ~Complete(dockerd)
        /\ AfterStart(s) /\ UNCHANGED service
     \/ service = "stopped" /\ Fault /\ AfterStart(s) /\ UNCHANGED service
  /\ UNCHANGED <<fileVars, hung, offered, runs>>

Started(s) ==
  /\ pc[s] = "starting" /\ service # "starting"
  /\ AfterStart(s) /\ NoFault
  /\ UNCHANGED <<fileVars, serviceVars, offered, runs>>

\* Mutant: asks without an end.
WaitDockerForever(s) ==
  /\ pc[s] = "waitDocker" /\ Answers
  /\ Continues(s, "listImages") /\ NoFault
  /\ UNCHANGED <<fileVars, serviceVars, offered, runs>>

\* Wait-Docker asks the daemon for its version until it answers; it looks at its
\* minute only when an attempt has failed.
WaitDocker(s) ==
  /\ pc[s] = "waitDocker" /\ ~Silent /\ NoFault
  /\ IF Answers THEN Continues(s, "listImages") ELSE Ends(s, "error")
  /\ UNCHANGED <<fileVars, serviceVars, offered, runs>>

\* docker images: only a docker.exe that is no program throws.
ListImages(s) ==
  /\ pc[s] = "listImages" /\ ~Silent /\ NoFault
  /\ Ends(s, IF Complete(docker) THEN "well" ELSE "error")
  /\ UNCHANGED <<fileVars, serviceVars, offered, runs>>

--------------------------------------------------------------------------
\* The host.

\* The daemon has started, or stopped; it does neither when it hangs.
ServiceStarts ==
  /\ service = "starting" /\ ~hung
  /\ service' = "running"
  /\ UNCHANGED <<fileVars, hung, offered, pc, outcome, runVars, runs, disturbed, faults>>

ServiceStops ==
  /\ service = "stopping" /\ ~hung
  /\ service' = "stopped"
  /\ UNCHANGED <<fileVars, hung, offered, pc, outcome, runVars, runs, disturbed, faults>>

Hang ==
  /\ service \in Up /\ ~hung /\ hung' = TRUE /\ Fault
  /\ UNCHANGED <<fileVars, service, offered, pc, outcome, runVars, runs>>

DaemonDies ==
  /\ service \in Up /\ Fault
  /\ service' = "stopped" /\ hung' = FALSE
  /\ UNCHANGED <<fileVars, offered, pc, outcome, runVars, runs>>

Crash(s) ==
  /\ Inside(s) /\ Fault /\ Ends(s, "killed")
  /\ UNCHANGED <<fileVars, serviceVars, offered, runs>>

\* The service starts with the host.
HostRestart ==
  /\ Fault /\ hung' = FALSE
  /\ service' = IF service = "absent" THEN service
                ELSE IF Complete(dockerd) THEN "starting" ELSE "stopped"
  /\ pc' = [s \in Session |-> "idle"]
  /\ outcome' = [s \in Session |-> IF Inside(s) THEN "killed" ELSE outcome[s]]
  /\ Forget(Session)
  /\ UNCHANGED <<fileVars, offered, runs>>

NewVersion ==
  /\ offered < MaxVersion /\ offered' = offered + 1
  /\ UNCHANGED <<fileVars, serviceVars, pc, outcome, runVars, runs, disturbed, faults>>

\* A host without docker, or with an older one.
Init ==
  /\ \/ /\ docker = Absent /\ dockerd = Absent /\ service = "absent"
        /\ settings = FALSE /\ configDir \in BOOLEAN
     \/ /\ docker = 1 /\ dockerd = 1 /\ service = "running"
        /\ settings = TRUE /\ configDir = TRUE
  /\ hung = FALSE /\ offered = 1 /\ faults = 0
  /\ pc = [s \in Session |-> "idle"] /\ from = [s \in Session |-> AnyFrom]
  /\ install = [s \in Session |-> FALSE] /\ outcome = [s \in Session |-> "none"]
  /\ since = [s \in Session |-> 1] /\ disturbed = [s \in Session |-> FALSE]
  /\ runs = 0

ScriptStep(s) ==
  \/ TestDocker(s) \/ StopDocker(s) \/ Stopped(s)
  \/ CopyDockerBegin(s) \/ CopyDockerEnd(s)
  \/ CopyDockerdBegin(s) \/ CopyDockerdEnd(s)
  \/ Register(s) \/ WriteSettings(s) \/ StartDocker(s) \/ Started(s)
  \/ WaitDocker(s) \/ ListImages(s)

Next ==
  \/ \E s \in Session : Begin(s) \/ ScriptStep(s) \/ Crash(s)
  \/ ServiceStarts \/ ServiceStops \/ Hang \/ DaemonDies \/ HostRestart \/ NewVersion

\* PowerShell runs on, and a daemon that does not hang starts and stops when
\* asked to.
Fairness ==
  /\ \A s \in Session : WF_vars(ScriptStep(s))
  /\ WF_vars(ServiceStarts) /\ WF_vars(ServiceStops)

Spec == Init /\ [][Next]_vars /\ Fairness

--------------------------------------------------------------------------
\* Properties.

Label ==
  {"idle", "testDocker", "stopDocker", "stopping", "copyDocker", "copyingDocker",
   "copyDockerd", "copyingDockerd", "register", "writeSettings", "startDocker",
   "starting", "waitDocker", "listImages"}

\* Every variable keeps its type; what runs is a whole program.
TypeOK ==
  /\ docker \in File /\ dockerd \in File
  /\ service \in {"absent", "stopped"} \cup Up
  /\ hung \in BOOLEAN /\ settings \in BOOLEAN /\ configDir \in BOOLEAN
  /\ offered \in Version
  /\ pc \in [Session -> Label] /\ from \in [Session -> [docker: Source, dockerd: Source]]
  /\ install \in [Session -> BOOLEAN]
  /\ outcome \in [Session -> {"none", "well", "error", "killed"}]
  /\ since \in [Session -> Version] /\ disturbed \in [Session -> BOOLEAN]
  /\ runs \in 0..MaxRuns /\ faults \in 0..MaxFaults
  /\ service \in Up => Complete(dockerd)

\* Whatever earlier runs, kills and restarts have left, a run that ends well,
\* beside no fault, no other run and no earlier run's stop, leaves the host with
\* a running service and both executables as new as when it began.
Repaired(s) ==
  Inside(s) /\ outcome'[s] = "well" /\ ~disturbed'[s]
    => /\ service' = "running"
       /\ Complete(docker') /\ docker' >= since[s]
       /\ Complete(dockerd') /\ dockerd' >= since[s]
RepairsUndisturbed == [][\A s \in Session : Repaired(s)]_vars

\* An undisturbed run always ends well where daemon.json can be written.  It
\* relies on a daemon that does not hang answering within Wait-Docker's minute.
UndisturbedEndsWell ==
  \A s \in Session : outcome[s] = "error" /\ ~disturbed[s] => ~configDir

\* Runs that get in each other's way, without a lock, never leave half an
\* executable, and a service that is down only when one of them tells of an
\* error, as long as nothing else fails.
TogetherUp ==
  faults = 0 /\ configDir /\ (\A s \in Session : ~Inside(s))
    => /\ Partial \notin {docker, dockerd}
       /\ service \in {"absent", "running"} \/ \E s \in Session : outcome[s] = "error"

\* A run ends, unless the daemon hangs: while it starts or stops, or when it is
\* to answer docker.exe.
RunEnds == \A s \in Session : Inside(s) ~> ~Inside(s) \/ hung
=============================================================================
