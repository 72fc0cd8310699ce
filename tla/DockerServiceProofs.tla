------------------------- MODULE DockerServiceProofs -------------------------
(***************************************************************************)
(* Proofs about DockerService: its types, and what a run of the script     *)
(* that nothing disturbs leaves behind, for any sessions and bounds.       *)
(***************************************************************************)
EXTENDS DockerService, TLAPS

\* Whoever copies an executable is alone with it, and the daemon is down.
CopyInv ==
  \A s \in Session :
    /\ pc[s] = "copyingDocker" =>
         docker = Partial /\ \A t \in Session \ {s} : pc[t] # "copyingDocker"
    /\ pc[s] = "copyingDockerd" =>
         /\ dockerd = Partial /\ service \in {"absent", "stopped"}
         /\ \A t \in Session \ {s} : pc[t] # "copyingDockerd"

Alone(s) == \A t \in Session \ {s} : ~Inside(t)

\* The service, seen from where a run stands that nothing disturbs.
ServiceFor(s) ==
  /\ pc[s] = "testDocker" => service \in {"absent", "stopped", "running"}
  /\ pc[s] = "stopDocker" => ~install[s] /\ service \in {"stopped", "running"}
  /\ pc[s] = "stopping" => ~install[s] /\ service \in {"stopping", "stopped"}
  /\ pc[s] \in {"copyDocker", "copyingDocker", "copyDockerd", "copyingDockerd"} =>
       service = IF install[s] THEN "absent" ELSE "stopped"
  /\ pc[s] = "register" => install[s] /\ service = "absent"
  /\ pc[s] = "writeSettings" => install[s] /\ service = "stopped"
  /\ pc[s] = "startDocker" => service = "stopped"
  /\ pc[s] = "starting" => service \in {"starting", "running"}
  /\ pc[s] \in {"waitDocker", "listImages"} => install[s] /\ service = "running"

Renewed(file, s) == file \in Version /\ since[s] <= file

Last ==
  {"register", "writeSettings", "startDocker", "starting", "waitDocker", "listImages"}

\* The executables, seen from there.
FilesFor(s) ==
  /\ Inside(s) => since[s] <= offered
  /\ pc[s] \in Last \cup {"copyDockerd", "copyingDockerd"} => Renewed(docker, s)
  /\ pc[s] \in Last => Renewed(dockerd, s)

Undisturbed(s) ==
  Inside(s) /\ ~disturbed[s] => Alone(s) /\ ServiceFor(s) /\ FilesFor(s)

RunOK(s) ==
  /\ Inside(s) => outcome[s] = "none"
  /\ Undisturbed(s)
  /\ outcome[s] = "error" /\ ~disturbed[s] => ~configDir

RunInv == \A s \in Session : RunOK(s)

IInv == TypeOK /\ CopyInv /\ RunInv

--------------------------------------------------------------------------
\* Types.

USE DEF Version, File, Source, Up, Complete, Inside, Goto, Ends, Continues, runVars,
        NoFault, Fault

\* The types that Zenon is asked about, and those left to SMT.
BoolOK ==
  /\ hung \in BOOLEAN /\ settings \in BOOLEAN /\ configDir \in BOOLEAN
  /\ install \in [Session -> BOOLEAN] /\ disturbed \in [Session -> BOOLEAN]
RestOK ==
  /\ docker \in File /\ dockerd \in File
  /\ service \in {"absent", "stopped"} \cup Up
  /\ offered \in Version
  /\ pc \in [Session -> Label] /\ from \in [Session -> [docker: Source, dockerd: Source]]
  /\ outcome \in [Session -> {"none", "well", "error", "killed"}]
  /\ since \in [Session -> Version]
  /\ runs \in 0..MaxRuns /\ faults \in 0..MaxFaults
  /\ service \in Up => Complete(dockerd)

LEMMA TypeParts == TypeOK <=> BoolOK /\ RestOK
  BY DEF TypeOK, BoolOK, RestOK

LEMMA TypePartsNext == TypeOK' <=> BoolOK' /\ RestOK'
  BY DEF TypeOK, BoolOK, RestOK

LEMMA DisturbedTyped ==
  ASSUME NEW d \in [Session -> BOOLEAN], NoFault \/ Fault, disturbed = d
  PROVE  disturbed' \in [Session -> BOOLEAN]
<1>1. CASE NoFault  BY <1>1
<1>2. CASE Fault
  <2>1. disturbed' = [s \in Session |-> disturbed[s] \/ pc[s] # "idle"]
    BY <1>2
  <2>2. \A s \in Session : (disturbed[s] \/ pc[s] # "idle") \in BOOLEAN
    OBVIOUS
  <2> QED BY <2>1, <2>2, Zenon
<1> QED BY <1>1, <1>2

\* A run that ends leaves its variables typed.
LEMMA ForgetTyped ==
  ASSUME TypeOK, NEW S, Forget(S)
  PROVE  /\ from' \in [Session -> [docker: Source, dockerd: Source]]
         /\ install' \in [Session -> BOOLEAN]
         /\ since' \in [Session -> Version]
<1>1. from' \in [Session -> [docker: Source, dockerd: Source]]
  BY DEF TypeOK, Forget, AnyFrom
<1>2. install' \in [Session -> BOOLEAN]
  <2>1. install' = [s \in Session |-> s \notin S /\ install[s]]
    BY DEF Forget
  <2>2. \A s \in Session : (s \notin S /\ install[s]) \in BOOLEAN
    OBVIOUS
  <2> QED BY <2>1, <2>2, Zenon
<1>3. since' \in [Session -> Version]
  BY DockerAssumption DEF TypeOK, Forget
<1> QED BY <1>1, <1>2, <1>3

\* So does a copy that fails, which ends its run or goes on with it.
LEMMA FailsTyped ==
  ASSUME TypeOK, NEW s \in Session, DockerFails(s) \/ DockerdFails(s)
  PROVE  /\ pc' \in [Session -> Label]
         /\ from' \in [Session -> [docker: Source, dockerd: Source]]
         /\ install' \in [Session -> BOOLEAN]
         /\ outcome' \in [Session -> {"none", "well", "error", "killed"}]
         /\ since' \in [Session -> Version]
<1>1. \/ UNCHANGED <<from, install, since, outcome>>
      \/ Forget({s}) /\ outcome' = [outcome EXCEPT ![s] = "error"]
  BY DEF DockerFails, DockerdFails
<1>2. pc' \in [Session -> Label]
  BY DEF DockerFails, DockerdFails, TypeOK, Label
<1>3. UNCHANGED <<from, install, since>> \/ Forget({s})  BY <1>1
<1>4. /\ from' \in [Session -> [docker: Source, dockerd: Source]]
      /\ install' \in [Session -> BOOLEAN] /\ since' \in [Session -> Version]
  BY <1>3, ForgetTyped, Zenon DEF TypeOK
<1> QED BY <1>1, <1>2, <1>4 DEF TypeOK

LEMMA InitIInv ==
  ASSUME Init
  PROVE  IInv
<1> USE DockerAssumption
<1>1. TypeOK
  <2>1. hung \in BOOLEAN /\ settings \in BOOLEAN /\ configDir \in BOOLEAN
    BY Zenon DEF Init
  <2>2. install \in [Session -> BOOLEAN] /\ disturbed \in [Session -> BOOLEAN]
    BY Zenon DEF Init
  <2>3. 1 \in Version  OBVIOUS
  <2>4. docker \in File /\ dockerd \in File /\ offered \in Version
    BY <2>3 DEF Init
  <2>5. /\ pc \in [Session -> Label]
        /\ from \in [Session -> [docker: Source, dockerd: Source]]
        /\ outcome \in [Session -> {"none", "well", "error", "killed"}]
    BY DEF Init, Label, AnyFrom
  <2>6. since \in [Session -> Version]
    BY <2>3 DEF Init
  <2>7. /\ service \in {"absent", "stopped"} \cup Up
        /\ service \in Up => Complete(dockerd)
        /\ runs \in 0..MaxRuns /\ faults \in 0..MaxFaults
    BY <2>3 DEF Init
  <2> QED BY <2>1, <2>2, <2>4, <2>5, <2>6, <2>7, Zenon DEF TypeOK
<1>2. CopyInv  BY DEF Init, CopyInv
<1>3. RunInv  BY DEF Init, RunInv, RunOK, Undisturbed
<1> QED BY <1>1, <1>2, <1>3 DEF IInv

LEMMA BeginKeeps ==
  ASSUME IInv, NEW s \in Session, Begin(s)
  PROVE  TypeOK' /\ CopyInv'
<1> USE DockerAssumption DEF IInv
<1>1. TypeOK'
  <2>1. BoolOK'
    BY TypeParts, DisturbedTyped, ForgetTyped DEF BoolOK, Begin, fileVars, serviceVars
  <2>2. RestOK'
    BY TypeParts, ForgetTyped DEF RestOK, Label, Begin, fileVars, serviceVars
  <2> QED BY <2>1, <2>2, TypePartsNext
<1>2. CopyInv'  BY DEF Begin, TypeOK, CopyInv, fileVars, serviceVars
<1> QED BY <1>1, <1>2

LEMMA StopKeeps ==
  ASSUME IInv, NEW s \in Session, TestDocker(s) \/ StopDocker(s) \/ Stopped(s)
  PROVE  TypeOK' /\ CopyInv'
<1> USE DockerAssumption DEF IInv
<1>1. CASE TestDocker(s)
  <2>1. TypeOK'
    <3>1. BoolOK'
      BY <1>1, TypeParts, DisturbedTyped, ForgetTyped
        DEF BoolOK, TestDocker, fileVars, serviceVars
    <3>2. RestOK'
      BY <1>1, TypeParts, ForgetTyped
        DEF RestOK, Label, TestDocker, fileVars, serviceVars
    <3> QED BY <3>1, <3>2, TypePartsNext
  <2>2. CopyInv'  BY <1>1 DEF TestDocker, TypeOK, CopyInv, fileVars, serviceVars
  <2> QED BY <2>1, <2>2
<1>2. CASE StopDocker(s)
  <2>1. TypeOK'
    <3>1. BoolOK'
      BY <1>2, TypeParts, DisturbedTyped, ForgetTyped DEF BoolOK, StopDocker, fileVars
    <3>2. RestOK'
      BY <1>2, TypeParts, ForgetTyped DEF RestOK, Label, StopDocker, fileVars
    <3> QED BY <3>1, <3>2, TypePartsNext
  <2>2. CopyInv'  BY <1>2 DEF StopDocker, TypeOK, CopyInv, fileVars
  <2> QED BY <2>1, <2>2
<1>3. CASE Stopped(s)
  <2>1. TypeOK'
    <3>1. BoolOK'
      BY <1>3, TypeParts, DisturbedTyped, ForgetTyped
        DEF BoolOK, Stopped, fileVars, serviceVars
    <3>2. RestOK'
      BY <1>3, TypeParts, ForgetTyped
        DEF RestOK, Label, Stopped, fileVars, serviceVars
    <3> QED BY <3>1, <3>2, TypePartsNext
  <2>2. CopyInv'  BY <1>3 DEF Stopped, TypeOK, CopyInv, fileVars, serviceVars
  <2> QED BY <2>1, <2>2
<1> QED BY <1>1, <1>2, <1>3

LEMMA CopyDockerKeeps ==
  ASSUME IInv, NEW s \in Session, CopyDockerBegin(s) \/ CopyDockerEnd(s)
  PROVE  TypeOK' /\ CopyInv'
<1> USE DockerAssumption DEF IInv, serviceVars
<1>1. CASE CopyDockerBegin(s)
  <2> USE <1>1 DEF CopyDockerBegin, DockerLocked
  <2>1. TypeOK'
    <3>1. BoolOK'
      BY TypeParts, DisturbedTyped, FailsTyped DEF BoolOK
    <3>2. RestOK'
      BY TypeParts, FailsTyped DEF RestOK, Label
    <3> QED BY <3>1, <3>2, TypePartsNext
  <2>2. CopyInv'  BY DEF TypeOK, CopyInv, DockerFails
  <2> QED BY <2>1, <2>2
<1>2. CASE CopyDockerEnd(s)
  <2> USE <1>2 DEF CopyDockerEnd
  <2>1. TypeOK'
    <3>1. BoolOK'
      BY TypeParts, DisturbedTyped, FailsTyped DEF BoolOK
    <3>2. RestOK'
      BY TypeParts, FailsTyped DEF RestOK, Label
    <3> QED BY <3>1, <3>2, TypePartsNext
  <2>2. CopyInv'  BY DEF TypeOK, CopyInv, DockerFails
  <2> QED BY <2>1, <2>2
<1> QED BY <1>1, <1>2

LEMMA CopyDockerdKeeps ==
  ASSUME IInv, NEW s \in Session, CopyDockerdBegin(s) \/ CopyDockerdEnd(s)
  PROVE  TypeOK' /\ CopyInv'
<1> USE DockerAssumption DEF IInv, serviceVars
<1>1. CASE CopyDockerdBegin(s)
  <2> USE <1>1 DEF CopyDockerdBegin, DockerdLocked
  <2>1. TypeOK'
    <3>1. BoolOK'
      BY TypeParts, DisturbedTyped, FailsTyped DEF BoolOK
    <3>2. RestOK'
      BY TypeParts, FailsTyped DEF RestOK, Label
    <3> QED BY <3>1, <3>2, TypePartsNext
  <2>2. CopyInv'  BY DEF TypeOK, CopyInv, DockerdFails
  <2> QED BY <2>1, <2>2
<1>2. CASE CopyDockerdEnd(s)
  <2> USE <1>2 DEF CopyDockerdEnd
  <2>1. TypeOK'
    <3>1. BoolOK'
      BY TypeParts, DisturbedTyped, FailsTyped DEF BoolOK, CopyInv
    <3>2. RestOK'
      BY TypeParts, FailsTyped DEF RestOK, Label, CopyInv
    <3> QED BY <3>1, <3>2, TypePartsNext
  <2>2. CopyInv'  BY DEF TypeOK, CopyInv, DockerdFails
  <2> QED BY <2>1, <2>2
<1> QED BY <1>1, <1>2

LEMMA StartKeeps ==
  ASSUME IInv, NEW s \in Session,
         \/ Register(s) \/ WriteSettings(s) \/ StartDocker(s) \/ Started(s)
         \/ WaitDocker(s) \/ ListImages(s)
  PROVE  TypeOK' /\ CopyInv'
<1> USE DockerAssumption DEF IInv, fileVars, serviceVars
<1>1. CASE Register(s)
  <2>1. TypeOK'
    <3>1. BoolOK'
      BY <1>1, TypeParts, DisturbedTyped, ForgetTyped DEF BoolOK, Register
    <3>2. RestOK'
      BY <1>1, TypeParts, ForgetTyped DEF RestOK, Label, Register
    <3> QED BY <3>1, <3>2, TypePartsNext
  <2>2. CopyInv'  BY <1>1 DEF Register, TypeOK, CopyInv
  <2> QED BY <2>1, <2>2
<1>2. CASE WriteSettings(s)
  <2>1. TypeOK'
    <3>1. BoolOK'
      BY <1>2, TypeParts, DisturbedTyped, ForgetTyped DEF BoolOK, WriteSettings
    <3>2. RestOK'
      BY <1>2, TypeParts, ForgetTyped DEF RestOK, Label, WriteSettings
    <3> QED BY <3>1, <3>2, TypePartsNext
  <2>2. CopyInv'  BY <1>2 DEF WriteSettings, TypeOK, CopyInv
  <2> QED BY <2>1, <2>2
<1>3. CASE StartDocker(s)
  <2>1. TypeOK'
    <3>1. BoolOK'
      BY <1>3, TypeParts, DisturbedTyped, ForgetTyped
        DEF BoolOK, StartDocker, AfterStart
    <3>2. RestOK'
      BY <1>3, TypeParts, ForgetTyped DEF RestOK, Label, StartDocker, AfterStart
    <3> QED BY <3>1, <3>2, TypePartsNext
  <2>2. CopyInv'  BY <1>3 DEF StartDocker, AfterStart, TypeOK, CopyInv
  <2> QED BY <2>1, <2>2
<1>4. CASE WaitDocker(s)
  <2>1. TypeOK'
    <3>1. BoolOK'
      BY <1>4, TypeParts, DisturbedTyped, ForgetTyped DEF BoolOK, WaitDocker
    <3>2. RestOK'
      BY <1>4, TypeParts, ForgetTyped DEF RestOK, Label, WaitDocker
    <3> QED BY <3>1, <3>2, TypePartsNext
  <2>2. CopyInv'  BY <1>4 DEF WaitDocker, TypeOK, CopyInv
  <2> QED BY <2>1, <2>2
<1>5. CASE Started(s)
  <2>1. TypeOK'
    <3>1. BoolOK'
      BY <1>5, TypeParts, DisturbedTyped, ForgetTyped DEF BoolOK, Started, AfterStart
    <3>2. RestOK'
      BY <1>5, TypeParts, ForgetTyped DEF RestOK, Label, Started, AfterStart
    <3> QED BY <3>1, <3>2, TypePartsNext
  <2>2. CopyInv'  BY <1>5 DEF Started, AfterStart, TypeOK, CopyInv
  <2> QED BY <2>1, <2>2
<1>6. CASE ListImages(s)
  <2>1. TypeOK'
    <3>1. BoolOK'
      BY <1>6, TypeParts, DisturbedTyped, ForgetTyped DEF BoolOK, ListImages
    <3>2. RestOK'
      BY <1>6, TypeParts, ForgetTyped DEF RestOK, Label, ListImages
    <3> QED BY <3>1, <3>2, TypePartsNext
  <2>2. CopyInv'  BY <1>6 DEF ListImages, TypeOK, CopyInv
  <2> QED BY <2>1, <2>2
<1> QED BY <1>1, <1>2, <1>3, <1>4, <1>5, <1>6

LEMMA HostKeeps ==
  ASSUME IInv,
         \/ \E s \in Session : Crash(s)
         \/ ServiceStarts \/ ServiceStops \/ Hang \/ DaemonDies \/ HostRestart
         \/ NewVersion \/ UNCHANGED vars
  PROVE  TypeOK' /\ CopyInv'
<1> USE DockerAssumption DEF IInv, fileVars, serviceVars
<1>1. ASSUME NEW s \in Session, Crash(s)  PROVE TypeOK' /\ CopyInv'
  <2>1. TypeOK'
    <3>1. BoolOK'
      BY <1>1, TypeParts, DisturbedTyped, ForgetTyped DEF BoolOK, Crash
    <3>2. RestOK'
      BY <1>1, TypeParts, ForgetTyped DEF RestOK, Label, Crash
    <3> QED BY <3>1, <3>2, TypePartsNext
  <2>2. CopyInv'  BY <1>1 DEF Crash, TypeOK, CopyInv
  <2> QED BY <2>1, <2>2
<1>2. CASE ServiceStarts \/ ServiceStops
  BY <1>2 DEF ServiceStarts, ServiceStops, TypeOK, CopyInv
<1>3. CASE Hang
  BY <1>3 DEF Hang, TypeOK, CopyInv
<1>4. CASE DaemonDies
  <2>1. TypeOK'
    <3>1. BoolOK'
      BY <1>4, TypeParts, DisturbedTyped, ForgetTyped DEF BoolOK, DaemonDies
    <3>2. RestOK'
      BY <1>4, TypeParts, ForgetTyped DEF RestOK, DaemonDies
    <3> QED BY <3>1, <3>2, TypePartsNext
  <2>2. CopyInv'  BY <1>4 DEF DaemonDies, TypeOK, CopyInv
  <2> QED BY <2>1, <2>2
<1>5. CASE HostRestart
  <2>1. TypeOK'
    <3>1. BoolOK'
      BY <1>5, TypeParts, DisturbedTyped, ForgetTyped DEF BoolOK, HostRestart
    <3>2. RestOK'
      BY <1>5, TypeParts, ForgetTyped DEF RestOK, Label, HostRestart
    <3> QED BY <3>1, <3>2, TypePartsNext
  <2>2. CopyInv'  BY <1>5 DEF HostRestart, TypeOK, CopyInv
  <2> QED BY <2>1, <2>2
<1>6. CASE NewVersion
  BY <1>6 DEF NewVersion, TypeOK, CopyInv
<1>7. CASE UNCHANGED vars
  BY <1>7 DEF vars, TypeOK, CopyInv
<1> QED BY <1>1, <1>2, <1>3, <1>4, <1>5, <1>6, <1>7

--------------------------------------------------------------------------
\* Runs that nothing disturbs.

\* A run that stands beside another one is disturbed, and stays so.
LEMMA BesideKeeps ==
  ASSUME IInv, NEW s \in Session, Inside(s), NEW t \in Session \ {s},
         pc'[t] = pc[t], outcome'[t] = outcome[t], configDir' = configDir,
         NoFault \/ Fault
  PROVE  RunOK(t)'
<1>1. RunOK(t)  BY DEF IInv, RunInv
<1>2. Inside(t) => disturbed[t]
  BY <1>1 DEF RunOK, Undisturbed, Alone
<1>3. disturbed'[t] <=> disturbed[t] \/ (Fault /\ Inside(t))
  BY DEF IInv, TypeOK
<1> QED BY <1>1, <1>2, <1>3 DEF RunOK, Undisturbed

\* What is left to show of a step of a run: the run it belongs to.
LEMMA OwnStep ==
  ASSUME IInv, NEW s \in Session, Inside(s), RunOK(s)', configDir' = configDir,
         NoFault \/ Fault,
         \A t \in Session \ {s} : pc'[t] = pc[t] /\ outcome'[t] = outcome[t]
  PROVE  RunInv'
  BY BesideKeeps DEF RunInv

LEMMA OwnRun ==
  ASSUME IInv, NEW s \in Session
  PROVE  /\ Inside(s) => outcome[s] = "none"
         /\ Inside(s) /\ ~disturbed[s] => Alone(s) /\ ServiceFor(s) /\ FilesFor(s)
  BY DEF IInv, RunInv, RunOK, Undisturbed

LEMMA TestDockerRun ==
  ASSUME IInv, NEW s \in Session, TestDocker(s)
  PROVE  RunInv'
<1> USE OwnRun DEF IInv, TypeOK, TestDocker, fileVars, serviceVars
<1>1. CASE disturbed'[s]
  <2>1. RunOK(s)'  BY <1>1 DEF RunOK, Undisturbed
  <2> QED BY <2>1, OwnStep
<1>2. CASE ~disturbed'[s]
  <2>1. Inside(s) /\ ~disturbed[s] /\ ~Fault  BY <1>2
  <2>2. Alone(s) /\ Alone(s)'  BY <2>1 DEF Alone
  <2>3. ServiceFor(s)'  BY <2>1 DEF ServiceFor
  <2>4. FilesFor(s)'  BY <2>1 DEF ServiceFor, FilesFor, Renewed, Last
  <2> QED BY <2>1, <2>2, <2>3, <2>4, OwnStep DEF RunOK, Undisturbed
<1> QED BY <1>1, <1>2

LEMMA StopDockerRun ==
  ASSUME IInv, NEW s \in Session, StopDocker(s)
  PROVE  RunInv'
<1> USE OwnRun DEF IInv, TypeOK, StopDocker, fileVars
<1>1. CASE disturbed'[s]
  <2>1. RunOK(s)'  BY <1>1 DEF RunOK, Undisturbed
  <2> QED BY <2>1, OwnStep
<1>2. CASE ~disturbed'[s]
  <2>1. Inside(s) /\ ~disturbed[s] /\ ~Fault  BY <1>2
  <2>2. Alone(s) /\ Alone(s)'  BY <2>1 DEF Alone
  <2>3. ServiceFor(s)'  BY <2>1 DEF ServiceFor
  <2>4. FilesFor(s)'  BY <2>1 DEF ServiceFor, FilesFor, Renewed, Last
  <2> QED BY <2>1, <2>2, <2>3, <2>4, OwnStep DEF RunOK, Undisturbed
<1> QED BY <1>1, <1>2

LEMMA StoppedRun ==
  ASSUME IInv, NEW s \in Session, Stopped(s)
  PROVE  RunInv'
<1> USE OwnRun DEF IInv, TypeOK, Stopped, fileVars, serviceVars
<1>1. CASE disturbed'[s]
  <2>1. RunOK(s)'  BY <1>1 DEF RunOK, Undisturbed
  <2> QED BY <2>1, OwnStep
<1>2. CASE ~disturbed'[s]
  <2>1. Inside(s) /\ ~disturbed[s] /\ ~Fault  BY <1>2
  <2>2. Alone(s) /\ Alone(s)'  BY <2>1 DEF Alone
  <2>3. ServiceFor(s)'  BY <2>1 DEF ServiceFor
  <2>4. FilesFor(s)'  BY <2>1 DEF ServiceFor, FilesFor, Renewed, Last
  <2> QED BY <2>1, <2>2, <2>3, <2>4, OwnStep DEF RunOK, Undisturbed
<1> QED BY <1>1, <1>2

LEMMA CopyDockerBeginRun ==
  ASSUME IInv, NEW s \in Session, CopyDockerBegin(s)
  PROVE  RunInv'
<1> USE OwnRun
  DEF IInv, TypeOK, CopyDockerBegin, DockerFails, DockerLocked, DockerInUse, serviceVars
<1>1. CASE disturbed'[s]
  <2>1. RunOK(s)'  BY <1>1 DEF RunOK, Undisturbed
  <2> QED BY <2>1, OwnStep
<1>2. CASE ~disturbed'[s]
  <2>1. Inside(s) /\ ~disturbed[s] /\ ~Fault  BY <1>2
  <2>2. Alone(s) /\ Alone(s)'  BY <2>1 DEF Alone
  <2>3. pc'[s] = "copyingDocker" /\ UNCHANGED outcome  BY <2>1, <2>2 DEF Alone
  <2>4. ServiceFor(s)'  BY <2>1, <2>3 DEF ServiceFor
  <2>5. FilesFor(s)'  BY <2>1, <2>3 DEF ServiceFor, FilesFor, Renewed, Last
  <2> QED BY <2>1, <2>2, <2>3, <2>4, <2>5, OwnStep DEF RunOK, Undisturbed
<1> QED BY <1>1, <1>2

LEMMA CopyDockerEndRun ==
  ASSUME IInv, NEW s \in Session, CopyDockerEnd(s)
  PROVE  RunInv'
<1> USE OwnRun DEF IInv, TypeOK, CopyDockerEnd, DockerFails, serviceVars
<1>1. CASE disturbed'[s]
  <2>1. RunOK(s)'  BY <1>1 DEF RunOK, Undisturbed
  <2> QED BY <2>1, OwnStep
<1>2. CASE ~disturbed'[s]
  <2>1. Inside(s) /\ ~disturbed[s] /\ ~Fault  BY <1>2
  <2>2. Alone(s) /\ Alone(s)'  BY <2>1 DEF Alone
  <2>3. ServiceFor(s)'  BY <2>1 DEF ServiceFor
  <2>4. FilesFor(s)'  BY <2>1 DEF ServiceFor, FilesFor, Renewed, Last
  <2> QED BY <2>1, <2>2, <2>3, <2>4, OwnStep DEF RunOK, Undisturbed
<1> QED BY <1>1, <1>2

LEMMA CopyDockerdBeginRun ==
  ASSUME IInv, NEW s \in Session, CopyDockerdBegin(s)
  PROVE  RunInv'
<1> USE OwnRun
  DEF IInv, TypeOK, CopyDockerdBegin, DockerdFails, DockerdLocked, serviceVars
<1>1. CASE disturbed'[s]
  <2>1. RunOK(s)'  BY <1>1 DEF RunOK, Undisturbed
  <2> QED BY <2>1, OwnStep
<1>2. CASE ~disturbed'[s]
  <2>1. Inside(s) /\ ~disturbed[s] /\ ~Fault  BY <1>2
  <2>2. Alone(s) /\ Alone(s)'  BY <2>1 DEF Alone
  <2>3. pc'[s] = "copyingDockerd" /\ UNCHANGED outcome
    BY <2>1, <2>2 DEF Alone, ServiceFor
  <2>4. ServiceFor(s)'  BY <2>1, <2>3 DEF ServiceFor
  <2>5. FilesFor(s)'  BY <2>1, <2>3 DEF ServiceFor, FilesFor, Renewed, Last
  <2> QED BY <2>1, <2>2, <2>3, <2>4, <2>5, OwnStep DEF RunOK, Undisturbed
<1> QED BY <1>1, <1>2

LEMMA CopyDockerdEndRun ==
  ASSUME IInv, NEW s \in Session, CopyDockerdEnd(s)
  PROVE  RunInv'
<1> USE OwnRun DEF IInv, TypeOK, CopyDockerdEnd, DockerdFails, serviceVars
<1>1. CASE disturbed'[s]
  <2>1. RunOK(s)'  BY <1>1 DEF RunOK, Undisturbed
  <2> QED BY <2>1, OwnStep
<1>2. CASE ~disturbed'[s]
  <2>1. Inside(s) /\ ~disturbed[s] /\ ~Fault  BY <1>2
  <2>2. Alone(s) /\ Alone(s)'  BY <2>1 DEF Alone
  <2>3. ServiceFor(s)'  BY <2>1 DEF ServiceFor
  <2>4. FilesFor(s)'  BY <2>1 DEF ServiceFor, FilesFor, Renewed, Last
  <2> QED BY <2>1, <2>2, <2>3, <2>4, OwnStep DEF RunOK, Undisturbed
<1> QED BY <1>1, <1>2

LEMMA RegisterRun ==
  ASSUME IInv, NEW s \in Session, Register(s)
  PROVE  RunInv'
<1> USE OwnRun DEF IInv, TypeOK, Register, fileVars
<1>1. CASE disturbed'[s]
  <2>1. RunOK(s)'  BY <1>1 DEF RunOK, Undisturbed
  <2> QED BY <2>1, OwnStep
<1>2. CASE ~disturbed'[s]
  <2>1. Inside(s) /\ ~disturbed[s] /\ ~Fault  BY <1>2
  <2>2. Alone(s) /\ Alone(s)'  BY <2>1 DEF Alone
  <2>3. pc'[s] = "writeSettings" /\ UNCHANGED outcome
    BY <2>1 DEF FilesFor, Renewed, Last
  <2>4. ServiceFor(s)'  BY <2>1, <2>3 DEF ServiceFor
  <2>5. FilesFor(s)'  BY <2>1, <2>3 DEF ServiceFor, FilesFor, Renewed, Last
  <2> QED BY <2>1, <2>2, <2>3, <2>4, <2>5, OwnStep DEF RunOK, Undisturbed
<1> QED BY <1>1, <1>2

LEMMA WriteSettingsRun ==
  ASSUME IInv, NEW s \in Session, WriteSettings(s)
  PROVE  RunInv'
<1> USE OwnRun DEF IInv, TypeOK, WriteSettings, serviceVars
<1>1. CASE disturbed'[s]
  <2>1. RunOK(s)'  BY <1>1 DEF RunOK, Undisturbed
  <2> QED BY <2>1, OwnStep
<1>2. CASE ~disturbed'[s]
  <2>1. Inside(s) /\ ~disturbed[s] /\ ~Fault  BY <1>2
  <2>2. Alone(s) /\ Alone(s)'  BY <2>1 DEF Alone
  <2>3. ServiceFor(s)'  BY <2>1 DEF ServiceFor
  <2>4. FilesFor(s)'  BY <2>1 DEF ServiceFor, FilesFor, Renewed, Last
  <2> QED BY <2>1, <2>2, <2>3, <2>4, OwnStep DEF RunOK, Undisturbed
<1> QED BY <1>1, <1>2

LEMMA StartDockerRun ==
  ASSUME IInv, NEW s \in Session, StartDocker(s)
  PROVE  RunInv'
<1> USE OwnRun DEF IInv, TypeOK, StartDocker, AfterStart, fileVars
<1>1. CASE disturbed'[s]
  <2>1. RunOK(s)'  BY <1>1 DEF RunOK, Undisturbed
  <2> QED BY <2>1, OwnStep
<1>2. CASE ~disturbed'[s]
  <2>1. Inside(s) /\ ~disturbed[s] /\ ~Fault  BY <1>2
  <2>2. Alone(s) /\ Alone(s)'  BY <2>1 DEF Alone
  <2>3. Complete(dockerd)  BY <2>1 DEF FilesFor, Renewed, Last
  <2>4. ServiceFor(s)'  BY <2>1, <2>3 DEF ServiceFor
  <2>5. FilesFor(s)'  BY <2>1, <2>3 DEF ServiceFor, FilesFor, Renewed, Last
  <2> QED BY <2>1, <2>2, <2>3, <2>4, <2>5, OwnStep DEF RunOK, Undisturbed
<1> QED BY <1>1, <1>2

LEMMA StartedRun ==
  ASSUME IInv, NEW s \in Session, Started(s)
  PROVE  RunInv'
<1> USE OwnRun DEF IInv, TypeOK, Started, AfterStart, fileVars, serviceVars
<1>1. CASE disturbed'[s]
  <2>1. RunOK(s)'  BY <1>1 DEF RunOK, Undisturbed
  <2> QED BY <2>1, OwnStep
<1>2. CASE ~disturbed'[s]
  <2>1. Inside(s) /\ ~disturbed[s] /\ ~Fault  BY <1>2
  <2>2. Alone(s) /\ Alone(s)'  BY <2>1 DEF Alone
  <2>3. service = "running"  BY <2>1 DEF ServiceFor
  <2>4. ServiceFor(s)'  BY <2>1, <2>3 DEF ServiceFor
  <2>5. FilesFor(s)'  BY <2>1, <2>3 DEF ServiceFor, FilesFor, Renewed, Last
  <2> QED BY <2>1, <2>2, <2>3, <2>4, <2>5, OwnStep DEF RunOK, Undisturbed
<1> QED BY <1>1, <1>2

LEMMA WaitDockerRun ==
  ASSUME IInv, NEW s \in Session, WaitDocker(s)
  PROVE  RunInv'
<1> USE OwnRun DEF IInv, TypeOK, WaitDocker, Answers, Silent, fileVars, serviceVars
<1>1. CASE disturbed'[s]
  <2>1. RunOK(s)'  BY <1>1 DEF RunOK, Undisturbed
  <2> QED BY <2>1, OwnStep
<1>2. CASE ~disturbed'[s]
  <2>1. Inside(s) /\ ~disturbed[s] /\ ~Fault  BY <1>2
  <2>2. Alone(s) /\ Alone(s)'  BY <2>1 DEF Alone
  <2>3. Answers /\ pc'[s] = "listImages" /\ UNCHANGED outcome
    BY <2>1 DEF ServiceFor, FilesFor, Renewed, Last
  <2>4. ServiceFor(s)'  BY <2>1, <2>3 DEF ServiceFor
  <2>5. FilesFor(s)'  BY <2>1, <2>3 DEF ServiceFor, FilesFor, Renewed, Last
  <2> QED BY <2>1, <2>2, <2>3, <2>4, <2>5, OwnStep DEF RunOK, Undisturbed
<1> QED BY <1>1, <1>2

LEMMA ListImagesRun ==
  ASSUME IInv, NEW s \in Session, ListImages(s)
  PROVE  RunInv'
<1> USE OwnRun DEF IInv, TypeOK, ListImages, fileVars, serviceVars
<1>1. CASE disturbed'[s]
  <2>1. RunOK(s)'  BY <1>1 DEF RunOK, Undisturbed
  <2> QED BY <2>1, OwnStep
<1>2. CASE ~disturbed'[s]
  <2>1. Inside(s) /\ ~disturbed[s]  BY <1>2
  <2>2. outcome'[s] = "well" /\ pc'[s] = "idle"
    BY <2>1 DEF FilesFor, Renewed, Last
  <2> QED BY <2>1, <2>2, OwnStep DEF RunOK, Undisturbed
<1> QED BY <1>1, <1>2

LEMMA CrashRun ==
  ASSUME IInv, NEW s \in Session, Crash(s)
  PROVE  RunInv'
<1> USE OwnRun DEF IInv, TypeOK, Crash, fileVars, serviceVars
<1>1. CASE disturbed'[s]
  <2>1. RunOK(s)'  BY <1>1 DEF RunOK, Undisturbed
  <2> QED BY <2>1, OwnStep
<1>2. CASE ~disturbed'[s]
  <2>1. Inside(s) /\ ~disturbed[s] /\ ~Fault  BY <1>2
  <2>2. Alone(s) /\ Alone(s)'  BY <2>1 DEF Alone
  <2>3. ServiceFor(s)'  BY <2>1 DEF ServiceFor
  <2>4. FilesFor(s)'  BY <2>1 DEF ServiceFor, FilesFor, Renewed, Last
  <2> QED BY <2>1, <2>2, <2>3, <2>4, OwnStep DEF RunOK, Undisturbed
<1> QED BY <1>1, <1>2

\* A run that begins disturbs the others, and is undisturbed only when alone.
LEMMA BeginRun ==
  ASSUME IInv, NEW s \in Session, Begin(s)
  PROVE  RunInv'
<1> USE DEF IInv, TypeOK, Begin, fileVars, serviceVars
<1>1. RunOK(s)'
  <2>1. CASE disturbed'[s]
    BY <2>1 DEF RunOK, Undisturbed
  <2>2. CASE ~disturbed'[s]
    <3>1. service \notin {"starting", "stopping"} /\ \A t \in Session : ~Inside(t)  BY <2>2
    <3>2. Alone(s)'  BY <3>1 DEF Alone
    <3>3. ServiceFor(s)'  BY <3>1 DEF ServiceFor
    <3>4. FilesFor(s)'  BY <3>1 DEF FilesFor, Last
    <3> QED BY <3>2, <3>3, <3>4 DEF RunOK, Undisturbed
  <2> QED BY <2>1, <2>2
<1>2. ASSUME NEW t \in Session \ {s}  PROVE RunOK(t)'
  <2>1. RunOK(t)  BY DEF RunInv
  <2>2. Inside(t) => disturbed'[t]  OBVIOUS
  <2>3. ~disturbed'[t] => ~disturbed[t]  OBVIOUS
  <2> QED BY <2>1, <2>2, <2>3 DEF RunOK, Undisturbed
<1> QED BY <1>1, <1>2 DEF RunInv

\* After a fault every run that is under way is disturbed.
LEMMA FaultRun ==
  ASSUME IInv, Fault, UNCHANGED <<pc, outcome, configDir>>
  PROVE  RunInv'
<1> SUFFICES ASSUME NEW t \in Session  PROVE RunOK(t)'
  BY DEF RunInv
<1>1. RunOK(t)  BY DEF IInv, RunInv
<1>2. Inside(t) => disturbed'[t]  BY DEF IInv, TypeOK
<1>3. ~disturbed'[t] => ~disturbed[t]  BY DEF IInv, TypeOK
<1> QED BY <1>1, <1>2, <1>3 DEF RunOK, Undisturbed

LEMMA HostRun ==
  ASSUME IInv,
         \/ ServiceStarts \/ ServiceStops \/ Hang \/ DaemonDies \/ HostRestart
         \/ NewVersion \/ UNCHANGED vars
  PROVE  RunInv'
<1> USE DEF fileVars, serviceVars
<1>1. CASE ServiceStarts \/ ServiceStops
  <2> SUFFICES ASSUME NEW t \in Session  PROVE RunOK(t)'
    BY DEF RunInv
  <2>1. RunOK(t)  BY DEF IInv, RunInv
  <2>2. /\ \/ service = "starting" /\ service' = "running"
           \/ service = "stopping" /\ service' = "stopped"
        /\ UNCHANGED <<docker, dockerd, configDir, offered, pc, outcome, install,
                       since, disturbed>>
    BY <1>1 DEF ServiceStarts, ServiceStops
  <2>3. Inside(t) /\ ServiceFor(t) => ServiceFor(t)'
    BY <2>2 DEF ServiceFor, IInv, TypeOK, Label
  <2>4. Alone(t) /\ FilesFor(t) => Alone(t)' /\ FilesFor(t)'
    BY <2>2 DEF Alone, FilesFor, Renewed
  <2> QED BY <2>1, <2>2, <2>3, <2>4 DEF RunOK, Undisturbed
<1>2. CASE Hang \/ DaemonDies
  BY <1>2, FaultRun DEF Hang, DaemonDies
<1>3. CASE HostRestart
  <2> SUFFICES ASSUME NEW t \in Session  PROVE RunOK(t)'
    BY DEF RunInv
  <2>1. RunOK(t)  BY DEF IInv, RunInv
  <2>2. pc'[t] = "idle" /\ configDir' = configDir
    BY <1>3 DEF HostRestart
  <2>3. outcome'[t] = "error" => outcome[t] = "error"
    BY <1>3 DEF HostRestart
  <2>4. ~disturbed'[t] => ~disturbed[t]
    BY <1>3 DEF HostRestart, IInv, TypeOK
  <2> QED BY <2>1, <2>2, <2>3, <2>4 DEF RunOK, Undisturbed
<1>4. CASE NewVersion
  <2> SUFFICES ASSUME NEW t \in Session  PROVE RunOK(t)'
    BY DEF RunInv
  <2>1. RunOK(t)  BY DEF IInv, RunInv
  <2>2. /\ offered' = offered + 1
        /\ UNCHANGED <<docker, dockerd, service, configDir, pc, outcome, install,
                       since, disturbed>>
    BY <1>4 DEF NewVersion
  <2>3. Alone(t) /\ ServiceFor(t) => Alone(t)' /\ ServiceFor(t)'
    BY <2>2 DEF Alone, ServiceFor
  <2>4. FilesFor(t) => FilesFor(t)'
    BY <2>2 DEF FilesFor, Renewed, IInv, TypeOK
  <2> QED BY <2>1, <2>2, <2>3, <2>4 DEF RunOK, Undisturbed
<1>5. CASE UNCHANGED vars
  BY <1>5 DEF vars, IInv, RunInv, RunOK, Undisturbed, Alone, ServiceFor, FilesFor,
              Renewed
<1> QED BY <1>1, <1>2, <1>3, <1>4, <1>5

--------------------------------------------------------------------------
\* The theorems.

LEMMA StepIInv ==
  ASSUME IInv, [Next]_vars
  PROVE  IInv'
<1>1. ASSUME NEW s \in Session, Begin(s)  PROVE IInv'
  BY <1>1, BeginKeeps, BeginRun DEF IInv
<1>2. ASSUME NEW s \in Session, ScriptStep(s)  PROVE IInv'
  <2>1. TypeOK' /\ CopyInv'
    BY <1>2, StopKeeps, CopyDockerKeeps, CopyDockerdKeeps, StartKeeps DEF ScriptStep
  <2>2. RunInv'
    BY <1>2, TestDockerRun, StopDockerRun, StoppedRun, CopyDockerBeginRun,
       CopyDockerEndRun, CopyDockerdBeginRun, CopyDockerdEndRun, RegisterRun,
       WriteSettingsRun, StartDockerRun, StartedRun, WaitDockerRun, ListImagesRun
    DEF ScriptStep
  <2> QED BY <2>1, <2>2 DEF IInv
<1>3. ASSUME NEW s \in Session, Crash(s)  PROVE IInv'
  BY <1>3, HostKeeps, CrashRun DEF IInv
<1>4. CASE ServiceStarts \/ ServiceStops \/ Hang \/ DaemonDies \/ HostRestart \/ NewVersion
           \/ UNCHANGED vars
  BY <1>4, HostKeeps, HostRun DEF IInv
<1> QED BY <1>1, <1>2, <1>3, <1>4 DEF Next

LEMMA Invariant == Spec => []IInv
<1>1. Init => IInv  BY InitIInv
<1>2. IInv /\ [Next]_vars => IInv'  BY StepIInv
<1> QED BY <1>1, <1>2, PTL DEF Spec

\* Types, and that what runs or is being stopped is a whole program, however
\* many sessions copy, stop and start at once.
THEOREM DockerTypeCorrect == Spec => []TypeOK
<1>1. IInv => TypeOK  BY DEF IInv
<1> QED BY <1>1, Invariant, PTL

\* An undisturbed run of Update-ContainerHost never ends in an error where
\* daemon.json can be written.
THEOREM EndsWell == Spec => []UndisturbedEndsWell
<1>1. IInv => UndisturbedEndsWell
  BY DEF IInv, RunInv, RunOK, UndisturbedEndsWell
<1> QED BY <1>1, Invariant, PTL

\* A run ends well once the service has started or the images are listed, and
\* finds what the invariant says of an undisturbed run.
LEMMA StepRepairs ==
  ASSUME IInv, Next, NEW s \in Session
  PROVE  Repaired(s)
<1> SUFFICES ASSUME Inside(s), outcome'[s] = "well", ~disturbed'[s]
             PROVE  Repaired(s)
  BY DEF Repaired
<1>1. outcome[s] = "none"  BY OwnRun
<1>2. StartDocker(s) \/ Started(s) \/ ListImages(s)
  <2> USE <1>1 DEF IInv, TypeOK, fileVars, serviceVars
  <2>1. ASSUME NEW t \in Session, Begin(t) \/ Crash(t)  PROVE FALSE
    BY <2>1 DEF Begin, Crash
  <2>2. ASSUME NEW t \in Session, ScriptStep(t)
        PROVE  StartDocker(s) \/ Started(s) \/ ListImages(s)
    <3>1. CASE t # s
      BY <2>2, <3>1 DEF ScriptStep, TestDocker, StopDocker, Stopped, CopyDockerBegin,
         CopyDockerEnd, CopyDockerdBegin, CopyDockerdEnd, Register, WriteSettings,
         StartDocker, Started, WaitDocker, ListImages, DockerFails, DockerdFails, AfterStart
    <3>2. CASE t = s
      BY <2>2, <3>2 DEF ScriptStep, TestDocker, StopDocker, Stopped, CopyDockerBegin,
         CopyDockerEnd, CopyDockerdBegin, CopyDockerdEnd, Register, WriteSettings,
         WaitDocker, DockerFails, DockerdFails
    <3> QED BY <3>1, <3>2
  <2>3. CASE ServiceStarts \/ ServiceStops \/ Hang \/ DaemonDies \/ HostRestart \/ NewVersion
    BY <2>3 DEF ServiceStarts, ServiceStops, Hang, DaemonDies, HostRestart, NewVersion
  <2> QED BY <2>1, <2>2, <2>3 DEF Next
<1>3. ~disturbed[s] /\ ~Fault
  BY <1>2 DEF StartDocker, Started, ListImages, IInv, TypeOK
<1>4. ServiceFor(s) /\ FilesFor(s)  BY <1>3, OwnRun
<1>5. Renewed(docker, s) /\ Renewed(dockerd, s) /\ service' = "running"
  <2>1. Renewed(docker, s) /\ Renewed(dockerd, s)
    BY <1>2, <1>4 DEF StartDocker, Started, ListImages, FilesFor, Last
  <2>2. ~StartDocker(s)
    BY <1>1, <1>3, <1>4, <2>1 DEF StartDocker, ServiceFor, Renewed
  <2>3. service' = "running"
    BY <1>2, <1>4, <2>2 DEF Started, ListImages, ServiceFor, serviceVars
  <2> QED BY <2>1, <2>3
<1>6. UNCHANGED <<docker, dockerd>>
  BY <1>2 DEF StartDocker, Started, ListImages, fileVars
<1> QED BY <1>5, <1>6 DEF Repaired, Renewed, IInv, TypeOK

\* Whatever is on the host when it begins, half a file, a stopped service or
\* none, an undisturbed run that ends well leaves a running service and both
\* executables renewed.
THEOREM Repairs == Spec => RepairsUndisturbed
<1>1. IInv /\ [Next]_vars => [\A s \in Session : Repaired(s)]_vars
  <2>1. ASSUME IInv, Next, NEW s \in Session  PROVE Repaired(s)
    BY <2>1, StepRepairs
  <2> QED BY <2>1
<1> QED BY <1>1, Invariant, PTL DEF Spec, RepairsUndisturbed

--------------------------------------------------------------------------
\* What overlapping runs leave when nothing else fails.

\* Where a run still has the start of the service before it.
Ahead ==
  {"testDocker", "stopDocker", "stopping", "copyDocker", "copyingDocker", "copyDockerd",
   "copyingDockerd", "register", "writeSettings", "startDocker"}

\* Half a file is being written, a service has its program or is getting it, one
\* that starts or stops has been asked to, and one that is down is about to be
\* started or a run has told of an error.
Tended ==
  /\ docker = Partial => \E s \in Session : pc[s] = "copyingDocker"
  /\ dockerd = Partial => \E s \in Session : pc[s] = "copyingDockerd"
  /\ service # "absent" => dockerd # Absent
  /\ service = "starting" => \E s \in Session : pc[s] = "starting"
  /\ service = "stopping" => \E s \in Session : pc[s] = "stopping"
  /\ service \in {"stopped", "stopping"} =>
       \E s \in Session : pc[s] \in Ahead \/ outcome[s] = "error"

UpInv == faults = 0 /\ configDir => Tended

\* No step undoes a fault or makes the directory for daemon.json.
LEMMA StillFaultless ==
  ASSUME IInv, [Next]_vars, faults' = 0, configDir'
  PROVE  faults = 0 /\ configDir /\ ~Fault
<1>1. ~Fault  BY DEF IInv, TypeOK
<1>2. faults = 0 /\ configDir
  BY <1>1 DEF IInv, TypeOK, Next, ScriptStep, Begin, TestDocker, StopDocker, Stopped,
     CopyDockerBegin, CopyDockerEnd, CopyDockerdBegin, CopyDockerdEnd, Register,
     WriteSettings, StartDocker, Started, WaitDocker, ListImages, Crash, ServiceStarts,
     ServiceStops, Hang, DaemonDies, HostRestart, NewVersion, vars, fileVars
<1> QED BY <1>1, <1>2

\* A run that ends hands a service that is down to another run, or tells of it.
LEMMA TendedRun ==
  ASSUME IInv, Tended, configDir, ~Fault, NEW s \in Session,
         Begin(s) \/ ScriptStep(s)
  PROVE  Tended'
<1> USE DockerAssumption, OwnRun
  DEF IInv, TypeOK, Tended, Ahead, fileVars, serviceVars
<1>1. CASE Begin(s)  BY <1>1 DEF Begin
<1>2. CASE TestDocker(s)  BY <1>2 DEF TestDocker
<1>3. CASE StopDocker(s)  BY <1>3 DEF StopDocker
<1>4. CASE Stopped(s)  BY <1>4 DEF Stopped
<1>5. CASE CopyDockerBegin(s)
  BY <1>5 DEF CopyDockerBegin, DockerFails, DockerInUse, DockerLocked
<1>6. CASE CopyDockerEnd(s)  BY <1>6 DEF CopyDockerEnd
<1>7. CASE CopyDockerdBegin(s)
  BY <1>7 DEF CopyDockerdBegin, DockerdFails, DockerdLocked
<1>8. CASE CopyDockerdEnd(s)  BY <1>8 DEF CopyDockerdEnd
<1>9. CASE Register(s)  BY <1>9 DEF Register
<1>10. CASE WriteSettings(s)  BY <1>10 DEF WriteSettings
<1>11. CASE StartDocker(s)  BY <1>11 DEF StartDocker, AfterStart
<1>12. CASE Started(s)  BY <1>12 DEF Started, AfterStart
<1>13. CASE WaitDocker(s)  BY <1>13 DEF WaitDocker
<1>14. CASE ListImages(s)  BY <1>14 DEF ListImages
<1> QED BY <1>1, <1>2, <1>3, <1>4, <1>5, <1>6, <1>7, <1>8, <1>9, <1>10, <1>11,
           <1>12, <1>13, <1>14 DEF ScriptStep

LEMMA StepUp ==
  ASSUME IInv, UpInv, [Next]_vars
  PROVE  UpInv'
<1> SUFFICES ASSUME faults' = 0, configDir'  PROVE Tended'
  BY DEF UpInv
<1>1. Tended /\ configDir /\ ~Fault
  BY StillFaultless DEF UpInv
<1>2. ASSUME NEW s \in Session, Begin(s) \/ ScriptStep(s)  PROVE Tended'
  BY <1>1, <1>2, TendedRun
<1>3. \A s \in Session : ~Crash(s)  BY <1>1 DEF Crash
<1>4. ~Hang /\ ~DaemonDies /\ ~HostRestart
  BY <1>1 DEF Hang, DaemonDies, HostRestart
<1>5. CASE ServiceStarts \/ ServiceStops
  BY <1>1, <1>5 DEF ServiceStarts, ServiceStops, Tended, Ahead, fileVars
<1>6. CASE NewVersion
  BY <1>1, <1>6 DEF NewVersion, Tended, Ahead, fileVars, serviceVars
<1>7. CASE UNCHANGED vars  BY <1>1, <1>7 DEF vars, Tended
<1> QED BY <1>2, <1>3, <1>4, <1>5, <1>6, <1>7 DEF Next

\* Runs that overlap in any way, without a lock between them, leave whole
\* executables, and a service that runs unless one of them tells of an error, as
\* long as nothing fails by itself and daemon.json can be written.
THEOREM TogetherCorrect == Spec => []TogetherUp
<1>1. Init => UpInv
  BY DockerAssumption DEF Init, UpInv, Tended
<1>2. IInv /\ UpInv /\ [Next]_vars => UpInv'  BY StepUp
<1>3. IInv /\ UpInv => TogetherUp
  BY DEF IInv, TypeOK, UpInv, Tended, Ahead, TogetherUp
<1> QED BY <1>1, <1>2, <1>3, Invariant, PTL DEF Spec
=============================================================================
