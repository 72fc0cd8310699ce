---------------------------- MODULE ContainerHost ----------------------------
(***************************************************************************)
(* New-ContainerHost.ps1: PowerShell sessions on one Hyper-V host, each    *)
(* building a container-host VM.  The sessions share the cache of base and *)
(* WIM VHDs with its version markers, the ISO mount, the .wim files that   *)
(* pass through %TEMP%, one named kernel mutex per image name, and the     *)
(* host's table of VMs.                                                    *)
(*                                                                         *)
(* One action is one uninterrupted stretch of the script; a crash or a     *)
(* step of another session can fall between any two of them.  Long file    *)
(* writes take two actions, so that a partly written file is visible.      *)
(* A cmdlet error that is not -ErrorAction Stop does not end the script:   *)
(* the action then continues with the effect missing.                      *)
(***************************************************************************)
EXTENDS Naturals, FiniteSets

CONSTANTS
  Session,              \* PowerShell sessions that run the script
  NoSession,            \* stands for "no session"
  Vm,                   \* names passed as -VmName
  Version,              \* image versions: the script's "14300.1000", or the
                        \* one in the name of a VHD it is given
  VhdFile,              \* names of .vhdx files given as -VhdPath
  Requests,             \* Session -> argument lists given in that session
  WimSaveMode,          \* host build >= MinimumWimSaveBuild
  PowerShellDirectMode, \* host build >= MinimumPowerShellBuild
  MaxRuns,              \* bound: invocations of the script, in all sessions
  MaxCrashes,           \* bound: killed sessions plus host restarts
  MaxGuestFaults        \* bound: VMs whose guest drops a PS Direct session

Brand == {"NanoServer", "ServerDatacenter", "ServerDatacenterCore"}
Image == {"NanoServer", "WindowsServerCore"}
VhdName == Brand \cup VhdFile

\* Where the base VHD comes from: the ISO, or -VhdPath with a file's name or
\* with a link that names none.
Origin == {"iso", "link"} \cup VhdFile

Request ==
  [vm: Vm, brand: Brand, hyperv: BOOLEAN, origin: Origin,
   wimPath: BOOLEAN,              \* is a private .wim given?
   staging: BOOLEAN, version: Version]

ASSUME SessionAssumption == NoSession \notin Session
ASSUME RequestsAssumption ==
  Requests \in [Session -> SUBSET Request] /\ \A s \in Session : Requests[s] # {}
ASSUME ModeAssumption ==
  WimSaveMode \in BOOLEAN /\ PowerShellDirectMode \in BOOLEAN
ASSUME BoundAssumption ==
  MaxRuns \in Nat /\ MaxCrashes \in Nat /\ MaxGuestFaults \in Nat
ASSUME VersionAssumption == Version \cap {"absent", "partial"} = {}
ASSUME VhdFileAssumption == VhdFile \cap (Brand \cup {"iso", "link"}) = {}

ImageName(r) ==
  IF r.hyperv \/ r.brand = "NanoServer" THEN "NanoServer" ELSE "WindowsServerCore"

LocalVhd(r) == IF r.origin \in VhdFile THEN r.origin ELSE r.brand
LocalWim(r) == <<ImageName(r), r.version>>

\* A run for which the container image goes into a VHD of its own.
Saves(r) == WimSaveMode \/ r.wimPath

Running ==
  {"checkBase", "copyBase", "copyingBase", "getIso", "copyingIso", "mountIso",
   "convert", "dismountIso", "markBase", "checkWim", "staleWim",
   "removeWim", "newWim", "mountWim", "fillWim", "savingWim", "moveWim",
   "markWim", "dismountWim", "checkVm", "prepDisks", "waitMutex", "mountBoot",
   "editBoot", "dismountBoot", "releaseMutex", "newVm", "startVm",
   "heartbeat", "psDirect", "install", "verify"}
Ended == {"idle", "done", "failed"}
Critical == {"mountBoot", "editBoot", "dismountBoot", "releaseMutex"}
WithWim == {"fillWim", "savingWim", "moveWim", "markWim", "dismountWim"}

VARIABLES
  \* the host's VHD directory
  base,        \* VhdName -> "absent", "partial" or the version it holds
  baseMark,    \* versions with a ContainerVHDVersion.<version>.txt
  wim,         \* Image \X Version -> "absent", or what its VHD holds: "empty",
               \* the image, "saved", or another or torn .wim, "wrong"
  wimMark,     \* pairs with a <image>Version.<version>.txt
  wimMounted,  \* pairs whose WIM VHD is attached to the host
  temp,        \* %TEMP%: Image \X Version -> <image>-<version>.wim is
               \* "absent", "torn" or "whole"
  iso,         \* WindowsServerTP5.iso: "absent", "partial" or "present"
  isoMounted,  \* is the ISO attached to the host?
  \* the named mutexes
  holder,      \* Image -> owning session or NoSession
  abandoned,   \* images whose mutex lost its owner while others waited
  leaked,      \* Session -> images whose mutex it kept after its script ended
  \* virtual machines
  disk,        \* Vm -> the boot differencing disk, and the WIM one
  created,     \* Vm -> sessions whose New-VM made a VM of that name
  power,       \* Vm -> session whose VM runs, or NoSession
  guest,       \* Vm -> "off", "starting", "up" or "down" (session broken)
  install,     \* Vm -> "no", "err" (marker file present) or "ok"
  ready,       \* VMs announced ready for use as a container host
  \* the sessions
  pc, req,     \* Session -> next step; its arguments
  throwing,    \* Session -> an exception is unwinding through a finally
  bootVhd,     \* Session -> what it knows of its boot VHD: "made" by its
               \* New-VHD, "found" by Get-Vhd only, or "none" (null)
  \* used-up bounds
  runs, crashes,
  dropped      \* VMs whose guest has dropped a PS Direct session

baseVars  == <<base, baseMark>>
wimVars   == <<wim, wimMark, wimMounted, temp>>
isoVars   == <<iso, isoMounted>>
cacheVars == <<baseVars, wimVars, isoVars>>
lockVars  == <<holder, abandoned, leaked>>
vmVars    == <<created, power, guest, install, ready>>
hostVars  == <<lockVars, disk, vmVars>>
argVars   == <<req, bootVhd>>
boundVars == <<runs, crashes, dropped>>
restVars  == <<throwing, argVars, boundVars>>
vars == <<cacheVars, hostVars, pc, restVars>>

WimKey == Image \X Version
Disk == [boot: {"absent", "blank", "edited"}, base: VhdName, mounted: BOOLEAN,
         wim: SUBSET WimKey]

BaseOK == /\ base \in [VhdName -> {"absent", "partial"} \cup Version]
          /\ baseMark \in SUBSET Version
WimOK == /\ wim \in [WimKey -> {"absent", "empty", "wrong", "saved"}]
         /\ wimMark \in SUBSET WimKey
         /\ wimMounted \in SUBSET WimKey
         /\ temp \in [WimKey -> {"absent", "torn", "whole"}]
IsoOK == iso \in {"absent", "partial", "present"} /\ isoMounted \in BOOLEAN
LockOK == /\ holder \in [Image -> Session \cup {NoSession}]
          /\ abandoned \in SUBSET Image
          /\ leaked \in [Session -> SUBSET Image]
DiskOK == disk \in [Vm -> Disk]
VmOK == /\ created \in [Vm -> SUBSET Session]
        /\ power \in [Vm -> Session \cup {NoSession}]
        /\ guest \in [Vm -> {"off", "starting", "up", "down"}]
        /\ install \in [Vm -> {"no", "err", "ok"}]
        /\ ready \in SUBSET Vm
PcOK == pc \in [Session -> Running \cup Ended]
ThrowOK == throwing \in [Session -> BOOLEAN]
ArgsOK == /\ req \in [Session -> Request]
          /\ bootVhd \in [Session -> {"none", "found", "made"}]
BoundOK == /\ runs \in 0..MaxRuns
           /\ crashes \in 0..MaxCrashes
           /\ dropped \in SUBSET Vm

TypeOK == /\ BaseOK /\ WimOK /\ IsoOK
          /\ LockOK /\ DiskOK /\ VmOK
          /\ PcOK /\ ThrowOK /\ ArgsOK /\ BoundOK

NoDisk == [boot |-> "absent", base |-> "NanoServer", mounted |-> FALSE, wim |-> {}]

Init ==
  /\ base = [b \in VhdName |-> "absent"]
  /\ baseMark = {}
  /\ wim = [k \in WimKey |-> "absent"]
  /\ wimMark = {}
  /\ wimMounted = {}
  /\ temp = [k \in WimKey |-> "absent"]
  /\ iso = "absent"
  /\ isoMounted = FALSE
  /\ holder = [i \in Image |-> NoSession]
  /\ abandoned = {}
  /\ leaked = [s \in Session |-> {}]
  /\ disk = [v \in Vm |-> NoDisk]
  /\ created = [v \in Vm |-> {}]
  /\ power = [v \in Vm |-> NoSession]
  /\ guest = [v \in Vm |-> "off"]
  /\ install = [v \in Vm |-> "no"]
  /\ ready = {}
  /\ pc = [s \in Session |-> "idle"]
  /\ req = [s \in Session |-> CHOOSE r \in Requests[s] : TRUE]
  /\ throwing = [s \in Session |-> FALSE]
  /\ bootVhd = [s \in Session |-> "none"]
  /\ runs = 0
  /\ crashes = 0
  /\ dropped = {}

-----------------------------------------------------------------------------
(* Helpers *)

Goto(s, step) == pc' = [pc EXCEPT ![s] = step]
At(s, step, next) == pc[s] = step /\ Goto(s, next)
ImageOf(s) == ImageName(req[s])
VhdOf(s) == LocalVhd(req[s])
WimOf(s) == LocalWim(req[s])
VmOf(s) == req[s].vm

\* Mutant: the catch block does not rethrow.
AfterFinallyMutant(s, next) == next

\* Where a finally block continues: an exception goes on unwinding.
AfterFinally(s, next) == IF throwing[s] THEN "failed" ELSE next

\* A base VHD cannot be overwritten while a session writes it, or while a
\* child of it is attached to the host or to a running VM.
BeingWritten(b) ==
  \E t \in Session : pc[t] = "copyingBase" /\ VhdOf(t) = b
BaseLocked(b) ==
  \/ BeingWritten(b)
  \/ \E v \in Vm : /\ disk[v].boot # "absent" /\ disk[v].base = b
                   /\ disk[v].mounted \/ power[v] # NoSession

\* A handle of the mutex is open in another session: the kernel object
\* outlives its owner.
OpenElsewhere(s, i) ==
  \E t \in Session \ {s} :
    \/ i \in leaked[t]
    \/ pc[t] \in Critical \cup {"waitMutex"} /\ ImageOf(t) = i

-----------------------------------------------------------------------------
(* Cache-HostFiles: the base VHD *)

\* The prechecks (Test-Version, Test-Admin, EULA, external switch) have no
\* effect on the host; when one throws, the run ends before it began.
Begin(s) ==
  /\ pc[s] \in Ended /\ runs < MaxRuns
  /\ \E r \in Requests[s] : req' = [req EXCEPT ![s] = r]
  /\ \E step \in {"checkBase", "failed"} : Goto(s, step)
  /\ runs' = runs + 1
  /\ throwing' = [throwing EXCEPT ![s] = FALSE]
  /\ bootVhd' = [bootVhd EXCEPT ![s] = "none"]
  /\ UNCHANGED <<cacheVars, hostVars, crashes, dropped>>

\* "The latest <brand> VHD is already present on this system."
BasePresent(r) == base[LocalVhd(r)] # "absent" /\ r.version \in baseMark

CheckBase(s) ==
  /\ pc[s] = "checkBase"
  /\ Goto(s, IF BasePresent(req[s]) THEN "checkWim"
             ELSE IF req[s].origin = "iso" THEN "getIso" ELSE "copyBase")
  /\ UNCHANGED <<cacheVars, hostVars, restVars>>

\* The source may be out of reach, which throws.  Onto a locked file Copy-Item
\* only reports an error, where a download throws.
CopyBaseBegin(s) ==
  /\ pc[s] = "copyBase"
  /\ \/ /\ ~BaseLocked(VhdOf(s))
        /\ base' = [base EXCEPT ![VhdOf(s)] = "partial"]
        /\ Goto(s, "copyingBase")
     \/ /\ req[s].origin # "link" /\ BaseLocked(VhdOf(s))
        /\ Goto(s, "markBase") /\ UNCHANGED base
     \/ Goto(s, "failed") /\ UNCHANGED base
  /\ UNCHANGED <<baseMark, wimVars, isoVars, hostVars, restVars>>

\* Copy-Item that breaks off only reports it, and leaves no file; a download
\* that breaks off throws and leaves what it had written.
CopyBaseEnd(s) ==
  /\ pc[s] = "copyingBase"
  /\ \/ /\ base' = [base EXCEPT ![VhdOf(s)] = req[s].version]
        /\ Goto(s, "markBase")
     \/ /\ req[s].origin # "link"
        /\ base' = [base EXCEPT ![VhdOf(s)] = "absent"]
        /\ Goto(s, "markBase")
     \/ req[s].origin = "link" /\ Goto(s, "failed") /\ UNCHANGED base
  /\ UNCHANGED <<baseMark, wimVars, isoVars, hostVars, restVars>>

GetIso(s) ==
  /\ pc[s] = "getIso"
  /\ \/ iso # "absent" /\ Goto(s, "mountIso") /\ UNCHANGED iso
     \/ iso = "absent" /\ Goto(s, "copyingIso") /\ iso' = "partial"
     \/ iso = "absent" /\ Goto(s, "failed") /\ UNCHANGED iso
  /\ UNCHANGED <<baseVars, wimVars, isoMounted, hostVars, restVars>>

CopyIsoEnd(s) ==
  /\ pc[s] = "copyingIso"
  /\ \/ iso' \in {"present", "absent"} /\ Goto(s, "mountIso")
     \/ UNCHANGED iso /\ Goto(s, "failed")
  /\ UNCHANGED <<baseVars, wimVars, isoMounted, hostVars, restVars>>

\* The download of Convert-WindowsImage.ps1 may throw, before the mount.
MountIso(s) ==
  /\ pc[s] = "mountIso"
  /\ \/ /\ isoMounted' = (isoMounted \/ iso = "present")
        /\ Goto(s, "convert") /\ UNCHANGED throwing
     \/ /\ throwing' = [throwing EXCEPT ![s] = TRUE]
        /\ Goto(s, "dismountIso") /\ UNCHANGED isoMounted
  /\ UNCHANGED <<baseVars, wimVars, iso, hostVars, argVars, boundVars>>

\* Convert-WindowsImage catches its own errors and reports them with
\* Write-Error; New-NanoServerImage throws.
ConversionFails(s) ==
  /\ throwing' = [throwing EXCEPT ![s] = (req[s].brand = "NanoServer")]
  /\ Goto(s, "dismountIso")

\* The image is written under a temporary name, from the ISO attached at that
\* time, and renamed in the end: a conversion that fails or is killed leaves
\* what was there, and one that succeeds replaces it, unless it is in use.
Convert(s) ==
  /\ pc[s] = "convert"
  /\ \/ /\ isoMounted /\ ~BaseLocked(VhdOf(s))
        /\ base' = [base EXCEPT ![VhdOf(s)] = req[s].version]
        /\ Goto(s, "dismountIso") /\ UNCHANGED throwing
     \/ ConversionFails(s) /\ UNCHANGED base
  /\ UNCHANGED <<baseMark, wimVars, isoVars, hostVars, argVars, boundVars>>

\* The finally block detaches the ISO, whoever else is using it.
DismountIso(s) ==
  /\ pc[s] = "dismountIso"
  /\ isoMounted' = FALSE
  /\ Goto(s, AfterFinally(s, "markBase"))
  /\ UNCHANGED <<baseVars, wimVars, iso, hostVars, restVars>>

\* Mutant: the marker is named after the brand.
MarkBaseMutant(s) ==
  /\ At(s, "markBase", "checkWim")
  /\ baseMark' = baseMark \cup {req[s].brand}
  /\ UNCHANGED <<base, wimVars, isoVars, hostVars, restVars>>

MarkBase(s) ==
  /\ At(s, "markBase", "checkWim")
  /\ baseMark' = baseMark \cup {req[s].version}
  /\ UNCHANGED <<base, wimVars, isoVars, hostVars, restVars>>

-----------------------------------------------------------------------------
(* Cache-HostFiles: the VHD that carries the container image (WIM) *)

\* Mutant: the marker is not looked for.
WimPresentMutant(k) == wim[k] # "absent"

\* "... Container OS Image (WIM) is already present on this system."
WimPresent(k) == wim[k] # "absent" /\ k \in wimMark

CheckWim(s) ==
  /\ pc[s] = "checkWim"
  /\ Goto(s, IF Saves(req[s]) /\ ~WimPresent(WimOf(s))
             THEN "staleWim" ELSE "checkVm")
  /\ UNCHANGED <<cacheVars, hostVars, restVars>>

\* The second test of the same two files.
StaleWim(s) ==
  /\ pc[s] = "staleWim"
  /\ Goto(s, IF wim[WimOf(s)] # "absent" /\ WimOf(s) \notin wimMark
             THEN "removeWim" ELSE "newWim")
  /\ UNCHANGED <<cacheVars, hostVars, restVars>>

\* A running VM whose WIM child hangs off the VHD keeps the file open.
WimLocked(k) ==
  \/ k \in wimMounted
  \/ \E v \in Vm : k \in disk[v].wim /\ power[v] # NoSession

\* Remove-Item of an attached VHD only reports an error.
RemoveWim(s) ==
  /\ At(s, "removeWim", "newWim")
  /\ wim' = IF WimLocked(WimOf(s)) THEN wim ELSE [wim EXCEPT ![WimOf(s)] = "absent"]
  /\ UNCHANGED <<baseVars, wimMark, wimMounted, temp, isoVars, hostVars,
                 restVars>>

\* Mutant: the marker is written first.
NewWimMutant(s) ==
  /\ pc[s] = "newWim"
  /\ IF wim[WimOf(s)] # "absent"
       THEN Goto(s, "failed") /\ UNCHANGED <<wim, wimMark>>
       ELSE /\ Goto(s, "mountWim")
            /\ wim' = [wim EXCEPT ![WimOf(s)] = "empty"]
            /\ wimMark' = wimMark \cup {WimOf(s)}
  /\ UNCHANGED <<baseVars, wimMounted, temp, isoVars, hostVars, restVars>>

\* New-VHD does not replace a file: $dataVhdx is then null, and the first
\* cmdlet of the try block throws, as does the Dismount-VHD of its finally.
NewWim(s) ==
  /\ pc[s] = "newWim"
  /\ IF wim[WimOf(s)] # "absent"
       THEN Goto(s, "failed") /\ UNCHANGED wim
       ELSE Goto(s, "mountWim") /\ wim' = [wim EXCEPT ![WimOf(s)] = "empty"]
  /\ UNCHANGED <<baseVars, wimMark, wimMounted, temp, isoVars, hostVars,
                 restVars>>

\* The try block ends in its finally block.
ThrowToDismountWim(s) ==
  throwing' = [throwing EXCEPT ![s] = TRUE] /\ Goto(s, "dismountWim")

\* Without a mounted disk the first cmdlet of the try block throws.
MountWim(s) ==
  /\ pc[s] = "mountWim"
  /\ \/ /\ wim[WimOf(s)] # "absent" /\ WimOf(s) \notin wimMounted
        /\ wimMounted' = wimMounted \cup {WimOf(s)}
        /\ Goto(s, "fillWim") /\ UNCHANGED throwing
     \/ ThrowToDismountWim(s) /\ UNCHANGED wimMounted
  /\ UNCHANGED <<baseVars, wim, wimMark, temp, isoVars, hostVars, argVars,
                 boundVars>>

\* The disk is partitioned and formatted.  A private .wim is then copied onto
\* it, as the image; Save-ContainerImage writes one into %TEMP%, anew.
FillWim(s) ==
  LET k == WimOf(s) IN
  /\ pc[s] = "fillWim"
  /\ \/ /\ req[s].wimPath /\ k \in wimMounted
        /\ wim' = [wim EXCEPT ![k] = "saved"]
        /\ Goto(s, "markWim") /\ UNCHANGED <<temp, throwing>>
     \/ /\ ~req[s].wimPath
        /\ temp' = [temp EXCEPT ![k] = "torn"]
        /\ Goto(s, "savingWim") /\ UNCHANGED <<wim, throwing>>
     \/ ThrowToDismountWim(s) /\ UNCHANGED <<wim, temp>>
  /\ UNCHANGED <<baseVars, wimMark, wimMounted, isoVars, hostVars, argVars,
                 boundVars>>

\* -ErrorAction Stop: a download that breaks off throws, whatever it leaves.
SaveWimEnd(s) ==
  LET k == WimOf(s) IN
  /\ pc[s] = "savingWim"
  /\ \/ /\ temp' = [temp EXCEPT ![k] = "whole"]
        /\ Goto(s, "moveWim") /\ UNCHANGED throwing
     \/ /\ temp' \in {temp, [temp EXCEPT ![k] = "absent"]}
        /\ ThrowToDismountWim(s)
  /\ UNCHANGED <<baseVars, wim, wimMark, wimMounted, isoVars, hostVars, argVars,
                 boundVars>>

BeingSaved(k) == \E t \in Session : pc[t] = "savingWim" /\ WimOf(t) = k

\* Of all the *-*.wim in %TEMP% one gets the name on the volume, the others
\* find it taken and only report that.  Nothing moved is an error only for the
\* test that follows.
MoveWim(s) ==
  LET k == WimOf(s) IN
  /\ At(s, "moveWim", "markWim")
  /\ \/ /\ k \in wimMounted
        /\ \E j \in WimKey :
             /\ temp[j] # "absent" /\ ~BeingSaved(j)
             /\ temp' = [temp EXCEPT ![j] = "absent"]
             /\ wim' = [wim EXCEPT ![k] =
                          IF j = k /\ temp[j] = "whole" THEN "saved" ELSE "wrong"]
     \/ UNCHANGED <<temp, wim>>
  /\ UNCHANGED <<baseVars, wimMark, wimMounted, isoVars, hostVars, restVars>>

\* The marker is written only when a .wim is found on the volume.
MarkWim(s) ==
  LET k == WimOf(s) IN
  /\ pc[s] = "markWim"
  /\ IF k \in wimMounted /\ wim[k] \in {"wrong", "saved"}
       THEN /\ wimMark' = wimMark \cup {k}
            /\ Goto(s, "dismountWim") /\ UNCHANGED throwing
       ELSE ThrowToDismountWim(s) /\ UNCHANGED wimMark
  /\ UNCHANGED <<baseVars, wim, wimMounted, temp, isoVars, hostVars, argVars,
                 boundVars>>

\* Mutant: the dismount is not in a finally block.
DismountWimMutant(s) ==
  /\ At(s, "dismountWim", AfterFinally(s, "checkVm"))
  /\ wimMounted' = IF throwing[s] THEN wimMounted ELSE wimMounted \ {WimOf(s)}
  /\ UNCHANGED <<baseVars, wim, wimMark, temp, isoVars, hostVars, restVars>>

\* Detaches the VHD at that path, whoever attached it.
DismountWim(s) ==
  /\ At(s, "dismountWim", AfterFinally(s, "checkVm"))
  /\ wimMounted' = wimMounted \ {WimOf(s)}
  /\ UNCHANGED <<baseVars, wim, wimMark, temp, isoVars, hostVars, restVars>>

-----------------------------------------------------------------------------
(* New-ContainerHost: the disks and the boot VHD's offline edit *)

\* Mutant: the name is not checked.
VmExistsMutant(v) == FALSE
VmExists(v) == created[v] # {}

CheckVm(s) ==
  /\ At(s, "checkVm", IF VmExists(VmOf(s)) THEN "failed" ELSE "prepDisks")
  /\ UNCHANGED <<cacheVars, hostVars, restVars>>

DiskInUse(v) == disk[v].mounted \/ power[v] # NoSession

\* What the VM's WIM disk is a child of: a running VM keeps the one it has, and
\* no child can be made of a VHD that is missing or attached.
WimChild(s, v) ==
  IF ~Saves(req[s]) \/ power[v] # NoSession THEN disk[v].wim
  ELSE {k \in {WimOf(s)} : wim[k] # "absent" /\ k \notin wimMounted}

\* Both differencing disks are deleted and created anew.  A file in use is
\* neither deleted nor created; no child can be made of a VHD that is
\* missing or open for writing, and none need come of a partial one.
\* Get-Vhd then looks at whatever is at the boot disk's path, and the mutex
\* object is opened.
BootMade(s, v) ==
  LET childOfBase == base[VhdOf(s)] # "absent" /\ ~BeingWritten(VhdOf(s)) IN
  \E made \in {childOfBase, childOfBase /\ base[VhdOf(s)] # "partial"} :
    /\ disk' = [disk EXCEPT ![v].boot = IF made THEN "blank" ELSE "absent",
                            ![v].base = VhdOf(s), ![v].mounted = FALSE,
                            ![v].wim = WimChild(s, v)]
    /\ bootVhd' = [bootVhd EXCEPT ![s] = IF made THEN "made" ELSE "none"]

PrepDisks(s) ==
  LET v == VmOf(s) IN
  /\ At(s, "prepDisks", "waitMutex")
  /\ IF DiskInUse(v)
       THEN /\ disk' = [disk EXCEPT ![v].wim = WimChild(s, v)]
            /\ bootVhd' = [bootVhd EXCEPT ![s] = "found"]
       ELSE BootMade(s, v)
  /\ UNCHANGED <<cacheVars, lockVars, vmVars, throwing, req, boundVars>>

\* Mutant: no mutex.
MayOwnMutant(s, i) == TRUE

\* WaitOne.  An owner that died leaves AbandonedMutexException to the next
\* one, who owns the mutex but unwinds at once.  A session that leaked the
\* mutex owns it already: its thread enters again.
MayOwn(s, i) == holder[i] = NoSession \/ i \in leaked[s]

WaitOne(s) ==
  LET i == ImageOf(s) IN
  /\ pc[s] = "waitMutex" /\ MayOwn(s, i)
  /\ holder' = [holder EXCEPT ![i] = s]
  /\ abandoned' = abandoned \ {i}
  /\ throwing' = [throwing EXCEPT ![s] = i \in abandoned]
  /\ Goto(s, IF i \in abandoned THEN "dismountBoot" ELSE "mountBoot")
  /\ UNCHANGED <<cacheVars, leaked, disk, vmVars, argVars, boundVars>>

\* A mount that fails leaves no drive letter, and the copies below throw.
MountBoot(s) ==
  LET v == VmOf(s) IN
  /\ pc[s] = "mountBoot"
  /\ IF bootVhd[s] # "none" /\ disk[v].boot # "absent" /\ ~DiskInUse(v)
       THEN /\ disk' = [disk EXCEPT ![v].mounted = TRUE]
            /\ Goto(s, "editBoot") /\ UNCHANGED throwing
       ELSE /\ throwing' = [throwing EXCEPT ![s] = TRUE]
            /\ Goto(s, "dismountBoot") /\ UNCHANGED disk
  /\ UNCHANGED <<cacheVars, lockVars, vmVars, argVars, boundVars>>

\* Docker, unattend.xml and Install-ContainerHost.ps1 go onto the disk.  A
\* staged NanoServer also takes its packages from the ISO, attached and
\* detached here without regard to other sessions.
EditBoot(s) ==
  /\ At(s, "editBoot", "dismountBoot")
  /\ \/ /\ disk' = [disk EXCEPT ![VmOf(s)].boot = "edited"]
        /\ UNCHANGED throwing
     \/ throwing' = [throwing EXCEPT ![s] = TRUE] /\ UNCHANGED disk
  /\ isoMounted' = (isoMounted /\ ~(/\ req[s].brand = "NanoServer"
                                    /\ req[s].staging /\ iso # "absent"))
  /\ UNCHANGED <<baseVars, wimVars, iso, lockVars, vmVars, argVars, boundVars>>

\* Dismount-VHD -Path $null throws out of the finally block, past the
\* ReleaseMutex: the session keeps the mutex for as long as it lives.
DismountBoot(s) ==
  /\ pc[s] = "dismountBoot"
  /\ IF bootVhd[s] = "none"
       THEN /\ leaked' = [leaked EXCEPT ![s] = @ \cup {ImageOf(s)}]
            /\ Goto(s, "failed") /\ UNCHANGED disk
       ELSE /\ disk' = [disk EXCEPT ![VmOf(s)].mounted = FALSE]
            /\ Goto(s, "releaseMutex") /\ UNCHANGED leaked
  /\ UNCHANGED <<cacheVars, holder, abandoned, vmVars, restVars>>

\* Mutant: an exception skips the release.
NextHolderMutant(s, i) == IF throwing[s] THEN s ELSE NoSession

\* A thread that had entered once more than it released still owns it.
NextHolder(s, i) == IF i \in leaked[s] THEN s ELSE NoSession

ReleaseMutex(s) ==
  LET i == ImageOf(s) IN
  /\ At(s, "releaseMutex", AfterFinally(s, "newVm"))
  /\ holder' = [holder EXCEPT ![i] = NextHolder(s, i)]
  /\ UNCHANGED <<cacheVars, abandoned, leaked, disk, vmVars, restVars>>

-----------------------------------------------------------------------------
(* New-ContainerHost: the virtual machine *)

\* New-VM does not mind a name that is taken.  Without a boot VHD object its
\* arguments do not bind; without the file it only reports an error.
NewVm(s) ==
  LET v == VmOf(s) IN
  /\ pc[s] = "newVm"
  /\ Goto(s, IF bootVhd[s] # "made" THEN "failed"
             ELSE IF req[s].staging /\ req[s].brand = "NanoServer" THEN "done"
             ELSE "startVm")
  /\ created' = IF bootVhd[s] = "made" /\ disk[v].boot # "absent"
                  THEN [created EXCEPT ![v] = @ \cup {s}] ELSE created
  /\ UNCHANGED <<cacheVars, lockVars, disk, power, guest, install, ready,
                 restVars>>

StartVm(s) ==
  LET v == VmOf(s) IN
  /\ At(s, "startVm", "heartbeat")
  /\ IF s \in created[v] /\ disk[v].boot # "absent" /\ ~DiskInUse(v)
       THEN /\ power' = [power EXCEPT ![v] = s]
            /\ guest' = [guest EXCEPT ![v] = "starting"]
       ELSE UNCHANGED <<power, guest>>
  /\ UNCHANGED <<cacheVars, lockVars, disk, created, install, ready, restVars>>

\* A loop without a timeout.
Heartbeat(s) ==
  /\ power[VmOf(s)] = s /\ guest[VmOf(s)] = "up"
  /\ At(s, "heartbeat", IF PowerShellDirectMode THEN "psDirect" ELSE "done")
  /\ UNCHANGED <<cacheVars, hostVars, restVars>>

PsDirect(s) ==
  /\ pc[s] = "psDirect"
  /\ \/ guest[VmOf(s)] = "up" /\ Goto(s, "install")
     \/ Goto(s, "failed")                               \* after 30 minutes
  /\ UNCHANGED <<cacheVars, hostVars, restVars>>

\* Install-ContainerHost.ps1 leaves its .err file unless it ends well.  The
\* guest may also go down under it; Invoke-Command only reports that, and
\* likewise when the guest is out of reach to begin with.
Install(s) ==
  LET v == VmOf(s) IN
  /\ At(s, "install", "verify")
  /\ IF guest[v] = "up"
       THEN \E result \in {"ok", "err"} : install' = [install EXCEPT ![v] = result]
       ELSE UNCHANGED install
  /\ UNCHANGED <<cacheVars, lockVars, disk, created, power, guest, ready,
                 restVars>>

\* Mutant: the .err file is not asked for.
ScriptFailedMutant(v) == FALSE

\* $scriptFailed is null, hence false, when the question did not get through.
ScriptFailed(v) == guest[v] = "up" /\ install[v] = "err"

Verify(s) ==
  LET v == VmOf(s) IN
  /\ At(s, "verify", IF ScriptFailed(v) THEN "failed" ELSE "done")
  /\ ready' = IF ScriptFailed(v) THEN ready ELSE ready \cup {v}
  /\ disk' = IF ScriptFailed(v) \/ ~Saves(req[s]) THEN disk
             ELSE [disk EXCEPT ![v].wim = {}]
  /\ UNCHANGED <<cacheVars, lockVars, created, power, guest, install,
                 restVars>>

-----------------------------------------------------------------------------
(* The guests, and what goes wrong *)

\* A guest boots when its base VHD was written to the end.
GuestUp(v) ==
  /\ guest[v] \in {"starting", "down"} /\ base[disk[v].base] \in Version
  /\ guest' = [guest EXCEPT ![v] = "up"]
  /\ UNCHANGED <<cacheVars, lockVars, disk, created, power, install, ready,
                 pc, restVars>>

GuestDown(v) ==
  /\ guest[v] = "up" /\ v \notin dropped
  /\ Cardinality(dropped) < MaxGuestFaults
  /\ guest' = [guest EXCEPT ![v] = "down"]
  /\ dropped' = dropped \cup {v}
  /\ UNCHANGED <<cacheVars, lockVars, disk, created, power, install, ready,
                 pc, throwing, argVars, runs, crashes>>

Held(s) == {i \in Image : holder[i] = s}

\* Mutant: a dead owner keeps its mutexes.
DropMutexesMutant(s) ==
  leaked' = [leaked EXCEPT ![s] = {}] /\ UNCHANGED <<holder, abandoned>>

DropMutexes(s) ==
  /\ holder' = [i \in Image |-> IF i \in Held(s) THEN NoSession ELSE holder[i]]
  /\ abandoned' = {i \in abandoned \cup Held(s) : OpenElsewhere(s, i)}
  /\ leaked' = [leaked EXCEPT ![s] = {}]

\* The PowerShell process is killed: no finally block runs, VHDs and the ISO
\* stay attached, files stay as they are.
Crash(s) ==
  /\ pc[s] \in Running /\ crashes < MaxCrashes
  /\ Goto(s, "idle")
  /\ crashes' = crashes + 1
  /\ DropMutexes(s)
  /\ UNCHANGED <<cacheVars, disk, vmVars, throwing, argVars, runs, dropped>>

\* The finalizer closes the handle of a $mutex nobody refers to; the kernel
\* object, and its ownership, go when that was the last handle.
Finalize(s, i) ==
  /\ i \in leaked[s] /\ ~OpenElsewhere(s, i)
  /\ ~(pc[s] \in Critical \cup {"waitMutex"} /\ ImageOf(s) = i)
  /\ holder' = [holder EXCEPT ![i] = NoSession]
  /\ leaked' = [leaked EXCEPT ![s] = @ \ {i}]
  /\ UNCHANGED <<cacheVars, abandoned, disk, vmVars, pc, restVars>>

\* The operator closes a window whose script ended without releasing.
CloseSession(s) ==
  /\ pc[s] \in Ended /\ leaked[s] # {}
  /\ DropMutexes(s)
  /\ UNCHANGED <<cacheVars, disk, vmVars, pc, restVars>>

\* The host goes down: nothing stays attached, and VMs do not restart.
HostRestart ==
  /\ crashes < MaxCrashes
  /\ pc' = [s \in Session |-> "idle"]
  /\ crashes' = crashes + 1
  /\ holder' = [i \in Image |-> NoSession]
  /\ abandoned' = {}
  /\ leaked' = [s \in Session |-> {}]
  /\ wimMounted' = {}
  /\ isoMounted' = FALSE
  /\ disk' = [v \in Vm |-> [disk[v] EXCEPT !.mounted = FALSE]]
  /\ power' = [v \in Vm |-> NoSession]
  /\ guest' = [v \in Vm |-> "off"]
  /\ UNCHANGED <<baseVars, wim, wimMark, temp, iso, created, install, ready,
                 throwing, argVars, runs, dropped>>

ScriptStep(s) ==
  \/ CheckBase(s) \/ CopyBaseBegin(s) \/ CopyBaseEnd(s) \/ GetIso(s)
  \/ CopyIsoEnd(s) \/ MountIso(s) \/ Convert(s)
  \/ DismountIso(s) \/ MarkBase(s)
  \/ CheckWim(s) \/ StaleWim(s) \/ RemoveWim(s) \/ NewWim(s) \/ MountWim(s)
  \/ FillWim(s) \/ SaveWimEnd(s) \/ MoveWim(s) \/ MarkWim(s) \/ DismountWim(s)
  \/ CheckVm(s) \/ PrepDisks(s) \/ WaitOne(s) \/ MountBoot(s) \/ EditBoot(s)
  \/ DismountBoot(s) \/ ReleaseMutex(s)
  \/ NewVm(s) \/ StartVm(s) \/ Heartbeat(s) \/ PsDirect(s) \/ Install(s)
  \/ Verify(s)

Next ==
  \/ \E s \in Session : Begin(s) \/ ScriptStep(s) \/ Crash(s) \/ CloseSession(s)
  \/ \E s \in Session, i \in Image : Finalize(s, i)
  \/ \E v \in Vm : GuestUp(v) \/ GuestDown(v)
  \/ HostRestart

Spec == Init /\ [][Next]_vars

\* The script runs on and guests boot; nobody has to start a run, and
\* nothing has to break.
Fairness ==
  /\ \A s \in Session : WF_vars(ScriptStep(s))
  /\ \A v \in Vm : WF_vars(GuestUp(v))

FairSpec == Spec /\ Fairness

-----------------------------------------------------------------------------
(* Properties *)

\* A mutex belongs to the session that is between WaitOne and ReleaseMutex
\* for that image, or to one that lost its ReleaseMutex; and nobody is
\* between the two without owning it.
LockInv ==
  /\ \A s \in Session : pc[s] \in Critical => holder[ImageOf(s)] = s
  /\ \A s \in Session : \A i \in leaked[s] : holder[i] = s
  /\ \A i \in Image, s \in Session :
       holder[i] = s => i \in leaked[s] \/ (pc[s] \in Critical /\ ImageOf(s) = i)

\* Edit-BootVhd: sessions that build the same image are never at once in the
\* stretch the mutex guards, in which boot VHDs are attached and edited,
\* whatever crashes, throws or is abandoned.  (The VHD of a killed session
\* stays attached while another mounts its own.)
BootMountExclusion ==
  \A s, t \in Session :
    s # t /\ {pc[s], pc[t]} \subseteq Critical => ImageOf(s) # ImageOf(t)

\* The finally blocks detach on every way out of the try: unless a process
\* was killed, whatever is attached belongs to a session that is still
\* working on it.
CleanExit ==
  crashes = 0 =>
    /\ \A v \in Vm : disk[v].mounted =>
         \E s \in Session : VmOf(s) = v /\ pc[s] \in {"editBoot", "dismountBoot"}
    /\ \A k \in wimMounted :
         \E s \in Session : WimOf(s) = k /\ pc[s] \in WithWim
    /\ isoMounted =>
         \E s \in Session : pc[s] \in {"convert", "dismountIso"}

\* The check for the VM's name protects its disk: once a VM was created, no
\* later or other run replaces, edits or attaches the disk it boots from.
KeepsVmDisks ==
  \A v \in Vm : created[v] # {} =>
    /\ disk'[v].boot = disk[v].boot /\ disk'[v].base = disk[v].base
    /\ ~disk'[v].mounted
VmDiskStable == [][KeepsVmDisks]_vars

\* A VM is only ever made of a disk whose offline edit was completed, also
\* when edits fail, runs die half-way and are started again.
BuiltFromEdited == \A v \in Vm : created[v] # {} => disk[v].boot = "edited"

\* What makes the two hold when no two sessions are given the same VM name:
\* from the name check to New-VM the name has no VM, New-VM is only reached
\* with an edited disk, and a VM's disk is edited and detached.
DistinctVms ==
  \A s, t \in Session : s # t =>
    \A r \in Requests[s], q \in Requests[t] : r.vm # q.vm
Unnamed ==
  {"prepDisks", "waitMutex", "mountBoot", "editBoot", "dismountBoot",
   "releaseMutex", "newVm"}
DiskInv ==
  /\ \A s \in Session : req[s] \in Requests[s]
  /\ \A s \in Session : pc[s] \in Unnamed => created[VmOf(s)] = {}
  /\ \A v \in Vm : created[v] # {} => disk[v].boot = "edited" /\ ~disk[v].mounted
  /\ \A s \in Session :
       \/ pc[s] \in {"dismountBoot", "releaseMutex"} /\ ~throwing[s]
       \/ pc[s] = "newVm"
       => disk[VmOf(s)].boot = "edited"
  /\ \A s \in Session :
       pc[s] \in {"releaseMutex", "newVm"} => ~disk[VmOf(s)].mounted

\* Of every VM name, the sessions together do nothing but what VmLifecycle
\* says: no run starts over for a name that has a VM, installs where nothing
\* runs, or goes on with a VM that was announced.
Life ==
  INSTANCE VmLifecycle WITH
    Base <- VhdName,
    disk <- [v \in Vm |-> [boot |-> disk[v].boot, base |-> disk[v].base]],
    made <- {v \in Vm : created[v] # {}},
    lost <- dropped,
    running <- {v \in Vm : power[v] # NoSession}
ImplementsLifecycle == Life!Spec

\* "This file indicates the web version of the image WIM VHD": the VHD beside
\* the marker, if there is one, is not one that was left empty.  Which .wim it
\* holds the marker does not tell: see MoveWim.
WimMarkerTruthful == \A k \in wimMark : wim[k] # "empty"

\* When Install-ContainerHost.ps1 is started in a guest, the VM has a WIM disk,
\* unless a process was killed and kept the parent attached; and what the WIM
\* disk is a child of is a VHD that was filled, also after kills.
InstallFindsImage ==
  \A s \in Session : pc[s] = "install" /\ Saves(req[s]) =>
    /\ crashes = 0 => WimOf(s) \in disk[VmOf(s)].wim
    /\ \A k \in disk[VmOf(s)].wim : wim[k] \in {"wrong", "saved"}

\* "This file indicates the web version of the base VHD", "The latest ... VHD
\* is already present": the base VHD that a run takes from the cache because
\* of its marker was written to the end.
BaseMarkerTruthful ==
  \A s \in Session :
    pc[s] = "checkBase" /\ BasePresent(req[s]) => base[VhdOf(s)] = req[s].version

\* "VM ... is ready for use as a container host" is said of a VM in which the
\* install script ended well.
ReadyMeansInstalled == \A v \in ready : install[v] = "ok"

\* "Protect this with a mutex": a session whose script has ended does not
\* keep other sessions of the same image name out.
MutexReleased == \A s \in Session : pc[s] \in Ended => Held(s) = {}

\* A run comes to an end, or hangs in one of two places: its VM never sends
\* a heartbeat (no VM, or a base VHD that does not boot), or another session
\* took the mutex to its grave.
HangsOnlyAt ==
  \A s \in Session :
    \/ []<>(pc[s] \in Ended)
    \/ <>[](/\ pc[s] = "heartbeat"
            /\ \/ power[VmOf(s)] # s
               \/ base[disk[VmOf(s)].base] \notin Version)
    \/ <>[](/\ pc[s] = "waitMutex"
            /\ \E t \in Session \ {s} : ImageOf(s) \in leaked[t])

=============================================================================
