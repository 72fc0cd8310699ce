----------------------- MODULE ContainerHostVmProofs -----------------------
(***************************************************************************)
(* The VMs of New-ContainerHost.ps1 and their disks, in three parts.       *)
(*                                                                         *)
(* The disks, for sessions that are given different VM names: a VM is only *)
(* made of a disk whose offline edit was completed, and no run touches     *)
(* that disk afterwards.  DiskInv is the inductive invariant; DistinctVms  *)
(* is what the script needs, since it checks the name of a VM long before  *)
(* it makes one.                                                           *)
(*                                                                         *)
(* The announcement: a VM announced as a container host was installed      *)
(* without an error or its guest dropped a PowerShell session, for any     *)
(* number of sessions, also when they are given the same names and are     *)
(* killed at any point.  ContainerHostReady shows why the second case      *)
(* cannot be left out.                                                     *)
(*                                                                         *)
(* Together they make ContainerHost an implementation of VmLifecycle, if   *)
(* the sessions' VM names differ.                                          *)
(***************************************************************************)
EXTENDS ContainerHostProofs

--------------------------------------------------------------------------
\* The disks.

\* Two sessions never work for the same VM.
LEMMA Names ==
  ASSUME DistinctVms, DiskInv, NEW s \in Session, NEW t \in Session, s # t
  PROVE  VmOf(s) # VmOf(t)
  BY DEF DistinctVms, DiskInv, VmOf

\* Steps that touch no disk and end outside the stretch from the name check
\* to New-VM.
LEMMA Outside ==
  ASSUME TypeOK, DiskInv, NEW s \in Session, NEW step,
         Goto(s, step), step \notin Unnamed,
         UNCHANGED <<created, disk, req>>,
         \A t \in Session \ {s} : throwing'[t] = throwing[t]
  PROVE  DiskInv'
  BY DEF TypeOK, PcOK, DiskInv, Goto, VmOf, Unnamed

\* Steps within that stretch change no disk but their own VM's, which does
\* not exist yet.
LEMMA Inside ==
  ASSUME DistinctVms, TypeOK, DiskInv, NEW s \in Session, NEW step,
         Goto(s, step), UNCHANGED <<created, req>>,
         created[VmOf(s)] = {},
         \A v \in Vm \ {VmOf(s)} : disk'[v] = disk[v],
         \A t \in Session \ {s} : throwing'[t] = throwing[t],
         (step \in {"dismountBoot", "releaseMutex"} /\ ~throwing'[s]) \/ step = "newVm"
           => disk'[VmOf(s)].boot = "edited",
         step \in {"releaseMutex", "newVm"} => ~disk'[VmOf(s)].mounted
  PROVE  DiskInv'
<1> USE DEF TypeOK, PcOK, Goto
<1>1. \A t \in Session : VmOf(t)' = VmOf(t) /\ VmOf(t) \in Vm
      BY RequestKeys DEF VmOf
<1>2. /\ pc'[s] = step
      /\ \A t \in Session \ {s} : pc'[t] = pc[t]
      OBVIOUS
<1>3. \A t \in Session \ {s} : disk'[VmOf(t)] = disk[VmOf(t)]
      BY <1>1, Names
<1>4. \A t \in Session : req'[t] \in Requests[t]  BY DEF DiskInv
<1>5. \A t \in Session : pc'[t] \in Unnamed => created'[VmOf(t)] = {}
      BY <1>2 DEF DiskInv
<1>6. \A v \in Vm : created'[v] # {} => disk'[v].boot = "edited" /\ ~disk'[v].mounted
      BY DEF DiskInv
<1>7. \A t \in Session :
        (pc'[t] \in {"dismountBoot", "releaseMutex"} /\ ~throwing'[t]) \/ pc'[t] = "newVm"
          => disk'[VmOf(t)].boot = "edited"
      BY <1>2, <1>3 DEF DiskInv
<1>8. \A t \in Session :
        pc'[t] \in {"releaseMutex", "newVm"} => ~disk'[VmOf(t)].mounted
      BY <1>2, <1>3 DEF DiskInv
<1> QED BY <1>1, <1>4, <1>5, <1>6, <1>7, <1>8 DEF DiskInv

\* The steps from the name check to the release of the mutex.
LEMMA InsideSteps ==
  ASSUME DistinctVms, TypeOK, DiskInv, NEW s \in Session,
         PrepDisks(s) \/ WaitOne(s) \/ MountBoot(s) \/ EditBoot(s) \/
         DismountBoot(s) \/ ReleaseMutex(s)
  PROVE  DiskInv'
<1> USE RequestKeys DEF TypeOK, DiskOK, ThrowOK, argVars, vmVars
<1>1. created[VmOf(s)] = {}
      BY DEF DiskInv, Unnamed, PrepDisks, BootMade, WaitOne, MountBoot, EditBoot,
             DismountBoot, ReleaseMutex, At
<1>2. CASE PrepDisks(s)  BY <1>1, <1>2, Inside DEF PrepDisks, BootMade, At
<1>3. CASE WaitOne(s)
  <2>1. PICK step \in {"mountBoot", "dismountBoot"} :
          Goto(s, step) /\ (step = "dismountBoot" => throwing'[s])
        BY <1>3 DEF WaitOne
  <2> QED BY <1>1, <1>3, <2>1, Inside DEF WaitOne
<1>4. CASE MountBoot(s)
  <2>1. PICK step \in {"editBoot", "dismountBoot"} :
          Goto(s, step) /\ (step = "dismountBoot" => throwing'[s])
        BY <1>4 DEF MountBoot
  <2> QED BY <1>1, <1>4, <2>1, Inside DEF MountBoot
<1>5. CASE EditBoot(s)
  <2>1. throwing'[s] \/ disk'[VmOf(s)].boot = "edited"
        BY <1>5 DEF EditBoot, Disk
  <2>2. \A v \in Vm \ {VmOf(s)} : disk'[v] = disk[v]
        BY <1>5 DEF EditBoot
  <2> QED BY <1>1, <1>5, <2>1, <2>2, Inside DEF EditBoot, At
<1>6. CASE DismountBoot(s)
  <2>1. CASE bootVhd[s] = "none"
        BY <1>1, <1>6, <2>1, Inside DEF DismountBoot, restVars
  <2>2. CASE bootVhd[s] # "none"
    <3>1. /\ disk'[VmOf(s)].boot = disk[VmOf(s)].boot
          /\ ~disk'[VmOf(s)].mounted
          BY <1>6, <2>2 DEF DismountBoot, Disk
    <3>2. ~throwing[s] => disk[VmOf(s)].boot = "edited"
          BY <1>6 DEF DismountBoot, DiskInv
    <3> QED BY <1>1, <1>6, <2>2, <3>1, <3>2, Inside DEF DismountBoot, restVars
  <2> QED BY <2>1, <2>2
<1>7. CASE ReleaseMutex(s)
  <2>1. /\ ~disk[VmOf(s)].mounted
        /\ ~throwing[s] => disk[VmOf(s)].boot = "edited"
        BY <1>7 DEF ReleaseMutex, At, DiskInv
  <2> QED BY <1>1, <1>7, <2>1, Inside
          DEF ReleaseMutex, At, AfterFinally, restVars
<1> QED BY <1>2, <1>3, <1>4, <1>5, <1>6, <1>7

\* The name check itself, New-VM, and the clean-up after the installation.
LEMMA EdgeSteps ==
  ASSUME DistinctVms, TypeOK, DiskInv, NEW s \in Session,
         CheckVm(s) \/ NewVm(s) \/ Verify(s)
  PROVE  DiskInv'
<1> USE RequestKeys DEF TypeOK
<1>1. CASE CheckVm(s)
  <2>1. CASE VmExists(VmOf(s))
        BY <1>1, <2>1, Outside
           DEF CheckVm, At, hostVars, vmVars, restVars, argVars, Unnamed
  <2>2. CASE ~VmExists(VmOf(s))
        BY <1>1, <2>2, Inside
           DEF CheckVm, At, VmExists, hostVars, vmVars, restVars, argVars
  <2> QED BY <2>1, <2>2
<1>2. CASE NewVm(s)
  <2>1. disk[VmOf(s)].boot = "edited" /\ ~disk[VmOf(s)].mounted
        BY <1>2 DEF NewVm, DiskInv
  <2>2. UNCHANGED <<disk, req, throwing>>
        BY <1>2 DEF NewVm, restVars, argVars
  <2>3. PICK step \in {"failed", "done", "startVm"} : Goto(s, step)
        BY <1>2 DEF NewVm
  <2>4. \A v \in Vm \ {VmOf(s)} : created'[v] = created[v]
        BY <1>2 DEF NewVm, VmOK
  <2>5. \A t \in Session \ {s} : pc'[t] = pc[t] /\ VmOf(t) # VmOf(s)
        BY <2>3, Names DEF Goto, PcOK
  <2>6. \A t \in Session : pc'[t] \in Unnamed => created'[VmOf(t)] = {}
        BY <2>3, <2>4, <2>5 DEF Goto, PcOK, DiskInv, Unnamed
  <2>7. \A v \in Vm : created'[v] # {} => disk[v].boot = "edited" /\ ~disk[v].mounted
        BY <2>1, <2>4 DEF DiskInv
  <2> QED BY <2>2, <2>3, <2>5, <2>6, <2>7 DEF DiskInv, Goto, PcOK, VmOf
<1>3. CASE Verify(s)
  <2>1. \A v \in Vm : /\ disk'[v].boot = disk[v].boot
                      /\ disk'[v].mounted = disk[v].mounted
        BY <1>3 DEF Verify, DiskOK, Disk
  <2>2. PICK step \in {"failed", "done"} : Goto(s, step)
        BY <1>3 DEF Verify, At
  <2>3. UNCHANGED <<created, req, throwing>>
        BY <1>3 DEF Verify, restVars, argVars
  <2> QED BY <2>1, <2>2, <2>3 DEF DiskInv, Goto, PcOK, VmOf, Unnamed
<1> QED BY <1>1, <1>2, <1>3

\* Every other step of the script.
LEMMA OutsideSteps ==
  ASSUME TypeOK, DiskInv, NEW s \in Session, ScriptStep(s),
         ~(PrepDisks(s) \/ WaitOne(s) \/ MountBoot(s) \/ EditBoot(s) \/
           DismountBoot(s) \/ ReleaseMutex(s) \/ CheckVm(s) \/ NewVm(s) \/
           Verify(s))
  PROVE  DiskInv'
<1>1. \E step \in Running \cup Ended : Goto(s, step) /\ step \notin Unnamed
      BY DEF ScriptStep, CheckBase, CopyBaseBegin, CopyBaseEnd, GetIso,
             CopyIsoEnd, MountIso, Convert, ConversionFails,
             DismountIso, MarkBase, CheckWim, StaleWim, RemoveWim, NewWim,
             MountWim, FillWim, SaveWimEnd, MoveWim,
             ThrowToDismountWim, MarkWim, DismountWim, StartVm, Heartbeat, PsDirect,
             Install, At, AfterFinally, Running, Ended, Unnamed
<1>2. UNCHANGED <<created, disk, req>>
      BY DEF ScriptStep, CheckBase, CopyBaseBegin, CopyBaseEnd, GetIso,
             CopyIsoEnd, MountIso, Convert,
             DismountIso, MarkBase, CheckWim, StaleWim, RemoveWim, NewWim,
             MountWim, FillWim, SaveWimEnd, MoveWim,
             ThrowToDismountWim, MarkWim, DismountWim, StartVm, Heartbeat, PsDirect,
             Install, hostVars, vmVars, restVars, argVars
<1>3. \A t \in Session \ {s} : throwing'[t] = throwing[t]
      BY DEF ScriptStep, CheckBase, CopyBaseBegin, CopyBaseEnd, GetIso,
             CopyIsoEnd, MountIso, Convert, ConversionFails,
             DismountIso, MarkBase, CheckWim, StaleWim, RemoveWim, NewWim,
             MountWim, FillWim, SaveWimEnd, MoveWim,
             ThrowToDismountWim, MarkWim, DismountWim, StartVm, Heartbeat, PsDirect,
             Install, restVars, TypeOK, ThrowOK
<1> QED BY <1>1, <1>2, <1>3, Outside

\* The disk invariant is inductive.
LEMMA DiskStep ==
  ASSUME DistinctVms, TypeOK, DiskInv, [Next]_vars
  PROVE  DiskInv'
<1> USE DEF restVars, argVars, vmVars, hostVars
<1>1. CASE UNCHANGED vars  BY <1>1 DEF vars, DiskInv, VmOf
<1>2. ASSUME NEW s \in Session, ScriptStep(s)  PROVE DiskInv'
      BY <1>2, InsideSteps, EdgeSteps, OutsideSteps
<1>3. ASSUME NEW s \in Session, Begin(s)  PROVE DiskInv'
  <2>1. PICK r \in Requests[s] : req' = [req EXCEPT ![s] = r]
        BY <1>3 DEF Begin
  <2>2. PICK step \in {"checkBase", "failed"} : Goto(s, step)
        BY <1>3 DEF Begin
  <2>3. /\ UNCHANGED <<created, disk>>
        /\ \A t \in Session \ {s} : throwing'[t] = throwing[t]
        BY <1>3 DEF Begin, TypeOK, ThrowOK
  <2> QED BY <2>1, <2>2, <2>3
          DEF TypeOK, PcOK, ArgsOK, DiskInv, Goto, VmOf, Unnamed
<1>4. ASSUME NEW s \in Session, Crash(s)  PROVE DiskInv'
      BY <1>4, Outside DEF Crash, Unnamed
<1>5. ASSUME NEW s \in Session, NEW i \in Image, CloseSession(s) \/ Finalize(s, i)
      PROVE DiskInv'
      BY <1>5 DEF CloseSession, Finalize, DiskInv, VmOf
<1>6. ASSUME NEW v \in Vm, GuestUp(v) \/ GuestDown(v)  PROVE DiskInv'
      BY <1>6 DEF GuestUp, GuestDown, DiskInv, VmOf
<1>7. CASE HostRestart
  <2>1. \A v \in Vm : disk'[v].boot = disk[v].boot /\ ~disk'[v].mounted
        BY <1>7 DEF HostRestart, TypeOK, DiskOK, Disk
  <2> QED BY <1>7, <2>1 DEF HostRestart, DiskInv, VmOf, Unnamed
<1>8. Image # {}  BY DEF Image
<1> QED BY <1>1, <1>2, <1>3, <1>4, <1>5, <1>6, <1>7, <1>8 DEF Next

LEMMA DiskInit == Init => DiskInv
  BY RequestsAssumption DEF Init, DiskInv, Unnamed

\* From the name check to New-VM the name a session was given has no VM, and the
\* disk is edited, detached or in its hands as its position in the script says.
THEOREM DiskCorrect == DistinctVms => (Spec => []DiskInv)
<1> SUFFICES ASSUME DistinctVms  PROVE Spec => []DiskInv  OBVIOUS
<1>1. TypeOK /\ DiskInv /\ [Next]_vars => DiskInv'  BY DiskStep
<1> QED BY <1>1, DiskInit, TypeCorrect, PTL DEF Spec

\* A VM is only ever made of a disk whose offline edit was completed.
THEOREM BuiltCorrect == DistinctVms => (Spec => []BuiltFromEdited)
<1> SUFFICES ASSUME DistinctVms  PROVE Spec => []BuiltFromEdited  OBVIOUS
<1>1. DiskInv => BuiltFromEdited  BY DEF DiskInv, BuiltFromEdited
<1> QED BY <1>1, DiskCorrect, PTL

\* What the script's steps do to the boot disk of a VM that exists: nothing.
LEMMA ScriptKeeps ==
  ASSUME DistinctVms, TypeOK, DiskInv, NEW s \in Session, ScriptStep(s),
         NEW v \in Vm, created[v] # {}
  PROVE  disk'[v].boot = disk[v].boot /\ disk'[v].base = disk[v].base
<1> USE RequestKeys DEF TypeOK, DiskOK
<1>1. CASE PrepDisks(s) \/ WaitOne(s) \/ MountBoot(s) \/ EditBoot(s) \/
           DismountBoot(s) \/ ReleaseMutex(s)
  <2>1. v # VmOf(s)
        BY <1>1 DEF DiskInv, Unnamed, PrepDisks, BootMade, WaitOne, MountBoot, EditBoot,
                    DismountBoot, ReleaseMutex, At
  <2>2. disk'[v] = disk[v]
        BY <1>1, <2>1 DEF PrepDisks, BootMade, WaitOne, MountBoot, EditBoot,
                          DismountBoot, ReleaseMutex
  <2> QED BY <2>2
<1>2. CASE Verify(s)  BY <1>2 DEF Verify, Disk
<1>3. CASE ~(PrepDisks(s) \/ WaitOne(s) \/ MountBoot(s) \/ EditBoot(s) \/
             DismountBoot(s) \/ ReleaseMutex(s) \/ Verify(s))
  <2>1. UNCHANGED disk
        BY <1>3 DEF ScriptStep, CheckBase, CopyBaseBegin, CopyBaseEnd, GetIso,
             CopyIsoEnd, MountIso, Convert,
             DismountIso, MarkBase, CheckWim, StaleWim, RemoveWim, NewWim,
             MountWim, FillWim, SaveWimEnd, MoveWim,
             ThrowToDismountWim, MarkWim, DismountWim, CheckVm, NewVm, StartVm, Heartbeat,
             PsDirect, Install, hostVars
  <2> QED BY <2>1
<1> QED BY <1>1, <1>2, <1>3

\* Names are not lost: a VM that exists goes on existing.
LEMMA CreatedGrows ==
  ASSUME TypeOK, [Next]_vars, NEW v \in Vm, created[v] # {}
  PROVE  created'[v] # {}
<1> USE DEF vmVars, hostVars, TypeOK, VmOK
<1>1. ASSUME NEW s \in Session, NewVm(s)  PROVE created'[v] # {}
      BY <1>1 DEF NewVm
<1>2. ASSUME NEW s \in Session, ScriptStep(s), ~NewVm(s)  PROVE created'[v] # {}
      BY <1>2 DEF ScriptStep, CheckBase, CopyBaseBegin, CopyBaseEnd, GetIso,
             CopyIsoEnd, MountIso, Convert,
             DismountIso, MarkBase, CheckWim, StaleWim, RemoveWim, NewWim,
             MountWim, FillWim, SaveWimEnd, MoveWim,
             ThrowToDismountWim, MarkWim, DismountWim, CheckVm, PrepDisks, BootMade, WaitOne,
             MountBoot, EditBoot, DismountBoot, ReleaseMutex, StartVm,
             Heartbeat, PsDirect, Install, Verify
<1>3. ASSUME NEW s \in Session, Begin(s) \/ Crash(s) \/ CloseSession(s)
      PROVE created'[v] # {}
      BY <1>3 DEF Begin, Crash, CloseSession
<1>4. CASE ~\E s \in Session : Begin(s) \/ ScriptStep(s) \/ Crash(s) \/ CloseSession(s)
      BY <1>4 DEF Next, GuestUp, GuestDown, HostRestart, Finalize, vars
<1> QED BY <1>1, <1>2, <1>3, <1>4

\* Once a VM was created, no run replaces, edits or attaches its boot disk.
THEOREM StableCorrect == DistinctVms => (Spec => VmDiskStable)
<1> SUFFICES ASSUME DistinctVms  PROVE Spec => VmDiskStable  OBVIOUS
<1>1. TypeOK /\ DiskInv /\ [Next]_vars => KeepsVmDisks
  <2> SUFFICES ASSUME TypeOK, DiskInv, [Next]_vars, NEW v \in Vm, created[v] # {}
               PROVE  /\ disk'[v].boot = disk[v].boot
                      /\ disk'[v].base = disk[v].base
                      /\ ~disk'[v].mounted
      BY DEF KeepsVmDisks
  <2>1. ~disk'[v].mounted
        BY DiskStep, CreatedGrows DEF DiskInv
  <2>2. disk'[v].boot = disk[v].boot /\ disk'[v].base = disk[v].base
    <3>1. ASSUME NEW s \in Session, ScriptStep(s)
          PROVE disk'[v].boot = disk[v].boot /\ disk'[v].base = disk[v].base
          BY <3>1, ScriptKeeps
    <3>2. CASE HostRestart
          BY <3>2 DEF HostRestart, TypeOK, DiskOK, Disk
    <3>3. CASE ~HostRestart /\ ~\E s \in Session : ScriptStep(s)
          BY <3>3 DEF Next, Begin, Crash, CloseSession, Finalize, GuestUp,
                      GuestDown, hostVars, vars
    <3> QED BY <3>1, <3>2, <3>3
  <2> QED BY <2>1, <2>2
<1> QED BY <1>1, DiskCorrect, TypeCorrect, PTL DEF Spec, VmDiskStable

--------------------------------------------------------------------------
\* The announcement.

\* Where a session has passed the check of its VM's name and not yet started
\* the VM; and where it has seen the VM's heartbeat.
Past == Unnamed \cup {"startVm"}
Late == {"psDirect", "install", "verify"}

\* A running VM exists.  A session that has seen its VM's heartbeat goes on
\* being the one whose VM runs under that name, and the guest stays up or has
\* dropped a PowerShell session.
GuestInv ==
  /\ \A v \in Vm : power[v] # NoSession => created[v] # {}
  /\ \A v \in Vm : guest[v] # "off" => power[v] # NoSession
  /\ \A s \in Session : pc[s] \in Late => power[VmOf(s)] = s
  /\ \A s \in Session :
       pc[s] \in {"install", "verify"} => guest[VmOf(s)] = "up" \/ VmOf(s) \in dropped
  /\ \A s \in Session :
       pc[s] = "verify" => install[VmOf(s)] # "no" \/ VmOf(s) \in dropped

\* A name announced as ready is not worked on again: a session that had passed
\* the check for it before finds another session's VM running.
Settled(s, v) ==
  VmOf(s) = v =>
    /\ pc[s] \notin Late
    /\ pc[s] \in Past => power[v] \notin {NoSession, s}
    /\ pc[s] = "heartbeat" => power[v] # s
ReadyInv ==
  \A v \in ready : /\ install[v] = "ok" \/ v \in dropped
                   /\ created[v] # {}
                   /\ \A s \in Session : Settled(s, v)

InstalledInv == GuestInv /\ ReadyInv

--------------------------------------------------------------------------
\* Steps of the script that concern no running VM.
LEMMA Apart ==
  ASSUME TypeOK, InstalledInv, NEW s \in Session, NEW step, Goto(s, step),
         UNCHANGED <<power, guest, install, ready, dropped, req>>,
         \A v \in Vm : created[v] # {} => created'[v] # {},
         step \notin Late \cup {"heartbeat"},
         step \in Past => pc[s] \in Past
  PROVE  InstalledInv'
<1> USE DEF TypeOK, PcOK, VmOK, Goto, VmOf, InstalledInv, GuestInv, ReadyInv
<1>1. /\ pc'[s] = step
      /\ \A t \in Session \ {s} : pc'[t] = pc[t]
      OBVIOUS
<1>2. GuestInv'  BY <1>1 DEF Late
<1>3. ReadyInv'  BY <1>1 DEF Settled, Late
<1> QED BY <1>2, <1>3

LEMMA ApartSteps ==
  ASSUME TypeOK, InstalledInv, NEW s \in Session, ScriptStep(s),
         ~(CheckVm(s) \/ StartVm(s) \/ Heartbeat(s) \/ PsDirect(s) \/
           Install(s) \/ Verify(s))
  PROVE  InstalledInv'
<1> USE Apart DEF At, AfterFinally, Past, Unnamed, Late, restVars, argVars,
                  boundVars, hostVars, vmVars
<1>1. CASE CheckBase(s) \/ CopyBaseBegin(s) \/ CopyBaseEnd(s) \/ GetIso(s)
      BY <1>1 DEF CheckBase, CopyBaseBegin, CopyBaseEnd, GetIso
<1>2. CASE CopyIsoEnd(s) \/ MountIso(s) \/ Convert(s) \/ DismountIso(s) \/ MarkBase(s)
      BY <1>2 DEF CopyIsoEnd, MountIso, Convert, ConversionFails, DismountIso,
                  MarkBase
<1>3. CASE CheckWim(s) \/ StaleWim(s) \/ RemoveWim(s) \/ NewWim(s)
      BY <1>3 DEF CheckWim, StaleWim, RemoveWim, NewWim
<1>4. CASE MountWim(s) \/ FillWim(s) \/ SaveWimEnd(s) \/ MoveWim(s) \/
           MarkWim(s) \/ DismountWim(s)
      BY <1>4 DEF MountWim, FillWim, SaveWimEnd, MoveWim,
             ThrowToDismountWim, MarkWim, DismountWim
<1>5. CASE PrepDisks(s)  BY <1>5 DEF PrepDisks, BootMade
<1>6. CASE WaitOne(s)  BY <1>6 DEF WaitOne
<1>7. CASE MountBoot(s)  BY <1>7 DEF MountBoot
<1>8. CASE EditBoot(s)  BY <1>8 DEF EditBoot
<1>9. CASE DismountBoot(s)  BY <1>9 DEF DismountBoot
<1>10. CASE ReleaseMutex(s)  BY <1>10 DEF ReleaseMutex
<1>11. CASE NewVm(s)
  <2>1. \A v \in Vm : created[v] # {} => created'[v] # {}
        BY <1>11 DEF NewVm, TypeOK, VmOK
  <2>2. PICK step \in {"failed", "done", "startVm"} : Goto(s, step)
        BY <1>11 DEF NewVm
  <2>3. pc[s] \in Past /\ UNCHANGED <<power, guest, install, ready, dropped, req>>
        BY <1>11 DEF NewVm
  <2> QED BY <2>1, <2>2, <2>3
<1> QED BY <1>1, <1>2, <1>3, <1>4, <1>5, <1>6, <1>7, <1>8, <1>9, <1>10, <1>11
        DEF ScriptStep

\* The name check, and the steps from the start of the VM to the announcement.
LEMMA VmStepsInstalled ==
  ASSUME TypeOK, InstalledInv, NEW s \in Session,
         CheckVm(s) \/ StartVm(s) \/ Heartbeat(s) \/ PsDirect(s) \/
         Install(s) \/ Verify(s)
  PROVE  InstalledInv'
<1> USE RequestKeys, SessionAssumption
    DEF TypeOK, PcOK, VmOK, At, Goto, restVars, argVars, boundVars, InstalledInv
<1>1. CASE CheckVm(s)
  <2>1. GuestInv'  BY <1>1 DEF CheckVm, GuestInv, VmOf, Late, hostVars, vmVars
  <2>2. ReadyInv'
        BY <1>1 DEF CheckVm, VmExists, ReadyInv, Settled, VmOf, Late, Past,
                    Unnamed, hostVars, vmVars
  <2> QED BY <2>1, <2>2
<1>2. CASE StartVm(s)
  <2> DEFINE v == VmOf(s)
  <2>1. CASE s \in created[v] /\ disk[v].boot # "absent" /\ ~DiskInUse(v)
    <3>1. /\ power[v] = NoSession /\ created[v] # {}
          /\ v \in Vm /\ pc[s] = "startVm"
          /\ power' = [power EXCEPT ![v] = s]
          /\ guest' = [guest EXCEPT ![v] = "starting"]
          /\ UNCHANGED <<created, install, ready, dropped, req>>
          /\ pc' = [pc EXCEPT ![s] = "heartbeat"]
          BY <1>2, <2>1 DEF StartVm, DiskInUse
    <3>2. v \notin ready
          BY <3>1 DEF ReadyInv, Settled, Past
    <3>3. \A t \in Session : pc[t] \in Late => VmOf(t) # v
          BY <3>1 DEF GuestInv
    <3>4. GuestInv'
          BY <3>1, <3>3 DEF GuestInv, VmOf, Late
    <3>5. ReadyInv'
          BY <3>1, <3>2 DEF ReadyInv, Settled, VmOf, Late, Past, Unnamed
    <3> QED BY <3>4, <3>5
  <2>2. CASE ~(s \in created[v] /\ disk[v].boot # "absent" /\ ~DiskInUse(v))
    <3>1. /\ UNCHANGED <<power, guest, created, install, ready, dropped, req>>
          /\ pc[s] = "startVm" /\ pc' = [pc EXCEPT ![s] = "heartbeat"]
          BY <1>2, <2>2 DEF StartVm
    <3>2. GuestInv'  BY <3>1 DEF GuestInv, VmOf, Late
    <3>3. ReadyInv'  BY <3>1 DEF ReadyInv, Settled, VmOf, Late, Past, Unnamed
    <3> QED BY <3>2, <3>3
  <2> QED BY <2>1, <2>2
<1>3. CASE Heartbeat(s)
  <2>1. VmOf(s) \notin ready  BY <1>3 DEF Heartbeat, ReadyInv, Settled
  <2>2. GuestInv'
        BY <1>3 DEF Heartbeat, GuestInv, VmOf, Late, hostVars, vmVars
  <2>3. ReadyInv'
        BY <1>3, <2>1 DEF Heartbeat, ReadyInv, Settled, VmOf, Late, Past,
                          Unnamed, hostVars, vmVars
  <2> QED BY <2>2, <2>3
<1>4. CASE PsDirect(s)
  <2>1. GuestInv'
        BY <1>4 DEF PsDirect, GuestInv, VmOf, Late, hostVars, vmVars
  <2>2. ReadyInv'
        BY <1>4 DEF PsDirect, ReadyInv, Settled, VmOf, Late, Past,
                    Unnamed, hostVars, vmVars
  <2> QED BY <2>1, <2>2
<1>5. CASE Install(s)
  <2>1. /\ VmOf(s) \notin ready
        /\ pc[s] = "install" /\ pc' = [pc EXCEPT ![s] = "verify"]
        /\ UNCHANGED <<created, power, guest, ready, dropped, req>>
        BY <1>5 DEF Install, ReadyInv, Settled, Late
  <2>2. PICK result \in {"no", "ok", "err"} :
          /\ install' = [install EXCEPT ![VmOf(s)] = result]
          /\ result = "no" => VmOf(s) \in dropped
        BY <1>5, <2>1 DEF Install, GuestInv
  <2>3. GuestInv'  BY <2>1, <2>2 DEF GuestInv, VmOf, Late
  <2>4. ReadyInv'
        BY <2>1, <2>2 DEF ReadyInv, Settled, VmOf, Late, Past, Unnamed
  <2> QED BY <2>3, <2>4
<1>6. CASE Verify(s)
  <2>1. /\ pc[s] = "verify" /\ pc'[s] \in {"failed", "done"}
        /\ \A t \in Session \ {s} : pc'[t] = pc[t]
        /\ UNCHANGED <<created, power, guest, install, dropped, req>>
        /\ ready' \in {ready, ready \cup {VmOf(s)}}
        /\ ready' # ready => ~ScriptFailed(VmOf(s))
        BY <1>6 DEF Verify
  <2>2. /\ power[VmOf(s)] = s /\ created[VmOf(s)] # {}
        /\ ~ScriptFailed(VmOf(s)) => install[VmOf(s)] = "ok" \/ VmOf(s) \in dropped
        BY <2>1 DEF GuestInv, Late, ScriptFailed
  <2>3. GuestInv'  BY <2>1 DEF GuestInv, VmOf, Late
  <2>4. \A t \in Session \ {s} : VmOf(t) = VmOf(s) => pc[t] \notin Late
        BY <2>2 DEF GuestInv
  <2>5. ReadyInv'
        BY <2>1, <2>2, <2>4 DEF ReadyInv, Settled, VmOf, Late, Past, Unnamed
  <2> QED BY <2>3, <2>5
<1> QED BY <1>1, <1>2, <1>3, <1>4, <1>5, <1>6

\* The sessions' beginnings and ends, the guests and the host.
LEMMA OthersInstalled ==
  ASSUME TypeOK, InstalledInv, [Next]_vars,
         ~\E s \in Session : ScriptStep(s)
  PROVE  InstalledInv'
<1>1. ASSUME NEW s \in Session, Begin(s)  PROVE InstalledInv'
  <2>1. /\ pc'[s] \in {"checkBase", "failed"}
        /\ \A t \in Session \ {s} : pc'[t] = pc[t] /\ req'[t] = req[t]
        /\ UNCHANGED <<created, power, guest, install, ready, dropped>>
        BY <1>1 DEF Begin, Goto, TypeOK, PcOK, ArgsOK, hostVars, vmVars
  <2>2. GuestInv'  BY <2>1 DEF InstalledInv, GuestInv, VmOf, Late
  <2>3. ReadyInv'
        BY <2>1 DEF InstalledInv, ReadyInv, Settled, VmOf, Late, Past, Unnamed
  <2> QED BY <2>2, <2>3 DEF InstalledInv
<1>2. ASSUME NEW s \in Session, Crash(s)  PROVE InstalledInv'
      BY <1>2, Apart DEF Crash, Past, Unnamed, Late, vmVars, argVars
<1>3. ASSUME NEW s \in Session, CloseSession(s)  PROVE InstalledInv'
      BY <1>3 DEF CloseSession, InstalledInv, GuestInv, ReadyInv, Settled, VmOf,
                  vmVars, restVars, argVars, boundVars
<1>4. ASSUME NEW s \in Session, NEW i \in Image, Finalize(s, i)
      PROVE InstalledInv'
      BY <1>4 DEF Finalize, InstalledInv, GuestInv, ReadyInv, Settled, VmOf,
                  vmVars, restVars, argVars, boundVars
<1>5. ASSUME NEW v \in Vm, GuestUp(v)  PROVE InstalledInv'
      BY <1>5 DEF GuestUp, InstalledInv, GuestInv, ReadyInv, Settled, VmOf,
                  TypeOK, VmOK, restVars, argVars, boundVars
<1>6. ASSUME NEW v \in Vm, GuestDown(v)  PROVE InstalledInv'
  <2>1. /\ guest[v] = "up" /\ guest' = [guest EXCEPT ![v] = "down"]
        /\ dropped' = dropped \cup {v}
        /\ UNCHANGED <<created, power, install, ready, pc, req>>
        BY <1>6 DEF GuestDown, argVars
  <2>2. GuestInv'
        BY <2>1 DEF InstalledInv, GuestInv, VmOf, TypeOK, VmOK, Late
  <2>3. ReadyInv'  BY <2>1 DEF InstalledInv, ReadyInv, Settled, VmOf
  <2> QED BY <2>2, <2>3 DEF InstalledInv
<1>7. CASE HostRestart
  <2>1. /\ \A s \in Session : pc'[s] = "idle"
        /\ \A v \in Vm : power'[v] = NoSession
        /\ \A v \in Vm : guest'[v] = "off"
        /\ UNCHANGED <<created, install, ready, dropped, req>>
        BY <1>7 DEF HostRestart, argVars
  <2>2. GuestInv'  BY <2>1 DEF GuestInv, Late
  <2>3. ReadyInv'
        BY <2>1 DEF InstalledInv, ReadyInv, Settled, Late, Past, Unnamed
  <2> QED BY <2>2, <2>3 DEF InstalledInv
<1>8. CASE UNCHANGED vars
      BY <1>8 DEF vars, hostVars, vmVars, restVars, argVars, boundVars, InstalledInv,
                  GuestInv, ReadyInv, Settled, VmOf
<1> QED BY <1>1, <1>2, <1>3, <1>4, <1>5, <1>6, <1>7, <1>8 DEF Next

LEMMA InstalledCorrect == Spec => []InstalledInv
<1>1. Init => InstalledInv
      BY DEF Init, InstalledInv, GuestInv, ReadyInv, Late
<1>2. TypeOK /\ InstalledInv /\ [Next]_vars => InstalledInv'
  <2>1. ASSUME TypeOK, InstalledInv, NEW s \in Session, ScriptStep(s)
        PROVE InstalledInv'
        BY <2>1, ApartSteps, VmStepsInstalled
  <2> QED BY <2>1, OthersInstalled
<1> QED BY <1>1, <1>2, TypeCorrect, PTL DEF Spec

--------------------------------------------------------------------------
\* The life of a VM's name, as VmLifecycle has it.

\* Whoever edits a disk has one.
BlankInv == \A s \in Session : pc[s] = "editBoot" => disk[VmOf(s)].boot # "absent"

\* A step of the script touches the disk of its own VM's name only.
LEMMA OwnDisk ==
  ASSUME TypeOK, NEW s \in Session, ScriptStep(s), NEW v \in Vm \ {VmOf(s)}
  PROVE  disk'[v] = disk[v]
<1> USE DEF TypeOK, DiskOK, hostVars
<1>1. CASE PrepDisks(s) \/ MountBoot(s) \/ EditBoot(s) \/ DismountBoot(s) \/ Verify(s)
      BY <1>1 DEF PrepDisks, BootMade, MountBoot, EditBoot, DismountBoot, Verify
<1>2. CASE ~(PrepDisks(s) \/ MountBoot(s) \/ EditBoot(s) \/ DismountBoot(s) \/ Verify(s))
      BY <1>2 DEF ScriptStep, CheckBase, CopyBaseBegin, CopyBaseEnd, GetIso,
             CopyIsoEnd, MountIso, Convert, DismountIso, MarkBase, CheckWim,
             StaleWim, RemoveWim, NewWim, MountWim, FillWim, SaveWimEnd, MoveWim,
             ThrowToDismountWim, MarkWim, DismountWim,
             CheckVm, WaitOne, ReleaseMutex, NewVm, StartVm, Heartbeat,
             PsDirect, Install
<1> QED BY <1>1, <1>2

LEMMA BlankStep ==
  ASSUME DistinctVms, TypeOK, DiskInv, BlankInv, [Next]_vars
  PROVE  BlankInv'
<1> USE DEF TypeOK, PcOK, ArgsOK, BlankInv, VmOf
<1>1. ASSUME NEW s \in Session, ScriptStep(s)  PROVE BlankInv'
  <2>1. UNCHANGED req /\ \A t \in Session \ {s} : pc'[t] = pc[t]
        BY <1>1, OneMoves
  <2>2. \A t \in Session \ {s} : disk'[VmOf(t)] = disk[VmOf(t)]
        BY <1>1, OwnDisk, Names, RequestKeys
  <2>3. pc'[s] = "editBoot" => disk'[VmOf(s)].boot # "absent"
    <3>1. CASE MountBoot(s)
          BY <3>1, RequestKeys DEF MountBoot, Goto, DiskOK, Disk
    <3>2. CASE ~MountBoot(s)
      <4>1. pc'[s] # "editBoot"
            BY <1>1, <3>2 DEF ScriptStep, CheckBase, CopyBaseBegin, CopyBaseEnd, GetIso,
             CopyIsoEnd, MountIso, Convert, ConversionFails, DismountIso, MarkBase,
             CheckWim, StaleWim, RemoveWim, NewWim, MountWim, FillWim, SaveWimEnd, MoveWim,
             ThrowToDismountWim, MarkWim, DismountWim,
             CheckVm, PrepDisks, BootMade, WaitOne, EditBoot, DismountBoot, AfterFinally,
             ReleaseMutex, NewVm, StartVm, Heartbeat, PsDirect, Install, Verify,
             At, Goto
      <4> QED BY <4>1
    <3> QED BY <3>1, <3>2
  <2> QED BY <2>1, <2>2, <2>3
<1>2. ASSUME NEW s \in Session, Begin(s) \/ Crash(s) \/ CloseSession(s)
      PROVE BlankInv'
      BY <1>2 DEF Begin, Crash, CloseSession, Goto, Ended, Running, hostVars, restVars,
                  argVars
<1>3. ASSUME NEW s \in Session, NEW i \in Image, Finalize(s, i)  PROVE BlankInv'
      BY <1>3 DEF Finalize, restVars, argVars
<1>4. ASSUME NEW v \in Vm, GuestUp(v) \/ GuestDown(v)  PROVE BlankInv'
      BY <1>4 DEF GuestUp, GuestDown, restVars, argVars
<1>5. CASE HostRestart  BY <1>5 DEF HostRestart
<1>6. CASE UNCHANGED vars
      BY <1>6 DEF vars, hostVars, restVars, argVars
<1> QED BY <1>1, <1>2, <1>3, <1>4, <1>5, <1>6 DEF Next

LEMMA BlankCorrect == DistinctVms => (Spec => []BlankInv)
<1> SUFFICES ASSUME DistinctVms  PROVE Spec => []BlankInv  OBVIOUS
<1>1. Init => BlankInv  BY DEF Init, BlankInv
<1>2. TypeOK /\ DiskInv /\ BlankInv /\ [Next]_vars => BlankInv'  BY BlankStep
<1> QED BY <1>1, <1>2, DiskCorrect, TypeCorrect, PTL DEF Spec

LifeInv == TypeOK /\ DiskInv /\ BlankInv /\ InstalledInv

\* What VmLifecycle does not see.
LEMMA LifeSame ==
  ASSUME UNCHANGED <<created, power, install, ready, dropped>>,
         \A v \in Vm : disk'[v].boot = disk[v].boot /\ disk'[v].base = disk[v].base
  PROVE  UNCHANGED Life!lifeVars
  BY DEF Life!lifeVars

\* A step on the disk of a name without a VM makes it anew or edits it.
LEMMA LifeDisk ==
  ASSUME NEW v \in Vm, created[v] = {},
         UNCHANGED <<created, power, install, ready, dropped>>,
         \A u \in Vm \ {v} : disk'[u] = disk[u],
         disk'[v].base \in VhdName,
         \/ disk'[v].boot \in {"absent", "blank"}
         \/ /\ disk'[v].boot = "edited" /\ disk[v].boot # "absent"
            /\ disk'[v].base = disk[v].base
  PROVE  Life!Next
<1> USE DEF Life!Next, Life!BootDisk
<1>1. CASE disk'[v].boot \in {"absent", "blank"}
  <2> DEFINE boot(u) == [boot |-> disk[u].boot, base |-> disk[u].base]
             d == [boot |-> disk'[v].boot, base |-> disk'[v].base]
  <2>1. d \in Life!BootDisk /\ d.boot # "edited"  BY <1>1
  <2>2. [u \in Vm |-> boot(u)]' = [[u \in Vm |-> boot(u)] EXCEPT ![v] = d]
        OBVIOUS
  <2>3. Life!Rebuild(v)  BY <2>1, <2>2 DEF Life!Rebuild
  <2> QED BY <2>3
<1>2. CASE /\ disk'[v].boot = "edited" /\ disk[v].boot # "absent"
           /\ disk'[v].base = disk[v].base
  <2>1. Life!Edit(v)  BY <1>2 DEF Life!Edit
  <2> QED BY <2>1
<1> QED BY <1>1, <1>2

\* A name gets its VM, and the VM runs.
LEMMA LifeMake ==
  ASSUME NEW v \in Vm, created[v] = {}, created'[v] # {}, disk[v].boot = "edited",
         UNCHANGED <<disk, power, install, ready, dropped>>,
         \A u \in Vm \ {v} : created'[u] = created[u]
  PROVE  Life!Next
<1>1. {u \in Vm : created'[u] # {}} = {u \in Vm : created[u] # {}} \cup {v}
      OBVIOUS
<1>2. Life!Make(v)  BY <1>1 DEF Life!Make
<1> QED BY <1>2 DEF Life!Next

LEMMA LifeStart ==
  ASSUME NEW v \in Vm, created[v] # {}, power[v] = NoSession, power'[v] # NoSession,
         UNCHANGED <<disk, created, install, ready, dropped>>,
         \A u \in Vm \ {v} : power'[u] = power[u]
  PROVE  Life!Next
<1>1. {u \in Vm : power'[u] # NoSession} = {u \in Vm : power[u] # NoSession} \cup {v}
      OBVIOUS
<1>2. Life!Start(v)  BY <1>1 DEF Life!Start
<1> QED BY <1>2 DEF Life!Next

LEMMA LifeScript ==
  ASSUME LifeInv, NEW s \in Session, ScriptStep(s)
  PROVE  [Life!Next]_(Life!lifeVars)
<1> DEFINE v == VmOf(s)
<1>1. v \in Vm /\ VhdOf(s) \in VhdName  BY RequestKeys DEF LifeInv, TypeOK
<1> USE DEF LifeInv, TypeOK, DiskOK, VmOK, At, restVars, boundVars
<1>2. CASE PrepDisks(s)
  <2>1. created[v] = {}  BY <1>2 DEF PrepDisks, BootMade, DiskInv, Unnamed
  <2>2. UNCHANGED <<created, power, install, ready, dropped>>  BY <1>2 DEF PrepDisks, BootMade, vmVars
  <2>3. CASE DiskInUse(v)
    <3>1. \A u \in Vm : disk'[u].boot = disk[u].boot /\ disk'[u].base = disk[u].base
          BY <1>2, <2>3 DEF PrepDisks, Disk
    <3> QED BY <2>2, <3>1, LifeSame
  <2>4. CASE ~DiskInUse(v)
    <3>1. PICK boot \in {"absent", "blank"} :
            disk' = [disk EXCEPT ![v].boot = boot, ![v].base = VhdOf(s),
                                 ![v].mounted = FALSE, ![v].wim = WimChild(s, v)]
          BY <1>2, <2>4 DEF PrepDisks, BootMade
    <3> HIDE DEF v
    <3>2. /\ \A u \in Vm \ {v} : disk'[u] = disk[u]
          /\ disk'[v].base = VhdOf(s) /\ disk'[v].boot \in {"absent", "blank"}
          BY <1>1, <3>1 DEF Disk
    <3> QED BY <1>1, <2>1, <2>2, <3>2, LifeDisk
  <2> QED BY <2>3, <2>4
<1>3. CASE EditBoot(s)
  <2>1. created[v] = {}  BY <1>3 DEF EditBoot, DiskInv, Unnamed
  <2>2. UNCHANGED <<created, power, install, ready, dropped>>  BY <1>3 DEF EditBoot, vmVars
  <2>3. CASE UNCHANGED disk  BY <2>2, <2>3, LifeSame
  <2>4. CASE disk' = [disk EXCEPT ![VmOf(s)].boot = "edited"]
    <3>1. /\ \A u \in Vm \ {v} : disk'[u] = disk[u]
          /\ disk'[v].base = disk[v].base /\ disk'[v].boot = "edited"
          /\ disk[v].base \in VhdName
          BY <1>1, <2>4 DEF Disk
    <3>2. disk[v].boot # "absent"  BY <1>3 DEF EditBoot, BlankInv
    <3> QED BY <1>1, <2>1, <2>2, <3>1, <3>2, LifeDisk
  <2> QED BY <1>3, <2>3, <2>4 DEF EditBoot
<1>4. CASE MountBoot(s) \/ DismountBoot(s)
  <2>1. UNCHANGED <<created, power, install, ready, dropped>>
        BY <1>4 DEF MountBoot, DismountBoot, vmVars
  <2>2. \A u \in Vm : disk'[u].boot = disk[u].boot /\ disk'[u].base = disk[u].base
        BY <1>4 DEF MountBoot, DismountBoot, Disk
  <2> QED BY <2>1, <2>2, LifeSame
<1>5. CASE NewVm(s)
  <2>1. created[v] = {} /\ disk[v].boot = "edited"
        BY <1>5 DEF NewVm, DiskInv, Unnamed
  <2>2. UNCHANGED <<disk, power, install, ready, dropped>>  BY <1>5 DEF NewVm
  <2>3. CASE UNCHANGED created  BY <2>2, <2>3, LifeSame
  <2>4. CASE created' = [created EXCEPT ![v] = @ \cup {s}]
    <3>1. /\ created'[v] # {}
          /\ \A u \in Vm \ {v} : created'[u] = created[u]
          BY <1>1, <2>4
    <3> QED BY <1>1, <2>1, <2>2, <3>1, LifeMake
  <2> QED BY <1>5, <2>3, <2>4 DEF NewVm
<1>6. CASE StartVm(s)
  <2>1. UNCHANGED <<disk, created, install, ready, dropped>>  BY <1>6 DEF StartVm
  <2>2. CASE UNCHANGED power  BY <2>1, <2>2, LifeSame
  <2>3. CASE ~UNCHANGED power
    <3>1. /\ power' = [power EXCEPT ![v] = s]
          /\ power[v] = NoSession /\ created[v] # {}
          BY <1>6, <2>3 DEF StartVm, DiskInUse
    <3>2. /\ power'[v] # NoSession
          /\ \A u \in Vm \ {v} : power'[u] = power[u]
          BY <1>1, <3>1, SessionAssumption
    <3> QED BY <1>1, <2>1, <3>1, <3>2, LifeStart
  <2> QED BY <2>2, <2>3
<1>7. CASE Install(s)
  <2>1. UNCHANGED <<disk, created, power, ready, dropped>> /\ pc[s] = "install"
        BY <1>7 DEF Install
  <2>2. power[v] # NoSession /\ v \notin ready
        BY <2>1, SessionAssumption DEF InstalledInv, GuestInv, ReadyInv, Settled, Late
  <2>3. CASE guest[v] = "up"
    <3>1. Life!Install(v)
          BY <1>1, <1>7, <2>1, <2>2, <2>3 DEF Install, Life!Install
    <3> QED BY <1>1, <3>1 DEF Life!Next
  <2>4. CASE guest[v] # "up"
        BY <1>7, <2>1, <2>4, LifeSame DEF Install
  <2> QED BY <2>3, <2>4
<1>8. CASE Verify(s)
  <2>1. UNCHANGED <<created, power, install, dropped>> /\ pc[s] = "verify"
        BY <1>8 DEF Verify
  <2>2. \A u \in Vm : disk'[u].boot = disk[u].boot /\ disk'[u].base = disk[u].base
        BY <1>8 DEF Verify, Disk
  <2>3. CASE UNCHANGED ready  BY <2>1, <2>2, <2>3, LifeSame
  <2>4. CASE ~UNCHANGED ready
    <3>1. ready' = ready \cup {v} /\ ~ScriptFailed(v)  BY <1>8, <2>4 DEF Verify
    <3>2. /\ power[v] # NoSession /\ v \notin ready
          /\ guest[v] = "up" \/ v \in dropped
          /\ install[v] # "no" \/ v \in dropped
          BY <2>1, SessionAssumption DEF InstalledInv, GuestInv, ReadyInv, Settled, Late
    <3>3. install[v] = "ok" \/ v \in dropped
          BY <1>1, <3>1, <3>2 DEF ScriptFailed
    <3>4. Life!Announce(v)
          BY <1>1, <2>1, <2>2, <3>1, <3>2, <3>3 DEF Life!Announce
    <3> QED BY <1>1, <3>4 DEF Life!Next
  <2> QED BY <2>3, <2>4
<1>9. CASE ~(PrepDisks(s) \/ EditBoot(s) \/ MountBoot(s) \/ DismountBoot(s) \/
             NewVm(s) \/ StartVm(s) \/ Install(s) \/ Verify(s))
  <2>1. UNCHANGED <<disk, created, power, install, ready, dropped>>
        BY <1>9 DEF ScriptStep, CheckBase, CopyBaseBegin, CopyBaseEnd, GetIso,
             CopyIsoEnd, MountIso, Convert, DismountIso, MarkBase, CheckWim,
             StaleWim, RemoveWim, NewWim, MountWim, FillWim, SaveWimEnd, MoveWim,
             ThrowToDismountWim, MarkWim, DismountWim,
             CheckVm, WaitOne, ReleaseMutex, Heartbeat, PsDirect, hostVars, vmVars
  <2> QED BY <2>1, LifeSame
<1> QED BY <1>2, <1>3, <1>4, <1>5, <1>6, <1>7, <1>8, <1>9

\* The rest: seen are a restart of the host, as the end of all VMs' runs, and
\* a PowerShell session that is lost.
LEMMA LifeOthers ==
  ASSUME LifeInv, [Next]_vars, ~\E s \in Session : ScriptStep(s)
  PROVE  [Life!Next]_(Life!lifeVars)
<1>1. CASE HostRestart
  <2>1. /\ UNCHANGED <<created, install, ready, dropped>>
        /\ \A v \in Vm : power'[v] = NoSession
        BY <1>1 DEF HostRestart
  <2>2. \A v \in Vm : disk'[v].boot = disk[v].boot /\ disk'[v].base = disk[v].base
        BY <1>1 DEF HostRestart, LifeInv, TypeOK, DiskOK, Disk
  <2>3. Life!Stop  BY <2>1, <2>2 DEF Life!Stop
  <2> QED BY <2>3 DEF Life!Next
<1>2. ASSUME NEW v \in Vm, GuestDown(v)  PROVE Life!Next
  <2>1. /\ UNCHANGED <<disk, created, power, install, ready>>
        /\ v \notin dropped /\ dropped' = dropped \cup {v}
        /\ power[v] # NoSession
        BY <1>2 DEF GuestDown, LifeInv, InstalledInv, GuestInv
  <2>2. Life!Lose(v)  BY <2>1 DEF Life!Lose
  <2> QED BY <2>2 DEF Life!Next
<1>3. CASE ~HostRestart /\ ~\E v \in Vm : GuestDown(v)
  <2>1. UNCHANGED <<disk, created, power, install, ready, dropped>>
        BY <1>3 DEF Next, Begin, Crash, CloseSession, Finalize, GuestUp,
                    hostVars, vmVars, restVars, boundVars, vars
  <2> QED BY <2>1, LifeSame
<1> QED BY <1>1, <1>2, <1>3

\* ContainerHost implements VmLifecycle when no two sessions are given the same
\* VM name: through kills, restarts, lost PowerShell sessions, failing steps
\* and any order of the sessions, every name's disk, VM, installation and
\* announcement come about as specified there.
THEOREM LifecycleCorrect == DistinctVms => (Spec => ImplementsLifecycle)
<1> SUFFICES ASSUME DistinctVms  PROVE Spec => ImplementsLifecycle  OBVIOUS
<1>1. Init => Life!Init
      BY DEF Init, NoDisk, Life!Init, Life!BootDisk, VhdName, Brand
<1>2. LifeInv /\ [Next]_vars => [Life!Next]_(Life!lifeVars)
      BY LifeScript, LifeOthers
<1>3. Spec => []LifeInv
      BY TypeCorrect, DiskCorrect, BlankCorrect, InstalledCorrect, PTL DEF LifeInv
<1> QED BY <1>1, <1>2, <1>3, PTL DEF Spec, ImplementsLifecycle, Life!Spec

===============================================================================
