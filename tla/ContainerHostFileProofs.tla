------------------------ MODULE ContainerHostFileProofs ------------------------
(***************************************************************************)
(* The files New-ContainerHost.ps1 leaves on the host.  What it attaches   *)
(* it detaches again on every way out that is not a killed process, for    *)
(* any number of sessions, also when they are given the same names.  The   *)
(* WIM VHD whose marker stands was filled, through kills and restarts,     *)
(* when no two sessions ask for the same image, and the disk of a VM is a  *)
(* child of such a VHD.  That the .wim in it is the one asked for is not   *)
(* so, and not stated: the files in %TEMP% are moved by a wildcard.        *)
(***************************************************************************)
EXTENDS ContainerHostVmProofs

\* The sessions that have to detach something again: a boot disk, which they
\* know, a WIM VHD, the ISO.
HasBoot(s, v) ==
  VmOf(s) = v /\ pc[s] \in {"editBoot", "dismountBoot"} /\ bootVhd[s] # "none"
HasWim(s, k) ==
  WimOf(s) = k /\ pc[s] \in WithWim
HasIso(s) == pc[s] \in {"convert", "dismountIso"}

BootOwned == \A v \in Vm : disk[v].mounted => \E s \in Session : HasBoot(s, v)
WimOwned == \A k \in wimMounted : \E s \in Session : HasWim(s, k)
IsoOwned == isoMounted => \E s \in Session : HasIso(s)

\* CleanExit with the boot disk's owner knowing the disk: an owner that does
\* not would leave its finally block without the dismount.
Owned == crashes = 0 => BootOwned /\ WimOwned /\ IsoOwned

LEMMA OwnedIsClean == Owned => CleanExit
  BY DEF Owned, BootOwned, WimOwned, IsoOwned, HasBoot, HasWim, HasIso, CleanExit

--------------------------------------------------------------------------
\* Boot disks: attached by a session that then has it; the session parts with
\* it by the dismount.
LEMMA BootMoves ==
  ASSUME TypeOK, NEW s \in Session, ScriptStep(s), NEW v \in Vm, disk'[v].mounted
  PROVE  /\ disk[v].mounted \/ HasBoot(s, v)'
         /\ HasBoot(s, v) => HasBoot(s, v)'
<1> USE RequestKeys, OneMoves DEF TypeOK, PcOK, ArgsOK, DiskOK, Disk, Goto, At
<1>1. CASE PrepDisks(s)
      BY <1>1 DEF PrepDisks, BootMade, DiskInUse, HasBoot, VmOf
<1>2. CASE MountBoot(s)
      BY <1>2 DEF MountBoot, HasBoot, VmOf, argVars
<1>3. CASE EditBoot(s)
      BY <1>3 DEF EditBoot, HasBoot, VmOf, argVars
<1>4. CASE DismountBoot(s)
      BY <1>4 DEF DismountBoot, HasBoot, VmOf
<1>5. CASE Verify(s)
      BY <1>5 DEF Verify, HasBoot, VmOf
<1>6. CASE ~(PrepDisks(s) \/ MountBoot(s) \/ EditBoot(s) \/ DismountBoot(s) \/ Verify(s))
  <2>1. UNCHANGED disk /\ pc[s] \notin {"editBoot", "dismountBoot"}
        BY <1>6 DEF ScriptStep, CheckBase, CopyBaseBegin, CopyBaseEnd, GetIso,
             CopyIsoEnd, MountIso, Convert, DismountIso, MarkBase, CheckWim,
             StaleWim, RemoveWim, NewWim, MountWim, FillWim, SaveWimEnd, MoveWim,
             ThrowToDismountWim, MarkWim, DismountWim,
             CheckVm, WaitOne, ReleaseMutex, NewVm, StartVm, Heartbeat,
             PsDirect, Install, hostVars
  <2> QED BY <2>1 DEF HasBoot
<1> QED BY <1>1, <1>2, <1>3, <1>4, <1>5, <1>6

\* The WIM VHD, the same.
LEMMA WimMoves ==
  ASSUME TypeOK, NEW s \in Session, ScriptStep(s), NEW k \in wimMounted'
  PROVE  /\ k \in wimMounted \/ HasWim(s, k)'
         /\ HasWim(s, k) => HasWim(s, k)'
<1> USE OneMoves DEF TypeOK, PcOK, Goto, At
<1>1. CASE MountWim(s)
      BY <1>1 DEF MountWim, ThrowToDismountWim, HasWim, WithWim, WimOf
<1>2. CASE FillWim(s) \/ SaveWimEnd(s) \/ MoveWim(s) \/ MarkWim(s)
      BY <1>2 DEF FillWim, SaveWimEnd, MoveWim, MarkWim, ThrowToDismountWim,
                  HasWim, WithWim, WimOf
<1>3. CASE DismountWim(s)  BY <1>3 DEF DismountWim, HasWim, WithWim, WimOf
<1>4. CASE ~(MountWim(s) \/ FillWim(s) \/ SaveWimEnd(s) \/ MoveWim(s) \/
             MarkWim(s) \/ DismountWim(s))
  <2>1. UNCHANGED wimMounted /\ pc[s] \notin WithWim
        BY <1>4 DEF ScriptStep, CheckBase, CopyBaseBegin, CopyBaseEnd, GetIso,
             CopyIsoEnd, MountIso, Convert, DismountIso, MarkBase, CheckWim,
             StaleWim, RemoveWim, NewWim, CheckVm, PrepDisks, WaitOne, MountBoot,
             EditBoot, DismountBoot, ReleaseMutex, NewVm, StartVm, Heartbeat,
             PsDirect, Install, Verify, cacheVars, wimVars, WithWim
  <2> QED BY <2>1 DEF HasWim
<1> QED BY <1>1, <1>2, <1>3, <1>4

\* The ISO: one mount for all, that any session's finally block takes down.
LEMMA IsoMoves ==
  ASSUME TypeOK, NEW s \in Session, ScriptStep(s), isoMounted'
  PROVE  /\ isoMounted \/ HasIso(s)'
         /\ HasIso(s) => HasIso(s)'
<1> USE DEF TypeOK, PcOK, Goto, At
<1>1. CASE MountIso(s) \/ Convert(s) \/ DismountIso(s)
      BY <1>1 DEF MountIso, Convert, ConversionFails, DismountIso, HasIso, isoVars
<1>2. CASE EditBoot(s)  BY <1>2 DEF EditBoot, HasIso
<1>3. CASE ~(MountIso(s) \/ Convert(s) \/ DismountIso(s) \/ EditBoot(s))
  <2>1. UNCHANGED isoMounted /\ pc[s] \notin {"convert", "dismountIso"}
        BY <1>3 DEF ScriptStep, CheckBase, CopyBaseBegin, CopyBaseEnd, GetIso,
             CopyIsoEnd, MarkBase, CheckWim, StaleWim, RemoveWim, NewWim,
             MountWim, FillWim, SaveWimEnd, MoveWim,
             ThrowToDismountWim, MarkWim, DismountWim, CheckVm, PrepDisks, BootMade, WaitOne,
             MountBoot, DismountBoot, ReleaseMutex, NewVm, StartVm, Heartbeat,
             PsDirect, Install, Verify, cacheVars, isoVars
  <2> QED BY <2>1 DEF HasIso
<1> QED BY <1>1, <1>2, <1>3

--------------------------------------------------------------------------
LEMMA ScriptOwned ==
  ASSUME TypeOK, Owned, NEW s \in Session, ScriptStep(s)
  PROVE  Owned'
<1> SUFFICES ASSUME crashes' = 0  PROVE (BootOwned /\ WimOwned /\ IsoOwned)'
    BY DEF Owned
<1>1. BootOwned /\ WimOwned /\ IsoOwned  BY OneMoves DEF Owned
<1>2. ASSUME NEW t \in Session \ {s}
      PROVE  /\ \A v \in Vm : HasBoot(t, v) => HasBoot(t, v)'
             /\ \A k \in WimKey : HasWim(t, k) => HasWim(t, k)'
             /\ HasIso(t) => HasIso(t)'
      BY OneMoves DEF HasBoot, HasWim, HasIso, VmOf, WimOf
<1>3. BootOwned'
  <2> SUFFICES ASSUME NEW v \in Vm, disk'[v].mounted
               PROVE \E t \in Session : HasBoot(t, v)'
      BY DEF BootOwned
  <2>1. CASE HasBoot(s, v)'  BY <2>1
  <2>2. CASE ~HasBoot(s, v)'
    <3>1. disk[v].mounted /\ ~HasBoot(s, v)  BY <2>2, BootMoves
    <3>2. PICK t \in Session : HasBoot(t, v)  BY <1>1, <3>1 DEF BootOwned
    <3> QED BY <1>2, <3>1, <3>2
  <2> QED BY <2>1, <2>2
<1>4. WimOwned'
  <2> SUFFICES ASSUME NEW k \in wimMounted'  PROVE \E t \in Session : HasWim(t, k)'
      BY DEF WimOwned
  <2>1. CASE HasWim(s, k)'  BY <2>1
  <2>2. CASE ~HasWim(s, k)'
    <3>1. k \in wimMounted /\ ~HasWim(s, k)  BY <2>2, WimMoves
    <3>2. PICK t \in Session : HasWim(t, k)  BY <1>1, <3>1 DEF WimOwned
    <3> QED BY <1>2, <3>1, <3>2 DEF TypeOK, WimOK
  <2> QED BY <2>1, <2>2
<1>5. IsoOwned'
  <2> SUFFICES ASSUME isoMounted'  PROVE \E t \in Session : HasIso(t)'
      BY DEF IsoOwned
  <2>1. CASE HasIso(s)'  BY <2>1
  <2>2. CASE ~HasIso(s)'
    <3>1. isoMounted /\ ~HasIso(s)  BY <2>2, IsoMoves
    <3>2. PICK t \in Session : HasIso(t)  BY <1>1, <3>1 DEF IsoOwned
    <3> QED BY <1>2, <3>1, <3>2
  <2> QED BY <2>1, <2>2
<1> QED BY <1>3, <1>4, <1>5

\* Nothing else attaches a disk or detaches it from its owner, but a crash.
LEMMA OthersOwned ==
  ASSUME TypeOK, Owned, [Next]_vars, ~\E s \in Session : ScriptStep(s)
  PROVE  Owned'
<1> SUFFICES ASSUME crashes' = 0  PROVE (BootOwned /\ WimOwned /\ IsoOwned)'
    BY DEF Owned
<1> USE DEF Owned, BootOwned, WimOwned, IsoOwned, HasBoot, HasWim, HasIso,
            VmOf, WimOf, TypeOK, PcOK, ArgsOK, BoundOK
<1>1. ASSUME NEW s \in Session, Begin(s)
      PROVE (BootOwned /\ WimOwned /\ IsoOwned)'
  <2>1. \A t \in Session \ {s} :
          pc'[t] = pc[t] /\ req'[t] = req[t] /\ bootVhd'[t] = bootVhd[t]
        BY <1>1 DEF Begin, Goto
  <2>2. pc[s] \in Ended /\ crashes = 0
        /\ UNCHANGED <<disk, wimMounted, isoMounted>>
        BY <1>1 DEF Begin, cacheVars, wimVars, isoVars, hostVars
  <2>3. \A t \in Session : t = s =>
          pc[t] \notin {"editBoot", "dismountBoot", "convert", "dismountIso"}
                         \cup WithWim
        BY <2>2 DEF Ended, WithWim
  <2> QED BY <2>1, <2>2, <2>3
<1>2. ASSUME NEW s \in Session, CloseSession(s)
      PROVE (BootOwned /\ WimOwned /\ IsoOwned)'
      BY <1>2 DEF CloseSession, restVars, argVars, boundVars, cacheVars,
                  wimVars, isoVars
<1>3. ASSUME NEW s \in Session, NEW i \in Image, Finalize(s, i)
      PROVE (BootOwned /\ WimOwned /\ IsoOwned)'
      BY <1>3 DEF Finalize, restVars, argVars, boundVars, cacheVars,
                  wimVars, isoVars
<1>4. ASSUME NEW v \in Vm, GuestUp(v) \/ GuestDown(v)
      PROVE (BootOwned /\ WimOwned /\ IsoOwned)'
      BY <1>4 DEF GuestUp, GuestDown, restVars, argVars, boundVars, cacheVars,
                  wimVars, isoVars
<1>5. CASE UNCHANGED vars
      BY <1>5 DEF vars, restVars, argVars, boundVars, cacheVars, wimVars,
                  isoVars, hostVars
<1>6. ~HostRestart /\ \A s \in Session : ~Crash(s)
      BY DEF HostRestart, Crash
<1> QED BY <1>1, <1>2, <1>3, <1>4, <1>5, <1>6 DEF Next

LEMMA OwnedCorrect == Spec => []Owned
<1>1. Init => Owned
      BY DEF Init, NoDisk, Owned, BootOwned, WimOwned, IsoOwned
<1>2. TypeOK /\ Owned /\ [Next]_vars => Owned'
      BY ScriptOwned, OthersOwned
<1> QED BY <1>1, <1>2, TypeCorrect, PTL DEF Spec

\* The finally blocks detach on every way out of the try: unless a process was
\* killed, whatever is attached belongs to a session that is still at work on it.
THEOREM ExitCorrect == Spec => []CleanExit
  BY OwnedCorrect, OwnedIsClean, PTL

--------------------------------------------------------------------------
\* Nobody is asked for an image that another session is asked for, too.
DistinctWims ==
  \A s, t \in Session : s # t =>
    \A r \in Requests[s], q \in Requests[t] : LocalWim(r) # LocalWim(q)

\* The steps on the WIM VHD before its marker is written, and those after.
Unmarked ==
  {"staleWim", "removeWim", "newWim", "mountWim", "fillWim", "savingWim",
   "moveWim", "markWim"}
Beyond ==
  {"checkVm", "prepDisks", "waitMutex", "mountBoot", "editBoot", "dismountBoot",
   "releaseMutex", "newVm", "startVm", "heartbeat", "psDirect", "install",
   "verify"}

\* A marker stands for a VHD with a .wim.  A session works on the VHD while it
\* has no marker, and goes on past it only when it has one; and a VM's WIM
\* disk is a child of one that has.
Filled == {"wrong", "saved"}
WimInv ==
  /\ \A s \in Session : req[s] \in Requests[s]
  /\ \A k \in wimMark : wim[k] \in Filled
  /\ \A s \in Session : pc[s] \in Unmarked => WimOf(s) \notin wimMark
  /\ \A s \in Session :
       \/ pc[s] = "dismountWim" /\ ~throwing[s]
       \/ Saves(req[s]) /\ pc[s] \in Beyond
       => WimOf(s) \in wimMark
  /\ \A v \in Vm : disk[v].wim \subseteq wimMark

LEMMA Images ==
  ASSUME DistinctWims, WimInv, NEW s \in Session, NEW t \in Session, s # t
  PROVE  WimOf(s) # WimOf(t)
  BY DEF DistinctWims, WimInv, WimOf

\* Steps elsewhere in the script, that make no child.
LEMMA WimApart ==
  ASSUME TypeOK, WimInv, NEW s \in Session, NEW step, Goto(s, step),
         UNCHANGED <<wim, wimMark, req>>,
         \A v \in Vm : disk'[v].wim \subseteq disk[v].wim,
         \A t \in Session \ {s} : throwing'[t] = throwing[t],
         step \notin Unmarked \cup {"dismountWim"},
         step \in Beyond => pc[s] \in Beyond
  PROVE  WimInv'
  BY DEF TypeOK, PcOK, WimInv, Goto, WimOf, Saves, Unmarked, Beyond

LEMMA WimApartSteps ==
  ASSUME TypeOK, WimInv, NEW s \in Session, ScriptStep(s), ~PrepDisks(s),
         ~(CheckWim(s) \/ StaleWim(s) \/ RemoveWim(s) \/ NewWim(s) \/
           MountWim(s) \/ FillWim(s) \/ SaveWimEnd(s) \/ MoveWim(s) \/
           MarkWim(s) \/ DismountWim(s))
  PROVE  WimInv'
<1> USE WimApart DEF At, AfterFinally, Unmarked, Beyond, cacheVars, wimVars, restVars,
                     argVars, hostVars, TypeOK, ThrowOK
<1>1. CASE CheckBase(s) \/ CopyBaseBegin(s) \/ CopyBaseEnd(s) \/ GetIso(s)
      BY <1>1 DEF CheckBase, CopyBaseBegin, CopyBaseEnd, GetIso
<1>2. CASE CopyIsoEnd(s) \/ MountIso(s) \/ Convert(s) \/ DismountIso(s) \/ MarkBase(s)
      BY <1>2 DEF CopyIsoEnd, MountIso, Convert, ConversionFails, DismountIso,
                  MarkBase
<1>3. CASE CheckVm(s)  BY <1>3 DEF CheckVm
<1>4. CASE WaitOne(s)  BY <1>4 DEF WaitOne
<1>5. CASE MountBoot(s) \/ EditBoot(s) \/ DismountBoot(s) \/ Verify(s)
  <2>1. \A v \in Vm : disk'[v].wim \subseteq disk[v].wim
        BY <1>5 DEF MountBoot, EditBoot, DismountBoot, Verify, DiskOK, Disk
  <2> QED BY <1>5, <2>1 DEF MountBoot, EditBoot, DismountBoot, Verify
<1>6. CASE ReleaseMutex(s) \/ NewVm(s) \/ StartVm(s)
      BY <1>6 DEF ReleaseMutex, NewVm, StartVm
<1>7. CASE Heartbeat(s) \/ PsDirect(s) \/ Install(s)
      BY <1>7 DEF Heartbeat, PsDirect, Install
<1> QED BY <1>1, <1>2, <1>3, <1>4, <1>5, <1>6, <1>7 DEF ScriptStep

\* The child is made of the VHD the session found or left filled.
LEMMA ChildStep ==
  ASSUME TypeOK, WimInv, NEW s \in Session, PrepDisks(s)
  PROVE  WimInv'
<1> USE RequestKeys DEF TypeOK, PcOK, DiskOK, Disk
<1>1. /\ pc[s] = "prepDisks" /\ pc'[s] = "waitMutex"
      /\ \A t \in Session \ {s} : pc'[t] = pc[t]
      /\ UNCHANGED <<wim, wimMark, req, throwing>>
      BY DEF PrepDisks, At, Goto, cacheVars, wimVars
<1>2. WimChild(s, VmOf(s)) \subseteq wimMark
      BY <1>1 DEF WimChild, WimInv, Beyond
<1> HIDE DEF WimChild
<1>3. \A v \in Vm : disk'[v].wim \subseteq wimMark
  <2>1. CASE DiskInUse(VmOf(s))
    <3>1. disk' = [disk EXCEPT ![VmOf(s)].wim = WimChild(s, VmOf(s))]
          BY <2>1 DEF PrepDisks
    <3> QED BY <1>2, <3>1 DEF WimInv
  <2>2. CASE ~DiskInUse(VmOf(s))
    <3>1. PICK boot \in {"absent", "blank"} :
            disk' = [disk EXCEPT ![VmOf(s)].boot = boot, ![VmOf(s)].base = VhdOf(s),
                                 ![VmOf(s)].mounted = FALSE,
                                 ![VmOf(s)].wim = WimChild(s, VmOf(s))]
          BY <2>2 DEF PrepDisks, BootMade
    <3> QED BY <1>2, <3>1 DEF WimInv
  <2> QED BY <2>1, <2>2
<1> QED BY <1>1, <1>3 DEF WimInv, WimOf, Saves, Unmarked, Beyond

\* The steps on the WIM VHD.
LEMMA ImageSteps ==
  ASSUME DistinctWims, TypeOK, WimInv, NEW s \in Session,
         CheckWim(s) \/ StaleWim(s) \/ RemoveWim(s) \/ NewWim(s) \/
         MountWim(s) \/ FillWim(s) \/ SaveWimEnd(s) \/ MoveWim(s) \/
         MarkWim(s) \/ DismountWim(s)
  PROVE  WimInv'
<1> DEFINE k == WimOf(s)
<1>1. k \in WimKey /\ \A t \in Session \ {s} : WimOf(t) # k
      BY Images, RequestKeys DEF TypeOK
<1>2. /\ UNCHANGED <<req, disk>> /\ \A t \in Session : WimOf(t)' = WimOf(t)
      /\ \A t \in Session \ {s} : pc'[t] = pc[t] /\ throwing'[t] = throwing[t]
      BY DEF CheckWim, StaleWim, RemoveWim, NewWim, MountWim, FillWim, SaveWimEnd,
             MoveWim, MarkWim, DismountWim, ThrowToDismountWim, At, Goto,
             hostVars, restVars, argVars, WimOf, TypeOK, PcOK, ThrowOK
<1> HIDE DEF k
<1> USE DEF TypeOK, PcOK, ThrowOK, WimOK, WimInv, Goto, At, Unmarked, Beyond, Filled
<1>3. CASE CheckWim(s)
  <2>1. /\ UNCHANGED <<wim, wimMark, throwing>>
        /\ \/ pc'[s] = "staleWim" /\ (wim[k] = "absent" \/ k \notin wimMark)
           \/ pc'[s] = "checkVm" /\ (Saves(req[s]) => k \in wimMark)
        BY <1>3 DEF CheckWim, WimPresent, cacheVars, wimVars, restVars, k
  <2> QED BY <1>1, <1>2, <2>1 DEF k
<1>4. CASE StaleWim(s)
  <2>1. /\ UNCHANGED <<wim, wimMark, throwing>> /\ pc[s] = "staleWim"
        /\ pc'[s] \in {"removeWim", "newWim"}
        BY <1>4 DEF StaleWim, cacheVars, wimVars, restVars
  <2> QED BY <1>1, <1>2, <2>1
<1>5. CASE RemoveWim(s)
  <2>1. /\ UNCHANGED <<wimMark, throwing>> /\ pc[s] = "removeWim"
        /\ pc'[s] = "newWim"
        /\ \A j \in WimKey \ {k} : wim'[j] = wim[j]
        BY <1>5 DEF RemoveWim, restVars, k
  <2> QED BY <1>1, <1>2, <2>1, RequestKeys DEF k
<1>6. CASE NewWim(s)
  <2>1. /\ UNCHANGED <<wimMark, throwing>> /\ pc[s] = "newWim"
        /\ pc'[s] \in {"failed", "mountWim"}
        /\ \A j \in WimKey \ {k} : wim'[j] = wim[j]
        BY <1>6 DEF NewWim, restVars, k
  <2> QED BY <1>1, <1>2, <2>1, RequestKeys DEF k
<1>7. CASE MountWim(s) \/ FillWim(s) \/ SaveWimEnd(s) \/ MoveWim(s)
  <2>1. /\ UNCHANGED wimMark /\ pc[s] \in Unmarked
        /\ \/ pc'[s] \in {"fillWim", "savingWim", "moveWim", "markWim"}
           \/ pc'[s] = "dismountWim" /\ throwing'[s]
        /\ \A j \in WimKey \ {k} : wim'[j] = wim[j]
        BY <1>1, <1>7 DEF MountWim, FillWim, SaveWimEnd, MoveWim,
                          ThrowToDismountWim, k
  <2> QED BY <1>1, <1>2, <2>1, RequestKeys DEF k
<1>8. CASE MarkWim(s)
  <2>1. /\ UNCHANGED wim /\ pc[s] = "markWim" /\ pc'[s] = "dismountWim"
        /\ \/ wim[k] \in Filled /\ wimMark' = wimMark \cup {k}
           \/ throwing'[s] /\ UNCHANGED wimMark
        BY <1>8 DEF MarkWim, ThrowToDismountWim, k
  <2> QED BY <1>1, <1>2, <2>1 DEF k
<1>9. CASE DismountWim(s)
  <2>1. /\ UNCHANGED <<wim, wimMark, throwing>> /\ pc[s] = "dismountWim"
        /\ \/ pc'[s] = "failed"
           \/ pc'[s] = "checkVm" /\ ~throwing[s]
        BY <1>9 DEF DismountWim, AfterFinally, restVars
  <2> QED BY <1>1, <1>2, <2>1 DEF k
<1> QED BY <1>3, <1>4, <1>5, <1>6, <1>7, <1>8, <1>9

\* Kills and restarts leave the files as they are, and end the runs.
LEMMA WimStep ==
  ASSUME DistinctWims, TypeOK, WimInv, [Next]_vars
  PROVE  WimInv'
<1> USE DEF restVars, argVars, cacheVars, wimVars, hostVars, Saves
<1>1. CASE UNCHANGED vars  BY <1>1 DEF vars, WimInv, WimOf
<1>2. ASSUME NEW s \in Session, ScriptStep(s)  PROVE WimInv'
      BY <1>2, ImageSteps, ChildStep, WimApartSteps
<1>3. ASSUME NEW s \in Session, Begin(s)  PROVE WimInv'
  <2>1. PICK r \in Requests[s] : req' = [req EXCEPT ![s] = r]
        BY <1>3 DEF Begin
  <2>2. PICK step \in {"checkBase", "failed"} : Goto(s, step)
        BY <1>3 DEF Begin
  <2>3. /\ UNCHANGED <<wim, wimMark, disk>>
        /\ \A t \in Session \ {s} : throwing'[t] = throwing[t]
        BY <1>3 DEF Begin, TypeOK, ThrowOK
  <2> QED BY <2>1, <2>2, <2>3
          DEF TypeOK, PcOK, ArgsOK, WimInv, Goto, WimOf, Unmarked, Beyond
<1>4. ASSUME NEW s \in Session, Crash(s)  PROVE WimInv'
      BY <1>4, WimApart DEF Crash, Unmarked, Beyond
<1>5. ASSUME NEW s \in Session, NEW i \in Image, CloseSession(s) \/ Finalize(s, i)
      PROVE WimInv'
      BY <1>5 DEF CloseSession, Finalize, WimInv, WimOf
<1>6. ASSUME NEW v \in Vm, GuestUp(v) \/ GuestDown(v)  PROVE WimInv'
      BY <1>6 DEF GuestUp, GuestDown, WimInv, WimOf
<1>7. CASE HostRestart
      BY <1>7 DEF HostRestart, TypeOK, DiskOK, Disk, WimInv, WimOf, Unmarked, Beyond
<1>8. Image # {}  BY DEF Image
<1> QED BY <1>1, <1>2, <1>3, <1>4, <1>5, <1>6, <1>7, <1>8 DEF Next

LEMMA WimCorrect == DistinctWims => (Spec => []WimInv)
<1> SUFFICES ASSUME DistinctWims  PROVE Spec => []WimInv  OBVIOUS
<1>1. Init => WimInv
      BY RequestsAssumption DEF Init, NoDisk, WimInv, Unmarked, Beyond
<1>2. TypeOK /\ WimInv /\ [Next]_vars => WimInv'  BY WimStep
<1> QED BY <1>1, <1>2, TypeCorrect, PTL DEF Spec

\* The version file of a container image stands beside a VHD that was filled,
\* also when runs die between the VHD and its marker, where no other session is
\* given the same image.  ContainerHostWimMarker shows what happens otherwise.
\* With what the VHD was filled is left open.
THEOREM MarkerCorrect == DistinctWims => (Spec => []WimMarkerTruthful)
<1> SUFFICES ASSUME DistinctWims  PROVE Spec => []WimMarkerTruthful  OBVIOUS
<1>1. WimInv => WimMarkerTruthful  BY DEF WimInv, Filled, WimMarkerTruthful
<1> QED BY <1>1, WimCorrect, PTL

--------------------------------------------------------------------------
\* The WIM disk of the VM a session builds, from its creation to the
\* installation.
WithChild ==
  {"waitMutex", "mountBoot", "editBoot", "dismountBoot", "releaseMutex",
   "newVm", "startVm", "heartbeat", "psDirect", "install"}
ChildInv ==
  crashes = 0 =>
    \A s \in Session : pc[s] \in WithChild /\ Saves(req[s]) =>
      WimOf(s) \in disk[VmOf(s)].wim

LEMMA ChildKept ==
  ASSUME DistinctVms, TypeOK, DiskInv, NEW s \in Session, ScriptStep(s)
  PROVE  \A t \in Session \ {s} :
           /\ pc'[t] = pc[t] /\ VmOf(t)' = VmOf(t)
           /\ disk'[VmOf(t)] = disk[VmOf(t)]
<1>1. \A t \in Session : VmOf(t)' = VmOf(t) /\ VmOf(t) \in Vm
      BY OneMoves, RequestKeys DEF VmOf, TypeOK
<1> QED BY <1>1, OneMoves, OwnDisk, Names

LEMMA ChildScript ==
  ASSUME DistinctVms, DistinctWims, TypeOK, DiskInv, GuestInv, Owned, WimInv,
         ChildInv, NEW s \in Session, ScriptStep(s)
  PROVE  ChildInv'
<1> DEFINE v == VmOf(s)
           k == WimOf(s)
<1>1. UNCHANGED <<req, crashes>> /\ v \in Vm /\ k \in WimKey
      BY OneMoves, RequestKeys DEF TypeOK
<1>2. SUFFICES ASSUME crashes = 0, pc'[s] \in WithChild, Saves(req[s])
               PROVE  k \in disk'[v].wim
      BY <1>1, ChildKept DEF ChildInv, WimOf, VmOf, Saves
<1> USE DEF TypeOK, PcOK, DiskOK, Disk, At, Goto
<1>3. CASE PrepDisks(s)
  <2>1. k \in wimMark /\ wim[k] # "absent" /\ pc[s] = "prepDisks"
        BY <1>2, <1>3 DEF PrepDisks, WimInv, Beyond, Filled
  <2>2. k \notin wimMounted
    <3>1. SUFFICES ASSUME k \in wimMounted  PROVE FALSE  OBVIOUS
    <3>2. PICK t \in Session : HasWim(t, k)  BY <1>2, <3>1 DEF Owned, WimOwned
    <3>3. t = s  BY <3>2, Images DEF HasWim
    <3> QED BY <2>1, <3>2, <3>3 DEF HasWim, WithWim
  <2>3. power[v] = NoSession
        BY <1>1, <2>1 DEF DiskInv, Unnamed, GuestInv
  <2>4. WimChild(s, v) = {k}
        BY <1>2, <2>1, <2>2, <2>3 DEF WimChild
  <2> HIDE DEF v, k
  <2>5. CASE DiskInUse(v)
    <3>1. disk' = [disk EXCEPT ![v].wim = WimChild(s, v)]
          BY <1>3, <2>5 DEF PrepDisks, v
    <3> QED BY <1>1, <2>4, <3>1
  <2>6. CASE ~DiskInUse(v)
    <3>1. PICK boot \in {"absent", "blank"} :
            disk' = [disk EXCEPT ![v].boot = boot, ![v].base = VhdOf(s),
                                 ![v].mounted = FALSE, ![v].wim = WimChild(s, v)]
          BY <1>3, <2>6 DEF PrepDisks, BootMade, v
    <3> QED BY <1>1, <2>4, <3>1
  <2> QED BY <2>5, <2>6
<1>4. CASE MountBoot(s) \/ EditBoot(s) \/ DismountBoot(s)
  <2>1. disk'[v].wim = disk[v].wim
        BY <1>1, <1>4 DEF MountBoot, EditBoot, DismountBoot
  <2>2. pc[s] \in WithChild
        BY <1>4 DEF MountBoot, EditBoot, DismountBoot, WithChild
  <2> QED BY <1>2, <2>1, <2>2 DEF ChildInv
<1>5. CASE Verify(s)
      BY <1>2, <1>5 DEF Verify, WithChild
<1>6. CASE ~(PrepDisks(s) \/ MountBoot(s) \/ EditBoot(s) \/ DismountBoot(s) \/ Verify(s))
  <2>1. UNCHANGED disk /\ pc[s] \in WithChild
        BY <1>2, <1>6 DEF ScriptStep, CheckBase, CopyBaseBegin, CopyBaseEnd, GetIso,
             CopyIsoEnd, MountIso, Convert, ConversionFails, DismountIso, MarkBase,
             CheckWim, StaleWim, RemoveWim, NewWim, MountWim, FillWim, SaveWimEnd,
             MoveWim, MarkWim, ThrowToDismountWim, DismountWim, CheckVm, WaitOne,
             ReleaseMutex, NewVm, StartVm, Heartbeat, PsDirect, Install,
             AfterFinally, hostVars, WithChild
  <2> QED BY <1>2, <2>1 DEF ChildInv
<1> QED BY <1>3, <1>4, <1>5, <1>6

LEMMA ChildOthers ==
  ASSUME TypeOK, ChildInv, [Next]_vars, ~\E s \in Session : ScriptStep(s)
  PROVE  ChildInv'
<1> SUFFICES ASSUME crashes' = 0  PROVE ChildInv'  BY DEF ChildInv
<1> USE DEF ChildInv, TypeOK, PcOK, ArgsOK, BoundOK
<1>1. ASSUME NEW s \in Session, Begin(s)  PROVE ChildInv'
  <2>1. \A t \in Session \ {s} : pc'[t] = pc[t] /\ req'[t] = req[t]
        BY <1>1 DEF Begin, Goto
  <2>2. pc'[s] \notin WithChild /\ UNCHANGED <<disk, crashes>>
        BY <1>1 DEF Begin, Goto, hostVars, WithChild
  <2> QED BY <2>1, <2>2 DEF WimOf, VmOf
<1>2. ~HostRestart /\ \A s \in Session : ~Crash(s)
      BY DEF HostRestart, Crash
<1>3. CASE ~\E s \in Session : Begin(s)
  <2>1. UNCHANGED <<disk, pc, req, crashes>>
        BY <1>2, <1>3 DEF Next, CloseSession, Finalize, GuestUp, GuestDown, vars,
                          hostVars, restVars, argVars, boundVars
  <2> QED BY <2>1 DEF WimOf, VmOf
<1> QED BY <1>1, <1>3

\* When Install-ContainerHost.ps1 is started in a guest, the VM has a WIM disk,
\* unless a process was killed, and that disk is a child of a VHD that was
\* filled, where no two sessions are given the same image or VM name.
THEOREM ImageCorrect == DistinctWims /\ DistinctVms => (Spec => []InstallFindsImage)
<1> SUFFICES ASSUME DistinctWims, DistinctVms  PROVE Spec => []InstallFindsImage
    OBVIOUS
<1> DEFINE Inv == TypeOK /\ DiskInv /\ GuestInv /\ Owned /\ WimInv
<1>1. Spec => []Inv
      BY TypeCorrect, DiskCorrect, InstalledCorrect, OwnedCorrect, WimCorrect, PTL
         DEF InstalledInv
<1>2. Init => ChildInv  BY DEF Init, ChildInv, WithChild
<1>3. Inv /\ ChildInv /\ [Next]_vars => ChildInv'
      BY ChildScript, ChildOthers
<1>4. Inv /\ ChildInv => InstallFindsImage
  <2> SUFFICES ASSUME Inv, ChildInv, NEW s \in Session,
                      pc[s] = "install", Saves(req[s])
               PROVE  /\ crashes = 0 => WimOf(s) \in disk[VmOf(s)].wim
                      /\ \A k \in disk[VmOf(s)].wim : wim[k] \in {"wrong", "saved"}
      BY DEF InstallFindsImage
  <2>1. VmOf(s) \in Vm  BY RequestKeys DEF TypeOK
  <2>2. disk[VmOf(s)].wim \subseteq wimMark  BY <2>1 DEF WimInv
  <2>3. crashes = 0 => WimOf(s) \in disk[VmOf(s)].wim
        BY DEF ChildInv, WithChild
  <2>4. \A k \in disk[VmOf(s)].wim : wim[k] \in {"wrong", "saved"}
        BY <2>2 DEF WimInv, Filled
  <2> QED BY <2>3, <2>4
<1> QED BY <1>1, <1>2, <1>3, <1>4, PTL DEF Spec

================================================================================
