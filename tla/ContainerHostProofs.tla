------------------------- MODULE ContainerHostProofs -------------------------
(***************************************************************************)
(* Proofs about ContainerHost for any sessions, VMs, versions and          *)
(* requests: the type invariant, the invariant that ties the mutexes to    *)
(* the sessions' program counters, and the exclusion it yields.            *)
(***************************************************************************)
EXTENDS ContainerHost, TLAPS

\* What a request names is in the domain of the variables it indexes.
LEMMA RequestKeys ==
  ASSUME ArgsOK, NEW s \in Session
  PROVE  /\ ImageOf(s) \in Image
         /\ VhdOf(s) \in VhdName
         /\ WimOf(s) \in WimKey
         /\ VmOf(s) \in Vm
         /\ req[s].version \in Version
  BY DEF ArgsOK, ImageOf, VhdOf, WimOf, VmOf, Request, ImageName, LocalVhd,
         LocalWim, WimKey, Image, VhdName, Brand, Origin

\* A group of variables that is left alone keeps its type.
LEMMA Frame ==
  ASSUME TypeOK
  PROVE  /\ UNCHANGED baseVars => BaseOK'
         /\ UNCHANGED wimVars => WimOK'
         /\ UNCHANGED isoVars => IsoOK'
         /\ UNCHANGED cacheVars => BaseOK' /\ WimOK' /\ IsoOK'
         /\ UNCHANGED lockVars => LockOK'
         /\ UNCHANGED disk => DiskOK'
         /\ UNCHANGED vmVars => VmOK'
         /\ UNCHANGED hostVars => LockOK' /\ DiskOK' /\ VmOK'
         /\ UNCHANGED pc => PcOK'
         /\ UNCHANGED throwing => ThrowOK'
         /\ UNCHANGED argVars => ArgsOK'
         /\ UNCHANGED boundVars => BoundOK'
         /\ UNCHANGED restVars => ThrowOK' /\ ArgsOK' /\ BoundOK'
<1> USE DEF TypeOK
<1>1. UNCHANGED baseVars => BaseOK'  BY DEF baseVars, BaseOK
<1>2. UNCHANGED wimVars => WimOK'  BY DEF wimVars, WimOK
<1>3. UNCHANGED isoVars => IsoOK'  BY DEF isoVars, IsoOK
<1>4. UNCHANGED lockVars => LockOK'  BY DEF lockVars, LockOK
<1>5. UNCHANGED disk => DiskOK'  BY DEF DiskOK
<1>6. UNCHANGED vmVars => VmOK'  BY DEF vmVars, VmOK
<1>7. UNCHANGED pc => PcOK'  BY DEF PcOK
<1>8. UNCHANGED throwing => ThrowOK'  BY DEF ThrowOK
<1>9. UNCHANGED argVars => ArgsOK'  BY DEF argVars, ArgsOK
<1>10. UNCHANGED boundVars => BoundOK'  BY DEF boundVars, BoundOK
<1> QED BY <1>1, <1>2, <1>3, <1>4, <1>5, <1>6, <1>7, <1>8, <1>9, <1>10
        DEF cacheVars, hostVars, restVars

LEMMA InitType == Init => TypeOK
<1> USE SessionAssumption, RequestsAssumption, BoundAssumption DEF Init
<1>1. Init => BaseOK  BY DEF BaseOK
<1>2. Init => WimOK  BY DEF WimOK
<1>3. Init => IsoOK  BY DEF IsoOK
<1>4. Init => LockOK  BY DEF LockOK
<1>5. Init => DiskOK  BY DEF DiskOK, Disk, NoDisk, VhdName, Brand
<1>6. Init => VmOK  BY DEF VmOK
<1>7. Init => PcOK  BY DEF PcOK, Ended
<1>8. Init => ThrowOK  BY DEF ThrowOK
<1>9. Init => ArgsOK
  <2> SUFFICES ASSUME Init, NEW s \in Session
               PROVE  (CHOOSE r \in Requests[s] : TRUE) \in Request
      BY DEF ArgsOK
  <2> QED OBVIOUS
<1>10. Init => BoundOK  BY DEF BoundOK
<1> QED BY <1>1, <1>2, <1>3, <1>4, <1>5, <1>6, <1>7, <1>8, <1>9, <1>10 DEF TypeOK

\* The steps that bring the base VHD into the cache.
LEMMA BaseSteps ==
  ASSUME TypeOK, NEW s \in Session, 
         CheckBase(s) \/ CopyBaseBegin(s) \/ CopyBaseEnd(s) \/ GetIso(s)
         \/ CopyIsoEnd(s) \/ MountIso(s) \/ Convert(s) \/
         DismountIso(s) \/ MarkBase(s)
  PROVE  TypeOK'
<1> USE RequestKeys, Frame
<1>1. CASE CheckBase(s)
  <2>1. PcOK'  BY <1>1 DEF TypeOK, CheckBase, PcOK, Goto, At, Running, Ended
  <2> QED BY <1>1, <2>1 DEF TypeOK, CheckBase
<1>2. CASE CopyBaseBegin(s)
  <2>1. BaseOK'  BY <1>2 DEF TypeOK, CopyBaseBegin, BaseOK
  <2>2. PcOK'  BY <1>2 DEF TypeOK, CopyBaseBegin, PcOK, Goto, At, Running, Ended
  <2> QED BY <1>2, <2>1, <2>2 DEF TypeOK, CopyBaseBegin
<1>3. CASE CopyBaseEnd(s)
  <2>1. BaseOK'  BY <1>3 DEF TypeOK, CopyBaseEnd, BaseOK
  <2>2. PcOK'  BY <1>3 DEF TypeOK, CopyBaseEnd, PcOK, Goto, At, Running, Ended
  <2> QED BY <1>3, <2>1, <2>2 DEF TypeOK, CopyBaseEnd
<1>4. CASE GetIso(s)
  <2>1. IsoOK'  BY <1>4 DEF TypeOK, GetIso, IsoOK
  <2>2. PcOK'  BY <1>4 DEF TypeOK, GetIso, PcOK, Goto, At, Running, Ended
  <2> QED BY <1>4, <2>1, <2>2 DEF TypeOK, GetIso
<1>5. CASE CopyIsoEnd(s)
  <2>1. IsoOK'  BY <1>5 DEF TypeOK, CopyIsoEnd, IsoOK
  <2>2. PcOK'  BY <1>5 DEF TypeOK, CopyIsoEnd, PcOK, Goto, At, Running, Ended
  <2> QED BY <1>5, <2>1, <2>2 DEF TypeOK, CopyIsoEnd
<1>6. CASE MountIso(s)
  <2>1. IsoOK'  BY <1>6 DEF TypeOK, MountIso, IsoOK
  <2>2. ThrowOK'  BY <1>6 DEF TypeOK, MountIso, ThrowOK
  <2>3. PcOK'  BY <1>6 DEF TypeOK, MountIso, PcOK, Goto, At, Running, Ended
  <2> QED BY <1>6, <2>1, <2>2, <2>3 DEF TypeOK, MountIso
<1>7. CASE Convert(s)
  <2>1. BaseOK'  BY <1>7 DEF TypeOK, Convert, BaseOK
  <2>2. ThrowOK'  BY <1>7 DEF TypeOK, Convert, ThrowOK, ConversionFails
  <2>3. PcOK'  BY <1>7 DEF TypeOK, Convert, PcOK, Goto, At, Running, Ended, ConversionFails
  <2> QED BY <1>7, <2>1, <2>2, <2>3 DEF TypeOK, Convert
<1>8. CASE DismountIso(s)
  <2>1. IsoOK'  BY <1>8 DEF TypeOK, DismountIso, IsoOK
  <2>2. PcOK'  BY <1>8 DEF TypeOK, DismountIso, AfterFinally, PcOK, Goto, At,
                    Running, Ended
  <2> QED BY <1>8, <2>1, <2>2 DEF TypeOK, DismountIso
<1>9. CASE MarkBase(s)
  <2>1. BaseOK'  BY <1>9 DEF TypeOK, MarkBase, BaseOK
  <2>2. PcOK'  BY <1>9 DEF TypeOK, MarkBase, PcOK, Goto, At, Running, Ended
  <2> QED BY <1>9, <2>1, <2>2 DEF TypeOK, MarkBase
<1> QED BY <1>1, <1>2, <1>3, <1>4, <1>5, <1>6, <1>7, <1>8, <1>9

\* The steps that bring the WIM VHD into the cache.
LEMMA WimSteps ==
  ASSUME TypeOK, NEW s \in Session, 
         CheckWim(s) \/ StaleWim(s) \/ RemoveWim(s) \/ NewWim(s) \/
         MountWim(s) \/ FillWim(s) \/ SaveWimEnd(s) \/ MoveWim(s) \/
         MarkWim(s) \/ DismountWim(s)
  PROVE  TypeOK'
<1> USE RequestKeys, Frame
<1>1. CASE CheckWim(s)
  <2>1. PcOK'  BY <1>1 DEF TypeOK, CheckWim, PcOK, Goto, At, Running, Ended
  <2> QED BY <1>1, <2>1 DEF TypeOK, CheckWim
<1>2. CASE StaleWim(s)
  <2>1. PcOK'  BY <1>2 DEF TypeOK, StaleWim, PcOK, Goto, At, Running, Ended
  <2> QED BY <1>2, <2>1 DEF TypeOK, StaleWim
<1>3. CASE RemoveWim(s)
  <2>1. WimOK'  BY <1>3 DEF TypeOK, RemoveWim, WimOK
  <2>2. PcOK'  BY <1>3 DEF TypeOK, RemoveWim, PcOK, Goto, At, Running, Ended
  <2> QED BY <1>3, <2>1, <2>2 DEF TypeOK, RemoveWim
<1>4. CASE NewWim(s)
  <2>1. WimOK'  BY <1>4 DEF TypeOK, NewWim, WimOK
  <2>2. PcOK'  BY <1>4 DEF TypeOK, NewWim, PcOK, Goto, At, Running, Ended
  <2> QED BY <1>4, <2>1, <2>2 DEF TypeOK, NewWim
<1>5. CASE MountWim(s)
  <2>1. WimOK'  BY <1>5 DEF TypeOK, MountWim, WimOK
  <2>2. ThrowOK'  BY <1>5 DEF TypeOK, MountWim, ThrowToDismountWim, ThrowOK
  <2>3. PcOK'  BY <1>5 DEF TypeOK, MountWim, ThrowToDismountWim, PcOK, Goto, At,
                    Running, Ended
  <2> QED BY <1>5, <2>1, <2>2, <2>3 DEF TypeOK, MountWim
<1>6. CASE FillWim(s)
  <2>1. WimOK'  BY <1>6 DEF TypeOK, FillWim, WimOK
  <2>2. ThrowOK'  BY <1>6 DEF TypeOK, FillWim, ThrowToDismountWim, ThrowOK
  <2>3. PcOK'  BY <1>6 DEF TypeOK, FillWim, ThrowToDismountWim, PcOK, Goto, At,
                    Running, Ended
  <2> QED BY <1>6, <2>1, <2>2, <2>3 DEF TypeOK, FillWim
<1>7. CASE SaveWimEnd(s)
  <2>1. WimOK'  BY <1>7 DEF TypeOK, SaveWimEnd, WimOK
  <2>2. ThrowOK'  BY <1>7 DEF TypeOK, SaveWimEnd, ThrowToDismountWim, ThrowOK
  <2>3. PcOK'  BY <1>7 DEF TypeOK, SaveWimEnd, ThrowToDismountWim, PcOK, Goto, At,
                    Running, Ended
  <2> QED BY <1>7, <2>1, <2>2, <2>3 DEF TypeOK, SaveWimEnd
<1>8. CASE MoveWim(s)
  <2>1. WimOK'  BY <1>8 DEF TypeOK, MoveWim, WimOK
  <2>2. PcOK'  BY <1>8 DEF TypeOK, MoveWim, PcOK, Goto, At, Running, Ended
  <2> QED BY <1>8, <2>1, <2>2 DEF TypeOK, MoveWim
<1>9. CASE MarkWim(s)
  <2>1. WimOK'  BY <1>9 DEF TypeOK, MarkWim, WimOK
  <2>2. ThrowOK'  BY <1>9 DEF TypeOK, MarkWim, ThrowToDismountWim, ThrowOK
  <2>3. PcOK'  BY <1>9 DEF TypeOK, MarkWim, ThrowToDismountWim, PcOK, Goto, At,
                    Running, Ended
  <2> QED BY <1>9, <2>1, <2>2, <2>3 DEF TypeOK, MarkWim
<1>10. CASE DismountWim(s)
  <2>1. WimOK'  BY <1>10 DEF TypeOK, DismountWim, WimOK
  <2>2. PcOK'  BY <1>10 DEF TypeOK, DismountWim, AfterFinally, PcOK, Goto, At,
                    Running, Ended
  <2> QED BY <1>10, <2>1, <2>2 DEF TypeOK, DismountWim
<1> QED BY <1>1, <1>2, <1>3, <1>4, <1>5, <1>6, <1>7, <1>8, <1>9, <1>10

\* The steps that make and edit the boot disk.
LEMMA DiskSteps ==
  ASSUME TypeOK, NEW s \in Session, 
         CheckVm(s) \/ PrepDisks(s) \/ WaitOne(s) \/ MountBoot(s) \/
         EditBoot(s) \/ DismountBoot(s) \/ ReleaseMutex(s)
  PROVE  TypeOK'
<1> USE RequestKeys, Frame
<1>1. CASE CheckVm(s)
  <2>1. PcOK'  BY <1>1 DEF TypeOK, CheckVm, PcOK, Goto, At, Running, Ended
  <2> QED BY <1>1, <2>1 DEF TypeOK, CheckVm
<1>2. CASE PrepDisks(s)
  <2>1. DiskOK'
    <3>1. disk[VmOf(s)] \in Disk /\ WimChild(s, VmOf(s)) \in SUBSET WimKey
          BY DEF TypeOK, DiskOK, WimChild, Disk
    <3> HIDE DEF WimChild
    <3>2. CASE DiskInUse(VmOf(s))
      <4>1. disk' = [disk EXCEPT ![VmOf(s)].wim = WimChild(s, VmOf(s))]
            BY <1>2, <3>2 DEF PrepDisks
      <4> QED BY <3>1, <4>1 DEF TypeOK, DiskOK, Disk
    <3>3. CASE ~DiskInUse(VmOf(s))
      <4>1. PICK boot \in {"absent", "blank"} :
              disk' = [disk EXCEPT ![VmOf(s)].boot = boot,
                                   ![VmOf(s)].base = VhdOf(s),
                                   ![VmOf(s)].mounted = FALSE,
                                   ![VmOf(s)].wim = WimChild(s, VmOf(s))]
            BY <1>2, <3>3 DEF PrepDisks, BootMade
      <4> QED BY <3>1, <4>1 DEF TypeOK, DiskOK, Disk
    <3> QED BY <3>2, <3>3
  <2>2. ArgsOK'  BY <1>2 DEF TypeOK, PrepDisks, BootMade, ArgsOK
  <2>3. PcOK'  BY <1>2 DEF TypeOK, PrepDisks, BootMade, PcOK, Goto, At, Running, Ended
  <2> QED BY <1>2, <2>1, <2>2, <2>3 DEF TypeOK, PrepDisks, BootMade
<1>3. CASE WaitOne(s)
  <2>1. LockOK'  BY <1>3 DEF TypeOK, WaitOne, LockOK
  <2>2. ThrowOK'  BY <1>3 DEF TypeOK, WaitOne, ThrowOK
  <2>3. PcOK'  BY <1>3 DEF TypeOK, WaitOne, PcOK, Goto, At, Running, Ended
  <2> QED BY <1>3, <2>1, <2>2, <2>3 DEF TypeOK, WaitOne
<1>4. CASE MountBoot(s)
  <2>1. DiskOK'  BY <1>4 DEF TypeOK, MountBoot, DiskOK, Disk
  <2>2. ThrowOK'  BY <1>4 DEF TypeOK, MountBoot, ThrowOK
  <2>3. PcOK'  BY <1>4 DEF TypeOK, MountBoot, PcOK, Goto, At, Running, Ended
  <2> QED BY <1>4, <2>1, <2>2, <2>3 DEF TypeOK, MountBoot
<1>5. CASE EditBoot(s)
  <2>1. DiskOK'  BY <1>5 DEF TypeOK, EditBoot, DiskOK, Disk
  <2>2. IsoOK'  BY <1>5 DEF TypeOK, EditBoot, IsoOK
  <2>3. ThrowOK'  BY <1>5 DEF TypeOK, EditBoot, ThrowOK
  <2>4. PcOK'  BY <1>5 DEF TypeOK, EditBoot, PcOK, Goto, At, Running, Ended
  <2> QED BY <1>5, <2>1, <2>2, <2>3, <2>4 DEF TypeOK, EditBoot
<1>6. CASE DismountBoot(s)
  <2>1. DiskOK'  BY <1>6 DEF TypeOK, DismountBoot, DiskOK, Disk
  <2>2. LockOK'  BY <1>6 DEF TypeOK, DismountBoot, LockOK
  <2>3. PcOK'  BY <1>6 DEF TypeOK, DismountBoot, PcOK, Goto, At, Running, Ended
  <2> QED BY <1>6, <2>1, <2>2, <2>3 DEF TypeOK, DismountBoot
<1>7. CASE ReleaseMutex(s)
  <2>1. LockOK'  BY <1>7 DEF TypeOK, ReleaseMutex, NextHolder, LockOK
  <2>2. PcOK'  BY <1>7 DEF TypeOK, ReleaseMutex, AfterFinally, PcOK, Goto, At,
                    Running, Ended
  <2> QED BY <1>7, <2>1, <2>2 DEF TypeOK, ReleaseMutex
<1> QED BY <1>1, <1>2, <1>3, <1>4, <1>5, <1>6, <1>7

\* The steps that make, start and set up the VM.
LEMMA VmSteps ==
  ASSUME TypeOK, NEW s \in Session, 
         NewVm(s) \/ StartVm(s) \/ Heartbeat(s) \/ PsDirect(s) \/
         Install(s) \/ Verify(s)
  PROVE  TypeOK'
<1> USE RequestKeys, Frame
<1>1. CASE NewVm(s)
  <2>1. VmOK'  BY <1>1 DEF TypeOK, NewVm, VmOK
  <2>2. PcOK'  BY <1>1 DEF TypeOK, NewVm, PcOK, Goto, At, Running, Ended
  <2> QED BY <1>1, <2>1, <2>2 DEF TypeOK, NewVm
<1>2. CASE StartVm(s)
  <2>1. VmOK'  BY <1>2 DEF TypeOK, StartVm, VmOK
  <2>2. PcOK'  BY <1>2 DEF TypeOK, StartVm, PcOK, Goto, At, Running, Ended
  <2> QED BY <1>2, <2>1, <2>2 DEF TypeOK, StartVm
<1>3. CASE Heartbeat(s)
  <2>1. PcOK'  BY <1>3 DEF TypeOK, Heartbeat, PcOK, Goto, At, Running, Ended
  <2> QED BY <1>3, <2>1 DEF TypeOK, Heartbeat
<1>4. CASE PsDirect(s)
  <2>1. PcOK'  BY <1>4 DEF TypeOK, PsDirect, PcOK, Goto, At, Running, Ended
  <2> QED BY <1>4, <2>1 DEF TypeOK, PsDirect
<1>5. CASE Install(s)
  <2>1. VmOK'  BY <1>5 DEF TypeOK, Install, VmOK
  <2>2. PcOK'  BY <1>5 DEF TypeOK, Install, PcOK, Goto, At, Running, Ended
  <2> QED BY <1>5, <2>1, <2>2 DEF TypeOK, Install
<1>6. CASE Verify(s)
  <2>1. VmOK'  BY <1>6 DEF TypeOK, Verify, VmOK
  <2>2. DiskOK'  BY <1>6 DEF TypeOK, Verify, DiskOK, Disk
  <2>3. PcOK'  BY <1>6 DEF TypeOK, Verify, PcOK, Goto, At, Running, Ended
  <2> QED BY <1>6, <2>1, <2>2, <2>3 DEF TypeOK, Verify
<1> QED BY <1>1, <1>2, <1>3, <1>4, <1>5, <1>6

\* The steps outside the script: starting it, guests, crashes.
LEMMA BeginStep ==
  ASSUME TypeOK, NEW s \in Session, Begin(s)
  PROVE  TypeOK'
<1> USE Frame, RequestsAssumption, BoundAssumption DEF TypeOK, Begin
<1>1. PcOK'  BY DEF PcOK, Goto, Running, Ended
<1>2. ThrowOK'  BY DEF ThrowOK
<1>3. ArgsOK'  BY DEF ArgsOK
<1>4. BoundOK'  BY DEF BoundOK
<1> QED BY <1>1, <1>2, <1>3, <1>4

LEMMA DropLocks ==
  ASSUME TypeOK, NEW s \in Session, DropMutexes(s)
  PROVE  LockOK'
  BY DEF TypeOK, LockOK, DropMutexes, Held

LEMMA OtherSteps ==
  ASSUME TypeOK,
         \/ \E s \in Session : Crash(s) \/ CloseSession(s)
         \/ \E s \in Session, i \in Image : Finalize(s, i)
         \/ \E v \in Vm : GuestUp(v) \/ GuestDown(v)
         \/ HostRestart
  PROVE  TypeOK'
<1> USE Frame, BoundAssumption DEF TypeOK
<1>1. ASSUME NEW s \in Session, Crash(s)  PROVE TypeOK'
  <2>1. PcOK'  BY <1>1 DEF Crash, PcOK, Goto, Ended
  <2>2. BoundOK'  BY <1>1 DEF Crash, BoundOK
  <2> QED BY <1>1, <2>1, <2>2, DropLocks DEF Crash, restVars
<1>2. ASSUME NEW s \in Session, CloseSession(s)  PROVE TypeOK'
  BY <1>2, DropLocks DEF CloseSession
<1>3. ASSUME NEW v \in Vm, GuestUp(v)  PROVE TypeOK'
  <2>1. VmOK'  BY <1>3 DEF GuestUp, VmOK
  <2> QED BY <1>3, <2>1 DEF GuestUp
<1>4. ASSUME NEW v \in Vm, GuestDown(v)  PROVE TypeOK'
  <2>1. VmOK'  BY <1>4 DEF GuestDown, VmOK
  <2>2. BoundOK'  BY <1>4 DEF GuestDown, BoundOK
  <2> QED BY <1>4, <2>1, <2>2 DEF GuestDown
<1>5. ASSUME HostRestart  PROVE TypeOK'
  <2>1. WimOK' /\ IsoOK' /\ BaseOK'
        BY <1>5 DEF HostRestart, WimOK, IsoOK, BaseOK, baseVars
  <2>2. LockOK'  BY <1>5 DEF HostRestart, LockOK
  <2>3. DiskOK'
    <3>1. ASSUME NEW v \in Vm  PROVE [disk[v] EXCEPT !.mounted = FALSE] \in Disk
      <4>1. disk[v] \in Disk  BY DEF DiskOK
      <4> QED BY <4>1 DEF Disk
    <3> QED BY <1>5, <3>1 DEF HostRestart, DiskOK
  <2>4. VmOK'  BY <1>5 DEF HostRestart, VmOK
  <2>5. PcOK'  BY <1>5 DEF HostRestart, PcOK, Ended
  <2>6. BoundOK'  BY <1>5 DEF HostRestart, BoundOK
  <2> QED BY <1>5, <2>1, <2>2, <2>3, <2>4, <2>5, <2>6 DEF HostRestart
<1>6. ASSUME NEW s \in Session, NEW i \in Image, Finalize(s, i)  PROVE TypeOK'
  <2>1. LockOK'  BY <1>6 DEF Finalize, LockOK
  <2> QED BY <1>6, <2>1 DEF Finalize
<1> QED BY <1>1, <1>2, <1>3, <1>4, <1>5, <1>6

\* Every variable keeps its type, in every session and whatever goes wrong.
THEOREM TypeCorrect == Spec => []TypeOK
<1>1. TypeOK /\ [Next]_vars => TypeOK'
  <2> SUFFICES ASSUME TypeOK, [Next]_vars  PROVE TypeOK'  OBVIOUS
  <2>1. CASE UNCHANGED vars  BY <2>1, Frame DEF vars, TypeOK
  <2>2. ASSUME NEW s \in Session, ScriptStep(s)  PROVE TypeOK'
    BY <2>2, BaseSteps, WimSteps, DiskSteps, VmSteps DEF ScriptStep
  <2> QED BY <2>1, <2>2, BeginStep, OtherSteps DEF Next
<1> QED BY InitType, <1>1, PTL DEF Spec

-----------------------------------------------------------------------------
(* The named mutexes *)

\* Steps that leave the mutexes alone, and the program counters of the other
\* sessions, and do not take this session into or out of the critical
\* section, keep the invariant.
LEMMA LockFrame ==
  ASSUME TypeOK, LockInv, NEW s \in Session, NEW step,
         Goto(s, step), UNCHANGED <<holder, leaked, req>>,
         pc[s] \in Critical <=> step \in Critical
  PROVE  LockInv'
  BY DEF TypeOK, PcOK, LockInv, Goto, ImageOf

\* The critical section itself: WaitOne enters it as the owner, the
\* ReleaseMutex leaves it, and a lost ReleaseMutex is remembered in leaked.
LEMMA LockMoves ==
  ASSUME TypeOK, LockInv, NEW s \in Session,
         WaitOne(s) \/ MountBoot(s) \/ EditBoot(s) \/ DismountBoot(s) \/
         ReleaseMutex(s)
  PROVE  LockInv'
<1> USE RequestKeys, SessionAssumption
    DEF TypeOK, LockOK, PcOK, LockInv, Goto, ImageOf, Critical
<1>1. CASE WaitOne(s)  BY <1>1 DEF WaitOne, MayOwn, argVars
<1>2. CASE MountBoot(s)
  <2>1. \E step \in {"editBoot", "dismountBoot"} : Goto(s, step)
        BY <1>2 DEF MountBoot
  <2> QED BY <1>2, <2>1, LockFrame DEF MountBoot, lockVars, argVars
<1>3. CASE EditBoot(s)
  BY <1>3, LockFrame DEF EditBoot, At, lockVars, argVars
<1>4. CASE DismountBoot(s)  BY <1>4 DEF DismountBoot, restVars, argVars
<1>5. CASE ReleaseMutex(s)  BY <1>5 DEF ReleaseMutex, AfterFinally, NextHolder, At, restVars, argVars
<1> QED BY <1>1, <1>2, <1>3, <1>4, <1>5

\* Every other step of the script stays outside.
LEMMA LockStays ==
  ASSUME TypeOK, LockInv, NEW s \in Session, ScriptStep(s),
         ~(WaitOne(s) \/ MountBoot(s) \/ EditBoot(s) \/ DismountBoot(s) \/
           ReleaseMutex(s))
  PROVE  LockInv'
<1>1. \E step \in Running \cup Ended :
        Goto(s, step) /\ pc[s] \notin Critical /\ step \notin Critical
      BY DEF ScriptStep, CheckBase, CopyBaseBegin, CopyBaseEnd, GetIso,
             CopyIsoEnd, MountIso, Convert, ConversionFails,
             DismountIso, MarkBase, CheckWim, StaleWim, RemoveWim, NewWim,
             MountWim, FillWim, SaveWimEnd, MoveWim,
             ThrowToDismountWim, MarkWim, DismountWim, CheckVm, PrepDisks, BootMade, NewVm, StartVm,
             Heartbeat, PsDirect, Install, Verify, At, AfterFinally, Running, Ended,
             Critical
<1>2. UNCHANGED <<holder, leaked, req>>
      BY DEF ScriptStep, CheckBase, CopyBaseBegin, CopyBaseEnd, GetIso,
             CopyIsoEnd, MountIso, Convert,
             DismountIso, MarkBase, CheckWim, StaleWim, RemoveWim, NewWim,
             MountWim, FillWim, SaveWimEnd, MoveWim,
             ThrowToDismountWim, MarkWim, DismountWim, CheckVm, PrepDisks, BootMade, NewVm, StartVm,
             Heartbeat, PsDirect, Install, Verify,
             hostVars, lockVars, restVars, argVars
<1> QED BY <1>1, <1>2, LockFrame

\* A session that dies owns nothing afterwards, and the others own what they
\* did.
LEMMA LockDrops ==
  ASSUME TypeOK, LockInv, NEW s \in Session, DropMutexes(s),
         pc' = [pc EXCEPT ![s] = "idle"] \/ (pc' = pc /\ pc[s] \in Ended),
         UNCHANGED req
  PROVE  LockInv'
<1> USE SessionAssumption DEF TypeOK, LockOK, PcOK, DropMutexes, Held, ImageOf
<1>1. /\ pc'[s] \notin Critical
      /\ \A t \in Session \ {s} : pc'[t] = pc[t] /\ leaked'[t] = leaked[t]
      /\ leaked'[s] = {}
      BY DEF Critical, Ended
<1>2. \A i \in Image : /\ holder[i] # s => holder'[i] = holder[i]
                       /\ holder[i] = s => holder'[i] = NoSession
      OBVIOUS
<1>3. \A t \in Session : pc'[t] \in Critical => holder'[ImageName(req[t])] = t
  <2> SUFFICES ASSUME NEW t \in Session, pc'[t] \in Critical
               PROVE  holder'[ImageName(req[t])] = t
      OBVIOUS
  <2>1. t # s /\ holder[ImageName(req[t])] = t  BY <1>1 DEF LockInv
  <2> QED BY <1>2, <2>1, RequestKeys
<1>4. \A t \in Session : \A i \in leaked'[t] : holder'[i] = t
      BY <1>1, <1>2 DEF LockInv
<1>5. \A i \in Image, t \in Session :
        holder'[i] = t =>
          i \in leaked'[t] \/ (pc'[t] \in Critical /\ ImageName(req[t]) = i)
      BY <1>1, <1>2 DEF LockInv
<1> QED BY <1>3, <1>4, <1>5 DEF LockInv

\* The inductive invariant that ties the mutexes to the program counters.
THEOREM LockCorrect == Spec => []LockInv
<1>1. Init => LockInv
      BY SessionAssumption DEF Init, LockInv, Critical
<1>2. TypeOK /\ LockInv /\ [Next]_vars => LockInv'
  <2> SUFFICES ASSUME TypeOK, LockInv, [Next]_vars  PROVE LockInv'  OBVIOUS
  <2>1. CASE UNCHANGED vars
        BY <2>1 DEF vars, hostVars, lockVars, restVars, argVars, LockInv, ImageOf
  <2>2. ASSUME NEW s \in Session, Begin(s)  PROVE LockInv'
        BY <2>2 DEF Begin, hostVars, lockVars, TypeOK, PcOK, ArgsOK, LockInv, Goto,
                    ImageOf, Critical, Ended
  <2>3. ASSUME NEW s \in Session, ScriptStep(s)  PROVE LockInv'
        BY <2>3, LockMoves, LockStays
  <2>4. ASSUME NEW s \in Session, Crash(s)  PROVE LockInv'
        BY <2>4, LockDrops DEF Crash, argVars, Goto
  <2>5. ASSUME NEW s \in Session, CloseSession(s)  PROVE LockInv'
        BY <2>5, LockDrops DEF CloseSession, restVars, argVars
  <2>6. ASSUME NEW v \in Vm, GuestUp(v) \/ GuestDown(v)  PROVE LockInv'
        BY <2>6 DEF GuestUp, GuestDown, hostVars, lockVars, restVars, argVars,
                    LockInv, ImageOf
  <2>7. CASE HostRestart
        BY <2>7, SessionAssumption
           DEF HostRestart, argVars, LockInv, Critical
  <2>8. ASSUME NEW s \in Session, NEW i \in Image, Finalize(s, i)  PROVE LockInv'
        BY <2>8, SessionAssumption
           DEF Finalize, restVars, argVars, TypeOK, LockOK, LockInv, ImageOf
  <2> QED BY <2>1, <2>2, <2>3, <2>4, <2>5, <2>6, <2>7, <2>8 DEF Next
<1> QED BY <1>1, <1>2, TypeCorrect, PTL DEF Spec

\* Two sessions that build the same image never work on their boot VHDs at
\* the same time.
THEOREM Exclusion == Spec => []BootMountExclusion
<1>1. TypeOK /\ LockInv => BootMountExclusion
      BY DEF LockInv, BootMountExclusion
<1> QED BY <1>1, TypeCorrect, LockCorrect, PTL

\* A step of the script moves one session, and none to another request.
LEMMA OneMoves ==
  ASSUME TypeOK, NEW s \in Session, ScriptStep(s)
  PROVE  /\ UNCHANGED <<req, crashes>>
         /\ \A t \in Session \ {s} : pc'[t] = pc[t] /\ bootVhd'[t] = bootVhd[t]
<1> USE DEF TypeOK, PcOK, ArgsOK, Goto, At, restVars, argVars, boundVars
<1>1. CASE CheckBase(s) \/ CopyBaseBegin(s) \/ CopyBaseEnd(s) \/ GetIso(s)
      BY <1>1 DEF CheckBase, CopyBaseBegin, CopyBaseEnd, GetIso
<1>2. CASE CopyIsoEnd(s) \/ MountIso(s) \/ Convert(s) \/ DismountIso(s) \/ MarkBase(s)
      BY <1>2 DEF CopyIsoEnd, MountIso, Convert, ConversionFails, DismountIso,
                  MarkBase
<1>3. CASE CheckWim(s) \/ StaleWim(s) \/ RemoveWim(s) \/ NewWim(s)
      BY <1>3 DEF CheckWim, StaleWim, RemoveWim, NewWim
<1>4. CASE MountWim(s) \/ FillWim(s) \/ SaveWimEnd(s) \/ MoveWim(s) \/
           MarkWim(s) \/ DismountWim(s) \/ CheckVm(s)
      BY <1>4 DEF MountWim, FillWim, SaveWimEnd, MoveWim,
             ThrowToDismountWim, MarkWim, DismountWim, CheckVm
<1>5. CASE PrepDisks(s)  BY <1>5 DEF PrepDisks, BootMade
<1>6. CASE WaitOne(s) \/ MountBoot(s) \/ EditBoot(s)
      BY <1>6 DEF WaitOne, MountBoot, EditBoot
<1>7. CASE DismountBoot(s) \/ ReleaseMutex(s) \/ NewVm(s) \/ StartVm(s)
      BY <1>7 DEF DismountBoot, ReleaseMutex, NewVm, StartVm
<1>8. CASE Heartbeat(s) \/ PsDirect(s) \/ Install(s) \/ Verify(s)
      BY <1>8 DEF Heartbeat, PsDirect, Install, Verify
<1> QED BY <1>1, <1>2, <1>3, <1>4, <1>5, <1>6, <1>7, <1>8 DEF ScriptStep

=============================================================================
