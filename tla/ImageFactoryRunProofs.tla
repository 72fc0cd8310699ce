------------------------- MODULE ImageFactoryRunProofs -------------------------
(***************************************************************************)
(* What a factory that is not cut short publishes: every image is sealed   *)
(* and has all updates of its base, and no update that a list has shown is *)
(* thrown away, for any products and bounds.                               *)
(***************************************************************************)
EXTENDS ImageFactoryProofs

\* Which of its three jobs the script is at: installing and updating a new
\* base, updating a child of an old one, sealing a child of either.
VmFor(s) == pc \in {"runVm", "waitOff"} /\ stage = s
Building == pc \in {"convert", "bitsBase", "compact"} \/ VmFor("base")
Updating == pc \in {"bitsUpdate", "inspect"} \/ VmFor("update")
Sealing == pc \in {"sealScript", "unscript", "publish"} \/ VmFor("sysprep")
Based == {"compact", "diff", "merge", "discard", "finalCheck", "diffSysprep",
          "optimize", "finish"}

Published(d) == d.sealed /\ d.logon = IF GenericSysprep THEN "none" ELSE "post"
Lags(p) == /\ disks[p]["final"].kind = "whole"
           /\ disks[p]["final"].level < disks[p]["base"].level

\* Nothing stays attached, and there is a VM exactly while the script waits
\* for it.
VmQuiet ==
  /\ attached = {}
  /\ vm.state # "none" <=> pc = "waitOff"
  /\ pc = "waitOff" =>
       vm.product = turn /\ vm.slot = stage /\ The(stage).kind = "whole"

\* No file is half written, no sysprep disk is left over, and an image is
\* behind its base only while the script is on its way to replace it.
FilesQuiet ==
  \A p \in Product :
    /\ \A f \in Slot : disks[p][f].kind \in {"absent", "whole"}
    /\ disks[p]["sysprep"].kind = "whole" => p = turn /\ (Sealing \/ pc = "optimize")
    /\ disks[p]["final"].kind = "whole" => disks[p]["base"].kind = "whole"
    /\ Lags(p) => /\ p = turn
                  /\ pc = "diffSysprep" \/ Sealing \/ (pc = "finalCheck" /\ needed)

StageQuiet ==
  /\ Building => The("final").kind = "absent"
  /\ pc \in Based \/ Updating \/ Sealing => The("base").kind = "whole"
  /\ pc = "merge" => needed
  /\ pc \in {"optimize", "finish"} => The("final").kind = "whole"

\* The marker is on the update disk when the disk is ahead of its base, and
\* when a list has found updates, unless one was installed that no list had
\* shown.
UpdateQuiet ==
  /\ Updating => The("update").kind = "whole"
  /\ pc = "bitsUpdate" => The("update").level = The("base").level
  /\ unlisted = 0 =>
       /\ Updating /\ pc # "bitsUpdate" =>
            The("update").level <= The("base").level \/ The("update").changesMade
       /\ VmFor("update") /\ vm.state = "found" => The("update").changesMade
       /\ pc = "discard" => The("update").level <= The("base").level

SealQuiet ==
  /\ Sealing => /\ The("sysprep").kind = "whole"
                /\ The("sysprep").level >= The("base").level
  /\ VmFor("sysprep") => The("sysprep").logon = "sysprep"

\* A VM that was started and is off has sealed its disk.
PublishQuiet ==
  startFailures = 0 =>
    /\ \A p \in Product :
         disks[p]["final"].kind = "whole" => Published(disks[p]["final"])
    /\ VmFor("sysprep") /\ vm.state = "off" => The("sysprep").sealed
    /\ pc = "unscript" => The("sysprep").sealed
    /\ pc = "publish" => Published(The("sysprep"))

Quiet == /\ VmQuiet /\ FilesQuiet /\ StageQuiet
         /\ UpdateQuiet /\ SealQuiet /\ PublishQuiet
QuietInv == crashes = 0 => Quiet

--------------------------------------------------------------------------
\* Between the VMs every file can be replaced, mounted and edited.
LEMMA QuietFree ==
  ASSUME TypeOK, VmQuiet, pc # "waitOff"
  PROVE  \A slot \in Slot : ~InUse(slot) /\ ~Attached(slot) /\ Cleaned(slot) = NoDisk
  BY DEF VmQuiet, InUse, VmOn, On, Attached, Cleaned

LEMMA QuietMount ==
  ASSUME TypeOK, VmQuiet, pc # "waitOff", NEW slot \in Slot, NEW block,
         MountAndRun(slot, block)
  PROVE  /\ attached' = {}
         /\ \A p \in Product : \A f \in Slot :
              disks'[p][f] = IF p = turn /\ f = slot /\ disks[p][f].kind = "whole"
                             THEN block ELSE disks[p][f]
<1>1. attached' = {}  BY DEF MountAndRun, Detach, VmQuiet
<1>2. Put(slot, IF The(slot).kind = "whole" THEN block ELSE The(slot))
  BY QuietFree DEF MountAndRun
<1>3. \A p \in Product : \A f \in Slot :
        disks'[p][f] = IF p = turn /\ f = slot
                       THEN IF The(slot).kind = "whole" THEN block ELSE The(slot)
                       ELSE disks[p][f]
  BY <1>2, PutOne
<1> QED BY <1>1, <1>3 DEF The

\* Levels are numbers, and the disks the steps look at are disks.
LEMMA QuietTyped ==
  ASSUME TypeOK
  PROVE  /\ turn \in Product
         /\ \A p \in Product : \A f \in Slot :
              disks[p][f] \in Disk /\ disks[p][f].level \in Nat
  BY LevelTyped, TypeParts

\* A new base: there is no image yet that it could be ahead of.
LEMMA QuietBuild ==
  ASSUME TypeOK, BaseInv, Quiet, Convert \/ BitsBase \/ Compact
  PROVE  Quiet'
<1> USE QuietTyped DEF At, envVars, Quiet, VmQuiet, FilesQuiet, StageQuiet, UpdateQuiet,
        SealQuiet, PublishQuiet, VmFor, Building, Updating, Sealing, Based,
        Lags, The, Slot
<1>1. CASE Convert
  <2>1. PICK d : Put("base", d) /\ d.kind \in {"absent", "whole"}
    <3>1. \A kind \in {"absent", "whole"} : [NoDisk EXCEPT !.kind = kind].kind = kind
      BY DEF NoDisk
    <3> QED BY <1>1, <3>1 DEF Convert
  <2>2. \A p \in Product : \A f \in Slot :
          disks'[p][f] = IF p = turn /\ f = "base" THEN d ELSE disks[p][f]
    BY <2>1, PutOne
  <2> QED BY <1>1, <2>1, <2>2 DEF Convert
<1>2. CASE BitsBase
  <2>1. PICK blocked \in BOOLEAN :
          MountAndRun("base", WithUpdateScript(The("base"), blocked))
    BY <1>2 DEF BitsBase
  <2>2. /\ attached' = {}
        /\ \A p \in Product : \A f \in Slot :
             disks'[p][f] = IF p = turn /\ f = "base" /\ disks[p][f].kind = "whole"
                            THEN WithUpdateScript(The("base"), blocked) ELSE disks[p][f]
    BY <1>2, <2>1, QuietMount DEF BitsBase
  <2>3. /\ WithUpdateScript(The("base"), blocked).kind = The("base").kind
        /\ WithUpdateScript(The("base"), blocked).level = The("base").level
    BY DEF WithUpdateScript, Disk
  <2> QED BY <1>2, <2>2, <2>3 DEF BitsBase
<1>3. CASE Compact
  <2>1. attached' = {} /\ \A p \in Product : \A f \in Slot : disks'[p][f] = disks[p][f]
    BY <1>3, QuietMount DEF Compact
  <2> QED BY <1>3, <2>1 DEF Compact
<1> QED BY <1>1, <1>2, <1>3

\* The update disk starts level with the base, and its marker tells when it
\* is ahead.
LEMMA QuietUpdate ==
  ASSUME TypeOK, BaseInv, Quiet, Diff \/ BitsUpdate \/ Inspect \/ Discard
  PROVE  Quiet'
<1> USE QuietTyped DEF At, envVars, Quiet, VmQuiet, FilesQuiet, StageQuiet, UpdateQuiet,
        SealQuiet, PublishQuiet, VmFor, Building, Updating, Sealing, Based,
        Lags, The, Slot
<1>1. CASE Diff
  <2>1. /\ The("base").kind = "whole" /\ NewChild("update") = The("base")
        /\ Put("update", The("base"))
    BY <1>1, QuietFree DEF Diff, NewChild, NoDisk
  <2>2. \A p \in Product : \A f \in Slot :
          disks'[p][f] = IF p = turn /\ f = "update" THEN The("base") ELSE disks[p][f]
    BY <2>1, PutOne
  <2> QED BY <1>1, <2>1, <2>2 DEF Diff
<1>2. CASE BitsUpdate
  <2>1. PICK d : /\ MountAndRun("update", d)
                 /\ d.kind = The("update").kind /\ d.level = The("update").level
    <3>1. \A b \in BOOLEAN :
            LET d == [WithUpdateScript(The("update"), b) EXCEPT !.changesMade = FALSE]
            IN d.kind = The("update").kind /\ d.level = The("update").level
      BY DEF WithUpdateScript, Disk
    <3> QED BY <1>2, <3>1 DEF BitsUpdate
  <2>2. /\ attached' = {}
        /\ \A p \in Product : \A f \in Slot :
             disks'[p][f] = IF p = turn /\ f = "update" /\ disks[p][f].kind = "whole"
                            THEN d ELSE disks[p][f]
    BY <1>2, <2>1, QuietMount DEF BitsUpdate
  <2> QED BY <1>2, <2>1, <2>2 DEF BitsUpdate
<1>3. CASE Inspect
  <2> DEFINE d == [The("update") EXCEPT !.changesMade = FALSE]
  <2>1. d.kind = The("update").kind /\ d.level = The("update").level
    BY DEF Disk
  <2>2. /\ attached' = {}
        /\ \A p \in Product : \A f \in Slot :
             disks'[p][f] = IF p = turn /\ f = "update" /\ disks[p][f].kind = "whole"
                            THEN d ELSE disks[p][f]
    BY <1>3, QuietMount DEF Inspect
  <2>3. /\ pc = "inspect" /\ pc' \in {"merge", "discard"}
        /\ pc' = "merge" => needed'
        /\ pc' = "discard" => ~The("update").changesMade
        /\ UNCHANGED <<turn, stage, vm, startFailures, unlisted>>
    BY <1>3, QuietFree DEF Inspect
  <2> HIDE DEF d
  <2> QED BY <2>1, <2>2, <2>3
<1>4. CASE Discard
  <2>1. Put("update", NoDisk)  BY <1>4, QuietFree DEF Discard
  <2>2. \A p \in Product : \A f \in Slot :
          disks'[p][f] = IF p = turn /\ f = "update" THEN NoDisk ELSE disks[p][f]
    BY <2>1, PutOne
  <2>3. NoDisk.kind = "absent"  BY DEF NoDisk
  <2> QED BY <1>4, <2>2, <2>3 DEF Discard
<1> QED BY <1>1, <1>2, <1>3, <1>4

\* The base takes over the update disk whole; the marker has made a new image
\* necessary.
LEMMA QuietMerge ==
  ASSUME TypeOK, BaseInv, Quiet, Merge
  PROVE  Quiet'
<1> USE QuietTyped DEF At, envVars, Quiet, VmQuiet, FilesQuiet, StageQuiet, UpdateQuiet,
        SealQuiet, PublishQuiet, VmFor, Building, Updating, Sealing, Based,
        Lags, The, Slot
<1>1. /\ disks[turn]["update"].kind = "whole" /\ disks[turn]["sysprep"].kind = "absent"
      /\ ~Attached("base")
  BY QuietFree DEF Merge, BaseInv, PlaceOK
<1>2. \A p \in Product : \A f \in Slot :
        disks'[p][f] = IF p # turn THEN disks[p][f]
                       ELSE IF f = "base" THEN disks[p]["update"]
                       ELSE IF f = "update" THEN NoDisk
                       ELSE disks[p][f]
  BY <1>1, TypeParts DEF Merge, Disks
<1>3. NoDisk.kind = "absent"  BY DEF NoDisk
<1> QED BY <1>1, <1>2, <1>3 DEF Merge

\* The copy that gets sealed holds what the base holds.
LEMMA QuietSeal ==
  ASSUME TypeOK, BaseInv, Quiet, DiffSysprep \/ SealScript \/ Unscript
  PROVE  Quiet'
<1> USE QuietTyped DEF At, envVars, Quiet, VmQuiet, FilesQuiet, StageQuiet, UpdateQuiet,
        SealQuiet, PublishQuiet, VmFor, Building, Updating, Sealing, Based,
        Lags, The, Slot
<1>1. CASE DiffSysprep
  <2>1. /\ The("base").kind = "whole" /\ NewChild("sysprep") = The("base")
        /\ Put("sysprep", The("base"))
    BY <1>1, QuietFree DEF DiffSysprep, NewChild, NoDisk
  <2>2. \A p \in Product : \A f \in Slot :
          disks'[p][f] = IF p = turn /\ f = "sysprep" THEN The("base") ELSE disks[p][f]
    BY <2>1, PutOne
  <2> QED BY <1>1, <2>1, <2>2 DEF DiffSysprep
<1>2. CASE SealScript
  <2> DEFINE d == [The("sysprep") EXCEPT !.logon = "sysprep"]
  <2>1. /\ d.kind = The("sysprep").kind /\ d.level = The("sysprep").level
        /\ d.logon = "sysprep"
    BY DEF Disk
  <2>2. /\ attached' = {}
        /\ \A p \in Product : \A f \in Slot :
             disks'[p][f] = IF p = turn /\ f = "sysprep" /\ disks[p][f].kind = "whole"
                            THEN d ELSE disks[p][f]
    BY <1>2, QuietMount DEF SealScript
  <2> HIDE DEF d
  <2> QED BY <1>2, <2>1, <2>2 DEF SealScript
<1>3. CASE Unscript
  <2> DEFINE l == IF GenericSysprep THEN "none" ELSE "post"
             d == [The("sysprep") EXCEPT !.logon = l]
  <2>1. /\ d.kind = The("sysprep").kind /\ d.level = The("sysprep").level
        /\ The("sysprep").sealed => Published(d)
    BY DEF Disk, Published
  <2>2. /\ attached' = {}
        /\ \A p \in Product : \A f \in Slot :
             disks'[p][f] = IF p = turn /\ f = "sysprep" /\ disks[p][f].kind = "whole"
                            THEN d ELSE disks[p][f]
    BY <1>3, QuietMount DEF Unscript
  <2> HIDE DEF d
  <2> QED BY <1>3, <2>1, <2>2 DEF Unscript
<1> QED BY <1>1, <1>2, <1>3

\* The image is the sealed copy, which then goes.
LEMMA QuietPublish ==
  ASSUME TypeOK, BaseInv, Quiet, Publish \/ Optimize
  PROVE  Quiet'
<1> USE QuietTyped DEF At, envVars, Quiet, VmQuiet, FilesQuiet, StageQuiet, UpdateQuiet,
        SealQuiet, PublishQuiet, VmFor, Building, Updating, Sealing, Based,
        Lags, The, Slot
<1>1. NoDisk.kind = "absent"  BY DEF NoDisk
<1>2. CASE Publish
  <2>1. Put("final", The("sysprep"))  BY <1>1, <1>2, QuietFree DEF Publish
  <2>2. \A p \in Product : \A f \in Slot :
          disks'[p][f] = IF p = turn /\ f = "final" THEN The("sysprep") ELSE disks[p][f]
    BY <2>1, PutOne
  <2> QED BY <1>2, <2>2 DEF Publish
<1>3. CASE Optimize
  <2>1. Put("sysprep", NoDisk) /\ attached' = {}
    BY <1>3, QuietFree DEF Optimize, Detach
  <2>2. \A p \in Product : \A f \in Slot :
          disks'[p][f] = IF p = turn /\ f = "sysprep" THEN NoDisk ELSE disks[p][f]
    BY <2>1, PutOne
  <2> QED BY <1>1, <1>3, <2>1, <2>2 DEF Optimize
<1> QED BY <1>2, <1>3

\* The steps that touch no disk.  A VM that does not start counts.
LEMMA QuietOther ==
  ASSUME TypeOK, BaseInv, Quiet, crashes' = crashes,
         Begin \/ Start \/ RunVm \/ WaitOff \/ FinalCheck \/ Finish \/ NextProduct
         \/ UpdatesComeOut \/ UNCHANGED vars
  PROVE  Quiet'
<1> USE QuietTyped DEF At, envVars, Quiet, VmQuiet, FilesQuiet, StageQuiet, UpdateQuiet,
        SealQuiet, PublishQuiet, VmFor, Building, Updating, Sealing, Based,
        Lags, The, Slot
<1>1. disks' = disks
  BY DEF Begin, Start, RunVm, WaitOff, FinalCheck, Finish, NextProduct,
         UpdatesComeOut, vars
<1> USE <1>1
<1>2. CASE Begin  BY <1>2 DEF Begin
<1>3. CASE Start  BY <1>3 DEF Start, NoVm
<1>4. CASE RunVm
  <2>1. CASE pc' = "idle"
    <3>1. crashes \in Nat  BY TypeParts, FactoryAssumption
    <3>2. The(stage).kind = "absent" /\ UNCHANGED <<vm, startFailures>>
      BY <1>4, <2>1, <3>1 DEF RunVm
    <3>3. UNCHANGED <<turn, stage, needed, attached, unlisted>> /\ pc = "runVm"
      BY <1>4 DEF RunVm
    <3> QED BY <2>1, <3>2, <3>3
  <2>2. CASE pc' # "idle"
    <3>1. The(stage).kind = "whole" /\ ~Attached(stage)
      BY <1>4, <2>2, QuietFree, TypeParts DEF RunVm, Stage
    <3>2. PICK state \in {"off", BootState(The(stage))} :
            /\ vm' = [state |-> state, product |-> turn, slot |-> stage]
            /\ state = "off" => startFailures' = startFailures + 1
            /\ state # "off" => startFailures' = startFailures
      BY <1>4, <2>2, <3>1 DEF RunVm
    <3>3. state \notin {"none", "found"} /\ startFailures \in Nat
      BY TypeParts, FactoryAssumption DEF BootState
    <3>4. /\ pc = "runVm" /\ pc' = "waitOff"
          /\ UNCHANGED <<turn, stage, needed, attached, unlisted>>
      BY <1>4, <2>2 DEF RunVm
    <3> QED BY <3>1, <3>2, <3>3, <3>4
  <2> QED BY <2>1, <2>2
<1>5. CASE WaitOff
  <2>1. stage \in Stage  BY TypeParts
  <2> QED BY <1>5, <2>1 DEF WaitOff, NoVm, Stage
<1>6. CASE FinalCheck  BY <1>6 DEF FinalCheck
<1>7. CASE Finish  BY <1>7 DEF Finish
<1>8. CASE NextProduct  BY <1>8 DEF NextProduct
<1>9. CASE UpdatesComeOut  BY <1>9 DEF UpdatesComeOut
<1>10. CASE UNCHANGED vars  BY <1>10 DEF vars
<1> QED BY <1>2, <1>3, <1>4, <1>5, <1>6, <1>7, <1>8, <1>9, <1>10

\* Inside the VM: updates leave the marker, sysprep leaves a sealed disk.
LEMMA QuietLeaves ==
  ASSUME TypeOK, Quiet, vm.state \in On,
         NEW d, NEW state \in {"off"} \cup On, GuestLeaves(d, state),
         d.kind = VmDisk.kind, d.logon = VmDisk.logon,
         d.level \in Nat, d.level >= VmDisk.level,
         unlisted' \in Nat, unlisted' >= unlisted,
         vm.slot = "update" =>
           /\ state = "found" => d.changesMade
           /\ VmDisk.changesMade => d.changesMade
           /\ d.level > VmDisk.level =>
                vm.state = "found" \/ unlisted' > unlisted,
         vm.slot = "sysprep" /\ state = "off" => d.sealed
  PROVE  Quiet'
<1> USE QuietTyped DEF At, envVars, Quiet, VmQuiet, FilesQuiet, StageQuiet, UpdateQuiet,
        SealQuiet, PublishQuiet, VmFor, Building, Updating, Sealing, Based,
        Lags, The, Slot
<1>1. /\ pc = "waitOff" /\ vm.product = turn /\ vm.slot = stage
      /\ VmDisk = disks[turn][stage] /\ stage \in Stage
  BY TypeParts DEF VmDisk, On
<1>2. /\ \A p \in Product : \A f \in Slot :
           disks'[p][f] = IF p = turn /\ f = stage THEN d ELSE disks[p][f]
      /\ vm'.state = state /\ vm'.product = turn /\ vm'.slot = stage
      /\ UNCHANGED <<pc, turn, stage, needed, attached, startFailures>>
  BY <1>1, TypeParts DEF GuestLeaves, Disks, Vms
<1>3. unlisted \in Nat /\ "none" \notin {"off"} \cup On
  BY TypeParts, FactoryAssumption DEF On
<1> QED BY <1>1, <1>2, <1>3 DEF Stage

LEMMA QuietGuest ==
  ASSUME TypeOK, BaseInv, Quiet, UpdatePass \/ SysprepPass
  PROVE  Quiet'
<1>1. VmDisk \in Disk /\ VmDisk.level \in Nat
  BY QuietTyped, TypeParts DEF VmDisk, Vms
<1>2. CASE UpdatePass
  <2>1. /\ vm.state \in {"running", "found", "clean"} /\ VmDisk.logon = "update"
        /\ unlisted' \in Nat /\ unlisted' >= unlisted
    BY <1>2, PassLeaves, FactoryAssumption
  <2>2. PICK d, state : /\ state \in {"off", "running", "found", "clean"}
                        /\ GuestLeaves(d, state)
                        /\ PassDisk(d)
                        /\ state = "found" => d.changesMade
                        /\ d.level > VmDisk.level =>
                             vm.state = "found" \/ unlisted' > unlisted
    BY <1>2, PassLeaves
  <2>3. vm.slot # "sysprep"
    BY <2>1, TypeParts DEF Quiet, VmQuiet, SealQuiet, VmFor, VmDisk, The
  <2> QED BY <2>1, <2>2, <2>3, QuietLeaves DEF PassDisk, On
<1>3. CASE SysprepPass
  <2> DEFINE d == [VmDisk EXCEPT !.sealed = TRUE]
  <2>1. /\ d.kind = VmDisk.kind /\ d.logon = VmDisk.logon
        /\ d.level = VmDisk.level /\ d.sealed
    BY <1>1 DEF Disk
  <2>2. GuestLeaves(d, "off") \/ GuestLeaves(VmDisk, "stuck")
    BY <1>3 DEF SysprepPass
  <2>3. vm.state = "running" /\ VmDisk.logon = "sysprep"  BY <1>3 DEF SysprepPass
  <2>4. vm.slot # "update"
    BY <2>3, TypeParts DEF BaseInv, ProductOK, Plain, VmDisk, Vms
  <2> HIDE DEF d
  <2>5. unlisted' = unlisted /\ unlisted \in Nat
    BY <1>3, TypeParts, FactoryAssumption DEF SysprepPass
  <2> QED BY <1>1, <2>1, <2>2, <2>3, <2>4, <2>5, QuietLeaves DEF On
<1> QED BY <1>2, <1>3

\* With the first run that is cut short nothing is left to show.
LEMMA QuietStep ==
  ASSUME IInv, QuietInv, [Next]_vars
  PROVE  QuietInv'
<1> DEFINE CutShort == crashes' = crashes + 1
<1>1. CASE CutShort
  <2>1. crashes \in Nat  BY TypeParts, FactoryAssumption DEF IInv
  <2> QED BY <1>1, <2>1 DEF QuietInv
<1>2. CASE ~CutShort
  <2>1. crashes' = crashes
    BY <1>2 DEF Next, Script, Begin, Start, Convert, BitsBase, RunVm, WaitOff, Compact,
       Diff, BitsUpdate, Inspect, Merge, Discard, FinalCheck, DiffSysprep,
       SealScript, Unscript, Publish, Optimize, Finish, NextProduct, UpdatePass,
       Restart, ListUpdates, InstallUpdates, SysprepPass, GuestLeaves,
       UpdatesComeOut, Crash, envVars, vars
  <2>2. ~Crash  BY <1>2 DEF Crash
  <2>3. Quiet => Quiet'
    BY <2>1, <2>2, QuietBuild, QuietUpdate, QuietMerge, QuietSeal, QuietPublish,
       QuietOther, QuietGuest DEF IInv, Next, Script
  <2> QED BY <2>1, <2>3 DEF QuietInv
<1> QED BY <1>1, <1>2

LEMMA QuietInit == Init => QuietInv
  BY DEF Init, NoDisk, NoVm, QuietInv, Quiet, VmQuiet, FilesQuiet, StageQuiet,
         UpdateQuiet, SealQuiet, PublishQuiet, VmFor, Building, Updating, Sealing,
         Based, Lags, The, Slot

LEMMA QuietCorrect == Spec => []QuietInv
<1>1. IInv /\ QuietInv /\ [Next]_vars => (IInv /\ QuietInv)'
  BY StepBase, QuietStep
<1>2. Init => IInv /\ QuietInv  BY InitIInv, QuietInit
<1> QED BY <1>1, <1>2, PTL DEF Spec

\* "saves a sysprepped image": where the factory is not cut short and its
\* VMs start, a product that is done has a whole and sealed image.
THEOREM SealedCorrect == Spec => []SealedUndisturbed
<1>1. TypeOK /\ QuietInv => SealedUndisturbed
  BY QuietTyped DEF QuietInv, Quiet, StageQuiet, PublishQuiet, Published, The,
         SealedUndisturbed, PublishedSealed
<1> QED BY <1>1, QuietCorrect, FactoryTypeCorrect, PTL

\* "creates fully updated VHD images": where the factory is not cut short, the
\* image has every update its base has, also when a VM did not start.
THEOREM UpdatedCorrect == Spec => []UpdatedUndisturbed
<1>1. TypeOK /\ QuietInv => UpdatedUndisturbed
  BY QuietTyped DEF QuietInv, Quiet, FilesQuiet, Lags, Sealing, VmFor, The, Slot,
         UpdatedUndisturbed, PublishedUpdated
<1> QED BY <1>1, QuietCorrect, FactoryTypeCorrect, PTL

\* Where the factory is not cut short, updates on the update disk are only thrown
\* away with it if a pass had installed what its own list did not show.
THEOREM KeptCorrect == Spec => []NoUpdateLost
<1>1. QuietInv => NoUpdateLost
  BY DEF QuietInv, Quiet, UpdateQuiet, NoUpdateLost
<1> QED BY <1>1, QuietCorrect, PTL

===============================================================================
