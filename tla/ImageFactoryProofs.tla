------------------------- MODULE ImageFactoryProofs -------------------------
(***************************************************************************)
(* Proofs about ImageFactory: its types, that the base of a product stays  *)
(* whole, unsealed and up to where it was but for a merge that is cut off, *)
(* and that the factory implements ImageStore, for any products and        *)
(* bounds.                                                                 *)
(***************************************************************************)
EXTENDS ImageFactory, TLAPS

\* A disk that no sealing script has been put on.
Plain(d) == ~d.sealed /\ d.logon \in {"none", "update"}

\* The update disk is a child of the base and ahead of it.
ProductOK(p) ==
  /\ Plain(disks[p]["base"]) /\ Plain(disks[p]["update"])
  /\ disks[p]["base"].kind = "absent" => disks[p]["update"].kind = "absent"
  /\ disks[p]["update"].kind # "absent" =>
       disks[p]["update"].level >= disks[p]["base"].level

\* The script works on disks while there is no VM, and a VM that updates a base
\* does it before there is an update disk.
VmOK ==
  /\ pc \notin {"idle", "start", "next", "waitOff"} => vm.state = "none"
  /\ vm.state # "none" /\ vm.slot = "base" =>
       disks[vm.product]["update"].kind = "absent"

PlaceOK ==
  /\ pc = "convert" => The("base").kind = "absent"
  /\ pc = "bitsBase" \/ (pc = "runVm" /\ stage = "base") =>
       The("update").kind = "absent"
  /\ pc = "merge" => The("update").kind = "whole"

BaseInv == (\A p \in Product : ProductOK(p)) /\ VmOK /\ PlaceOK

IInv == TypeOK /\ BaseInv

--------------------------------------------------------------------------
\* Types.

Disks == [Product -> [Slot -> Disk]]

LEMMA DiskTyped ==
  ASSUME disks \in Disks, turn \in Product
  PROVE  /\ NoDisk \in Disk
         /\ \A slot \in Slot : The(slot) \in Disk /\ Cleaned(slot) \in Disk
                                 /\ NewChild(slot) \in Disk
<1>1. NoDisk \in Disk
  BY FactoryAssumption DEF NoDisk, Disk
<1>2. \A slot \in Slot : The(slot) \in Disk
  BY DEF The, Disks
<1> QED BY <1>1, <1>2 DEF Cleaned, NewChild, Slot

\* What the steps change in a disk.
LEMMA EditTyped ==
  ASSUME NEW d \in Disk
  PROVE  /\ Torn(d) \in Disk
         /\ \A kind \in {"absent", "whole"} : [d EXCEPT !.kind = kind] \in Disk
         /\ \A l \in {"none", "update", "sysprep", "post"} :
              /\ [d EXCEPT !.logon = l] \in Disk
              /\ [d EXCEPT !.logon = l, !.changesMade = FALSE] \in Disk
         /\ \A b \in BOOLEAN : /\ WithUpdateScript(d, b) \in Disk
                                /\ [d EXCEPT !.changesMade = b] \in Disk
         /\ [d EXCEPT !.sealed = TRUE] \in Disk
  BY DEF Torn, WithUpdateScript, Disk

LEMMA PutTyped ==
  ASSUME disks \in Disks, turn \in Product, NEW slot \in Slot, NEW d \in Disk,
         Put(slot, d)
  PROVE  disks' \in Disks
  BY DEF Put, Disks

\* A step of a disk that is attached for it.
LEMMA MountTyped ==
  ASSUME disks \in Disks, turn \in Product, attached \in SUBSET (Product \X Slot),
         NEW slot \in Slot, NEW block \in Disk, MountAndRun(slot, block)
  PROVE  disks' \in Disks /\ attached' \in SUBSET (Product \X Slot)
<1>1. disks' \in Disks
  BY DiskTyped, PutTyped DEF MountAndRun
<1>2. attached' \in SUBSET (Product \X Slot)
  BY DEF MountAndRun, Detach
<1> QED BY <1>1, <1>2

Vms == [state: {"none", "off"} \cup On, product: Product, slot: Slot]

\* What a step must show to keep the types: the rest is left alone.
LEMMA TypeParts ==
  TypeOK <=> /\ pc \in Steps /\ turn \in Product /\ stage \in Stage
             /\ needed \in BOOLEAN /\ disks \in Disks
             /\ attached \in SUBSET (Product \X Slot) /\ vm \in Vms
             /\ available \in 0..MaxLevel /\ cycles \in 0..MaxCycles
             /\ crashes \in 0..MaxCrashes /\ startFailures \in 0..MaxStartFailures
             /\ unlisted \in 0..MaxUnlisted
  BY DEF TypeOK, Disks, Vms

LEMMA TypePartsNext ==
  TypeOK' <=> /\ pc' \in Steps /\ turn' \in Product /\ stage' \in Stage
              /\ needed' \in BOOLEAN /\ disks' \in Disks
              /\ attached' \in SUBSET (Product \X Slot) /\ vm' \in Vms
              /\ available' \in 0..MaxLevel /\ cycles' \in 0..MaxCycles
              /\ crashes' \in 0..MaxCrashes /\ startFailures' \in 0..MaxStartFailures
              /\ unlisted' \in 0..MaxUnlisted
  BY DEF TypeOK, Disks, Vms

LEMMA InitTyped ==
  ASSUME Init
  PROVE  TypeOK
<1> USE FactoryAssumption
<1>1. NoDisk \in Disk  BY DEF NoDisk, Disk
<1>2. 1 \in Product  BY DEF Product
<1>3. NoVm \in Vms  BY <1>2 DEF NoVm, Vms, Slot
<1>4. disks \in Disks  BY <1>1 DEF Init, Disks
<1>5. needed \in BOOLEAN  BY Zenon DEF Init
<1> QED BY <1>2, <1>3, <1>4, <1>5, TypeParts DEF Init, Steps, Stage

\* A mount or a dismount of one of the current product's disks.
LEMMA DetachTyped ==
  ASSUME attached \in SUBSET (Product \X Slot), NEW slot \in Slot, Detach(slot)
  PROVE  attached' \in SUBSET (Product \X Slot)
  BY DEF Detach

LEMMA MergeTyped ==
  ASSUME TypeOK, Merge
  PROVE  disks' \in Disks
<1> DEFINE row == disks[turn]
           merged == [row EXCEPT
             !["base"] = row["update"], !["update"] = NoDisk,
             !["sysprep"] = IF @.kind = "absent" THEN @ ELSE Torn(@)]
<1>1. disks \in Disks /\ turn \in Product  BY TypeParts
<1>2. row \in [Slot -> Disk]  BY <1>1 DEF Disks
<1>3. /\ NoDisk \in Disk /\ row["update"] \in Disk /\ row["sysprep"] \in Disk
      /\ Torn(row["sysprep"]) \in Disk
  BY <1>1, <1>2, DiskTyped, EditTyped DEF Slot
<1>4. merged \in [Slot -> Disk]
  <2> HIDE DEF row
  <2> QED BY <1>2, <1>3
<1>5. CASE UNCHANGED disks  BY <1>1, <1>5
<1>6. CASE disks' = [disks EXCEPT ![turn] = merged]
  BY <1>1, <1>4, <1>6 DEF Disks
<1>7. UNCHANGED disks \/ disks' = [disks EXCEPT ![turn] = merged]
  BY <1>1 DEF Merge, The
<1> QED BY <1>5, <1>6, <1>7

LEMMA PutSteps ==
  ASSUME TypeOK,
         \/ Convert \/ Diff \/ Merge \/ Discard \/ DiffSysprep \/ Publish \/ Optimize
  PROVE  TypeOK'
<1> USE TypeParts, DiskTyped, EditTyped, PutTyped, DetachTyped
    DEF At, envVars, Steps, Slot
<1>1. CASE Convert
  <2>1. disks' \in Disks  BY <1>1 DEF Convert
  <2> QED BY <1>1, <2>1, TypePartsNext DEF Convert
<1>2. CASE Diff
  <2>1. disks' \in Disks  BY <1>2 DEF Diff
  <2> QED BY <1>2, <2>1, TypePartsNext DEF Diff
<1>3. CASE Merge
  <2>1. disks' \in Disks  BY <1>3, MergeTyped
  <2> QED BY <1>3, <2>1, TypePartsNext DEF Merge
<1>4. CASE Discard
  <2>1. disks' \in Disks  BY <1>4 DEF Discard
  <2> QED BY <1>4, <2>1, TypePartsNext DEF Discard
<1>5. CASE DiffSysprep
  <2>1. disks' \in Disks  BY <1>5 DEF DiffSysprep
  <2> QED BY <1>5, <2>1, TypePartsNext DEF DiffSysprep
<1>6. CASE Publish
  <2>1. disks' \in Disks  BY <1>6 DEF Publish
  <2> QED BY <1>6, <2>1, TypePartsNext DEF Publish
<1>7. CASE Optimize
  <2>1. disks' \in Disks  BY <1>7 DEF Optimize
  <2>2. attached' \in SUBSET (Product \X Slot)  BY <1>7 DEF Optimize
  <2> QED BY <1>7, <2>1, <2>2, TypePartsNext DEF Optimize
<1> QED BY <1>1, <1>2, <1>3, <1>4, <1>5, <1>6, <1>7

LEMMA MountSteps ==
  ASSUME TypeOK,
         \/ BitsBase \/ Compact \/ BitsUpdate \/ Inspect \/ SealScript \/ Unscript
  PROVE  TypeOK'
<1> USE TypeParts DEF At, envVars, Steps, Stage
<1> DEFINE Mounted == disks' \in Disks /\ attached' \in SUBSET (Product \X Slot)
<1>1. /\ {"base", "update", "sysprep"} \subseteq Slot
      /\ \A slot \in Slot : The(slot) \in Disk
  BY DiskTyped DEF Slot
<1>2. CASE BitsBase
  <2>1. PICK blocked \in BOOLEAN :
          MountAndRun("base", WithUpdateScript(The("base"), blocked))
    BY <1>2 DEF BitsBase
  <2>2. Mounted  BY <1>1, <2>1, EditTyped, MountTyped
  <2> QED BY <1>2, <2>2, TypePartsNext DEF BitsBase
<1>3. CASE Compact
  <2>1. Mounted  BY <1>1, <1>3, MountTyped DEF Compact
  <2> QED BY <1>3, <2>1, TypePartsNext DEF Compact
<1>4. CASE BitsUpdate
  <2>1. PICK blocked \in BOOLEAN :
          MountAndRun("update", [WithUpdateScript(The("update"), blocked)
                                   EXCEPT !.changesMade = FALSE])
    BY <1>4 DEF BitsUpdate
  <2>2. WithUpdateScript(The("update"), blocked) \in Disk  BY <1>1, EditTyped
  <2>3. Mounted  BY <1>1, <2>1, <2>2, EditTyped, MountTyped
  <2> QED BY <1>4, <2>3, TypePartsNext DEF BitsUpdate
<1>5. CASE Inspect
  <2>1. Mounted  BY <1>1, <1>5, EditTyped, MountTyped DEF Inspect
  <2>2. needed' \in BOOLEAN  BY <1>5, Zenon DEF Inspect
  <2>3. pc' \in Steps  BY <1>5 DEF Inspect
  <2> QED BY <1>5, <2>1, <2>2, <2>3, TypePartsNext DEF Inspect
<1>6. CASE SealScript
  <2>1. Mounted  BY <1>1, <1>6, EditTyped, MountTyped DEF SealScript
  <2> QED BY <1>6, <2>1, TypePartsNext DEF SealScript
<1>7. CASE Unscript
  <2>1. Mounted  BY <1>1, <1>7, EditTyped, MountTyped DEF Unscript
  <2> QED BY <1>7, <2>1, TypePartsNext DEF Unscript
<1> QED BY <1>2, <1>3, <1>4, <1>5, <1>6, <1>7

LEMMA OtherSteps ==
  ASSUME TypeOK,
         Begin \/ Start \/ RunVm \/ WaitOff \/ FinalCheck \/ Finish \/ NextProduct
         \/ UpdatesComeOut \/ UNCHANGED vars
  PROVE  TypeOK'
<1> USE TypeParts, FactoryAssumption DEF At, envVars, Steps
<1>1. NoVm \in Vms /\ 1 \in Product  BY DEF NoVm, Vms, Slot, Product
<1>2. CASE Begin  BY <1>1, <1>2, TypePartsNext DEF Begin
<1>3. CASE Start
  <2>1. needed' \in BOOLEAN  BY <1>3, Zenon DEF Start
  <2> QED BY <1>1, <1>3, <2>1, TypePartsNext DEF Start
<1>4. CASE RunVm
  <2>1. vm' \in Vms  BY <1>4 DEF RunVm, Vms, On, BootState, Stage, Slot
  <2>2. startFailures' \in 0..MaxStartFailures  BY <1>4 DEF RunVm
  <2>3. pc' \in Steps  BY <1>4 DEF RunVm
  <2>4. crashes' \in 0..MaxCrashes  BY <1>4 DEF RunVm
  <2> QED BY <1>4, <2>1, <2>2, <2>3, <2>4, TypePartsNext DEF RunVm
<1>5. CASE WaitOff
  <2>1. pc' \in Steps  BY <1>5 DEF WaitOff, Stage
  <2> QED BY <1>1, <1>5, <2>1, TypePartsNext DEF WaitOff
<1>6. CASE FinalCheck
  <2>1. needed' \in BOOLEAN  BY <1>6, Zenon DEF FinalCheck
  <2>2. pc' \in Steps  BY <1>6 DEF FinalCheck
  <2> QED BY <1>6, <2>1, <2>2, TypePartsNext DEF FinalCheck
<1>7. CASE Finish  BY <1>7, TypePartsNext DEF Finish
<1>8. CASE NextProduct
  <2>1. pc' \in Steps /\ turn' \in Product  BY <1>8 DEF NextProduct, Product
  <2> QED BY <1>8, <2>1, TypePartsNext DEF NextProduct
<1>9. CASE UpdatesComeOut  BY <1>9, TypePartsNext DEF UpdatesComeOut
<1>10. CASE UNCHANGED vars  BY <1>10, TypePartsNext DEF vars
<1> QED BY <1>2, <1>3, <1>4, <1>5, <1>6, <1>7, <1>8, <1>9, <1>10

\* What a pass of the update check leaves on the VM's disk.
PassDisk(d) ==
  /\ d \in Disk
  /\ d.kind = VmDisk.kind /\ d.logon = VmDisk.logon /\ d.sealed = VmDisk.sealed
  /\ d.level \in Nat /\ d.level >= VmDisk.level
  /\ VmDisk.changesMade => d.changesMade

LEMMA PassLeaves ==
  ASSUME TypeOK, UpdatePass
  PROVE  /\ vm.state \in {"running", "found", "clean"} /\ VmDisk.logon = "update"
         /\ unlisted' \in 0..MaxUnlisted /\ unlisted' >= unlisted
         /\ \E d, state : /\ state \in {"off", "running", "found", "clean"}
                          /\ GuestLeaves(d, state)
                          /\ PassDisk(d)
                          /\ state = "found" => d.changesMade
                          /\ d.level > VmDisk.level =>
                               vm.state = "found" \/ unlisted' > unlisted
<1>1. VmDisk \in Disk /\ 0..MaxLevel \subseteq Nat
  BY TypeParts, FactoryAssumption DEF VmDisk, Vms, Disks
<1>2. unlisted \in Nat /\ MaxUnlisted \in Nat  BY TypeParts, FactoryAssumption
<1>3. CASE Restart
  <2> DEFINE d == [VmDisk EXCEPT !.blocked = FALSE]
  <2>1. PassDisk(d) /\ d.level = VmDisk.level
    <3>1. VmDisk.level \in Nat  BY <1>1 DEF Disk
    <3>2. d \in Disk  BY <1>1 DEF Disk
    <3>3. /\ d.kind = VmDisk.kind /\ d.logon = VmDisk.logon /\ d.sealed = VmDisk.sealed
          /\ d.level = VmDisk.level /\ d.changesMade = VmDisk.changesMade
      BY <1>1 DEF Disk
    <3> HIDE DEF d
    <3> QED BY <3>1, <3>2, <3>3 DEF PassDisk
  <2>2. GuestLeaves(d, "running") /\ unlisted' = unlisted  BY <1>3 DEF Restart
  <2>3. vm.state \in {"running", "found", "clean"} /\ VmDisk.logon = "update"
    BY <1>3 DEF Restart, Checks
  <2> HIDE DEF d
  <2>4. ~(d.level > VmDisk.level)  BY <1>1, <2>1 DEF Disk
  <2> QED BY <1>2, <2>1, <2>2, <2>3, <2>4, TypeParts
<1>4. CASE ListUpdates
  <2>1. PICK found \in BOOLEAN :
          GuestLeaves([VmDisk EXCEPT !.changesMade = @ \/ found],
                      IF found THEN "found" ELSE "clean")
    BY <1>4 DEF ListUpdates
  <2> DEFINE d == [VmDisk EXCEPT !.changesMade = @ \/ found]
             state == IF found THEN "found" ELSE "clean"
  <2>2. PassDisk(d) /\ d.level = VmDisk.level /\ (found => d.changesMade)
    BY <1>1 DEF PassDisk, Disk
  <2>3. state \in {"found", "clean"} /\ (state = "found" => found)  OBVIOUS
  <2>4. GuestLeaves(d, state) /\ unlisted' = unlisted  BY <1>4, <2>1 DEF ListUpdates
  <2>5. vm.state = "running" /\ VmDisk.logon = "update"
    BY <1>4 DEF ListUpdates, Checks
  <2> HIDE DEF d, state
  <2>6. ~(d.level > VmDisk.level)  BY <1>1, <2>2 DEF Disk
  <2> QED BY <1>2, <2>2, <2>3, <2>4, <2>5, <2>6, TypeParts
<1>5. CASE InstallUpdates
  <2>1. PICK before \in {"found", "clean"}, level \in VmDisk.level..available,
             state \in {"running", "off"} :
          /\ Checks(before)
          /\ GuestLeaves([VmDisk EXCEPT !.level = level, !.blocked = FALSE], state)
          /\ IF before = "clean" /\ level > VmDisk.level
               THEN unlisted < MaxUnlisted /\ unlisted' = unlisted + 1
               ELSE UNCHANGED unlisted
    BY <1>5 DEF InstallUpdates
  <2> DEFINE d == [VmDisk EXCEPT !.level = level, !.blocked = FALSE]
  <2>2. level \in 0..MaxLevel /\ level \in Nat /\ level >= VmDisk.level
    BY <1>1, TypeParts, FactoryAssumption DEF Disk
  <2>3. PassDisk(d) /\ d.level = level  BY <1>1, <2>2 DEF PassDisk, Disk
  <2>4. GuestLeaves(d, state)  BY <2>1
  <2> HIDE DEF d
  <2>5. vm.state = before /\ VmDisk.logon = "update"  BY <2>1 DEF Checks
  <2>6. /\ unlisted' \in 0..MaxUnlisted /\ unlisted' >= unlisted
        /\ d.level > VmDisk.level => vm.state = "found" \/ unlisted' > unlisted
    BY <1>2, <2>1, <2>3, <2>5, TypeParts
  <2> QED BY <2>1, <2>3, <2>4, <2>5, <2>6
<1> QED BY <1>3, <1>4, <1>5 DEF UpdatePass

\* Inside the VM.
LEMMA GuestTyped ==
  ASSUME TypeOK, NEW d \in Disk, NEW state \in {"off"} \cup On,
         GuestLeaves(d, state), unlisted' \in 0..MaxUnlisted
  PROVE  TypeOK'
<1> USE TypeParts DEF GuestLeaves
<1>1. disks' \in Disks  BY DEF Disks, Vms
<1>2. vm' \in Vms  BY DEF Vms
<1> QED BY <1>1, <1>2, TypePartsNext

LEMMA GuestSteps ==
  ASSUME TypeOK, UpdatePass \/ SysprepPass
  PROVE  TypeOK'
<1>1. CASE UpdatePass
  BY <1>1, PassLeaves, GuestTyped DEF PassDisk, On
<1>2. CASE SysprepPass
  <2>1. VmDisk \in Disk  BY TypeParts DEF VmDisk, Vms, Disks
  <2> QED BY <1>2, <2>1, TypeParts, EditTyped, GuestTyped DEF SysprepPass, On
<1> QED BY <1>1, <1>2

\* What an interrupted step leaves.
LEMMA InterruptTyped ==
  ASSUME TypeOK, Interrupt
  PROVE  disks' \in Disks
<1> USE TypeParts
<1>1. CASE UNCHANGED disks  BY <1>1
<1>2. CASE Put("base", Torn(The("base")))
  BY <1>2, DiskTyped, EditTyped, PutTyped DEF Slot
<1>3. ASSUME NEW f \in MountedBy(pc) \ {"final"},
             \/ Put(f, [The(f) EXCEPT !.changesMade = FALSE])
             \/ Put(f, [The(f) EXCEPT !.logon = "none", !.changesMade = FALSE])
      PROVE  disks' \in Disks
  <2>1. f \in Slot  BY DEF MountedBy, Slot, Steps
  <2> QED BY <1>3, <2>1, DiskTyped, EditTyped, PutTyped
<1>4. ASSUME NEW d \in {NoDisk, Torn(NoDisk)}, Put("final", d)  PROVE disks' \in Disks
  BY <1>4, DiskTyped, EditTyped, PutTyped DEF Slot
<1> QED BY <1>1, <1>2, <1>3, <1>4 DEF Interrupt

LEMMA CrashTyped ==
  ASSUME TypeOK, Crash
  PROVE  TypeOK'
<1> USE TypeParts DEF Crash
<1>1. disks' \in Disks  BY InterruptTyped
<1>2. MountedBy(pc) \subseteq Slot  BY DEF MountedBy, Slot, Steps
<1>3. attached' \in SUBSET (Product \X Slot)  BY <1>2
<1>4. vm' \in Vms  BY DEF Vms
<1>5. crashes' \in 0..MaxCrashes  BY FactoryAssumption
<1> QED BY <1>1, <1>3, <1>4, <1>5, TypePartsNext DEF Steps

LEMMA StepTyped ==
  ASSUME TypeOK, [Next]_vars
  PROVE  TypeOK'
  BY PutSteps, MountSteps, OtherSteps, GuestSteps, CrashTyped DEF Next, Script

\* Types, for any number of products, updates, runs and crashes.
THEOREM FactoryTypeCorrect == Spec => []TypeOK
  BY InitTyped, StepTyped, PTL DEF Spec

--------------------------------------------------------------------------
\* The base.

Advances(p) ==
  /\ disks[p]["base"].kind # "absent" =>
       /\ disks'[p]["base"].kind # "absent"
       /\ disks'[p]["base"].level >= disks[p]["base"].level
  /\ disks[p]["base"].kind = "whole" =>
       \/ disks'[p]["base"].kind = "whole"
       \/ /\ pc = "merge" /\ crashes' > crashes
          /\ p = turn /\ disks'[p]["base"].kind = "torn"

BaseStep == \A p \in Product : ProductOK(p)' /\ Advances(p)

\* e is d with other scripts or markers on it.
Same(d, e) == e.kind = d.kind /\ e.level = d.level /\ (Plain(d) => Plain(e))

\* The disks the invariant is about stay the same.
Kept == \A p \in Product : \A f \in {"base", "update"} :
          Same(disks[p][f], disks'[p][f])

LEMMA LevelTyped ==
  ASSUME TypeOK
  PROVE  \A p \in Product : \A f \in Slot :
           disks[p][f] \in Disk /\ disks[p][f].level \in Nat
<1>1. \A p \in Product : \A f \in Slot : disks[p][f] \in Disk
  BY TypeParts DEF Disks
<1>2. 0..MaxLevel \subseteq Nat  BY FactoryAssumption
<1> QED BY <1>1, <1>2 DEF Disk

LEMMA KeptStep ==
  ASSUME TypeOK, BaseInv, Kept
  PROVE  BaseStep
  BY LevelTyped DEF BaseInv, Kept, Same, BaseStep, ProductOK, Advances, Slot

LEMMA PutOne ==
  ASSUME TypeOK, NEW slot \in Slot, NEW d, Put(slot, d)
  PROVE  \A p \in Product : \A f \in Slot :
           disks'[p][f] = IF p = turn /\ f = slot THEN d ELSE disks[p][f]
  BY TypeParts DEF Put, Disks

LEMMA PutKeeps ==
  ASSUME TypeOK, NEW slot \in Slot, NEW d, Put(slot, d),
         slot \in {"base", "update"} => Same(The(slot), d)
  PROVE  Kept
  BY PutOne DEF Kept, Same, The, Slot

LEMMA MountKeeps ==
  ASSUME TypeOK, NEW slot \in Slot, NEW block, MountAndRun(slot, block),
         slot \in {"base", "update"} => Same(The(slot), block)
  PROVE  Kept
  BY PutKeeps DEF MountAndRun, Same

\* The edits of a base or an update disk.
LEMMA EditSame ==
  ASSUME NEW d \in Disk
  PROVE  /\ Same(d, d)
         /\ \A b \in BOOLEAN : /\ Same(d, WithUpdateScript(d, b))
                /\ Same(d, [WithUpdateScript(d, b) EXCEPT !.changesMade = FALSE])
         /\ Same(d, [d EXCEPT !.changesMade = FALSE])
         /\ Same(d, [d EXCEPT !.logon = "none", !.changesMade = FALSE])
  BY DEF Same, Plain, WithUpdateScript, Disk

\* A step that keeps the disks keeps what the places say of them.
LEMMA KeptPlaces ==
  ASSUME TypeOK, TypeOK', BaseInv, Kept,
         vm' = vm, turn' = turn,
         pc \notin {"idle", "start", "next", "waitOff"},
         pc' # "convert",
         pc' = "bitsBase" \/ (pc' = "runVm" /\ stage' = "base") =>
           The("update").kind = "absent",
         pc' = "merge" => The("update").kind = "whole"
  PROVE  VmOK' /\ PlaceOK'
<1>1. vm.state = "none" /\ turn \in Product
  BY TypeParts DEF BaseInv, VmOK
<1>2. disks'[turn]["update"].kind = disks[turn]["update"].kind
  BY <1>1 DEF Kept, Same
<1> QED BY <1>1, <1>2 DEF VmOK, PlaceOK, The

LEMMA MountBase ==
  ASSUME TypeOK, TypeOK', BaseInv,
         \/ BitsBase \/ Compact \/ BitsUpdate \/ Inspect \/ SealScript \/ Unscript
  PROVE  BaseStep /\ VmOK' /\ PlaceOK'
<1> USE DEF At
<1>1. /\ {"base", "update", "sysprep"} \subseteq Slot
      /\ The("base") \in Disk /\ The("update") \in Disk
  BY LevelTyped, TypeParts DEF Slot, The
<1>2. CASE BitsBase
  <2>1. Kept  BY <1>1, <1>2, EditSame, MountKeeps DEF BitsBase
  <2>2. The("update").kind = "absent"  BY <1>2 DEF BitsBase, BaseInv, PlaceOK
  <2> QED BY <1>2, <2>1, <2>2, KeptStep, KeptPlaces DEF BitsBase
<1>3. CASE Compact
  <2>1. Kept  BY <1>1, <1>3, EditSame, MountKeeps DEF Compact
  <2> QED BY <1>3, <2>1, KeptStep, KeptPlaces DEF Compact
<1>4. CASE BitsUpdate
  <2>1. Kept  BY <1>1, <1>4, EditSame, MountKeeps DEF BitsUpdate
  <2> QED BY <1>4, <2>1, KeptStep, KeptPlaces DEF BitsUpdate
<1>5. CASE Inspect
  <2>1. Kept  BY <1>1, <1>5, EditSame, MountKeeps DEF Inspect
  <2> QED BY <1>5, <2>1, KeptStep, KeptPlaces DEF Inspect
<1>6. CASE SealScript
  <2>1. Kept  BY <1>1, <1>6, MountKeeps DEF SealScript
  <2> QED BY <1>6, <2>1, KeptStep, KeptPlaces DEF SealScript
<1>7. CASE Unscript
  <2>1. Kept  BY <1>1, <1>7, MountKeeps DEF Unscript
  <2> QED BY <1>7, <2>1, KeptStep, KeptPlaces DEF Unscript
<1> QED BY <1>2, <1>3, <1>4, <1>5, <1>6, <1>7

LEMMA PutBase ==
  ASSUME TypeOK, TypeOK', BaseInv, DiffSysprep \/ Publish \/ Optimize
  PROVE  BaseStep /\ VmOK' /\ PlaceOK'
<1> USE DEF At
<1>1. {"sysprep", "final"} \subseteq Slot  BY DEF Slot
<1>2. CASE DiffSysprep
  <2>1. Kept  BY <1>1, <1>2, PutKeeps DEF DiffSysprep
  <2> QED BY <1>2, <2>1, KeptStep, KeptPlaces DEF DiffSysprep
<1>3. CASE Publish
  <2>1. Kept  BY <1>1, <1>3, PutKeeps DEF Publish
  <2> QED BY <1>3, <2>1, KeptStep, KeptPlaces DEF Publish
<1>4. CASE Optimize
  <2>1. Kept  BY <1>1, <1>4, PutKeeps DEF Optimize
  <2> QED BY <1>4, <2>1, KeptStep, KeptPlaces DEF Optimize
<1> QED BY <1>2, <1>3, <1>4

\* The steps that make, replace or delete a base or an update disk.
LEMMA ConvertBase ==
  ASSUME TypeOK, TypeOK', BaseInv, Convert
  PROVE  BaseStep /\ VmOK' /\ PlaceOK'
<1> USE DEF At, Convert
<1>1. /\ turn \in Product /\ vm.state = "none" /\ ProductOK(turn)
      /\ disks[turn]["base"].kind = "absent"
      /\ disks[turn]["update"].kind = "absent"
  BY TypeParts DEF BaseInv, VmOK, PlaceOK, ProductOK, The
<1>2. PICK kind \in {"absent", "whole"} : Put("base", [NoDisk EXCEPT !.kind = kind])
  OBVIOUS
<1>3. \A p \in Product : \A f \in {"base", "update"} :
        disks'[p][f] = IF p = turn /\ f = "base" THEN [NoDisk EXCEPT !.kind = kind]
                       ELSE disks[p][f]
  BY <1>2, PutOne DEF Slot
<1>4. Plain([NoDisk EXCEPT !.kind = kind])  BY DEF Plain, NoDisk
<1>5. ASSUME NEW p \in Product  PROVE ProductOK(p)' /\ Advances(p)
  <2>1. ProductOK(p)  BY DEF BaseInv
  <2>2. CASE p = turn
    BY <1>1, <1>3, <1>4, <2>1, <2>2 DEF ProductOK, Advances
  <2>3. CASE p # turn
    BY <1>3, <2>1, <2>3, LevelTyped DEF ProductOK, Advances, Slot
  <2> QED BY <2>2, <2>3
<1>6. vm' = vm /\ turn' = turn /\ pc' = "bitsBase"  BY DEF envVars
<1>7. disks'[turn]["update"].kind = "absent"  BY <1>1, <1>3
<1> QED BY <1>1, <1>5, <1>6, <1>7 DEF BaseStep, VmOK, PlaceOK, The

\* A new update disk is what the base is, an old one that is in the way stays.
LEMMA DiffBase ==
  ASSUME TypeOK, TypeOK', BaseInv, Diff
  PROVE  BaseStep /\ VmOK' /\ PlaceOK'
<1> USE DEF At, Diff
<1>1. /\ turn \in Product /\ vm.state = "none" /\ ProductOK(turn)
  BY TypeParts DEF BaseInv, VmOK
<1>2. NewChild("update") \in {NoDisk, The("base"), The("update")}
  BY DEF NewChild
<1>3. \A p \in Product : \A f \in {"base", "update"} :
        disks'[p][f] = IF p = turn /\ f = "update" THEN NewChild("update")
                       ELSE disks[p][f]
  BY PutOne DEF Slot
<1>4. Plain(NoDisk) /\ NoDisk.kind = "absent"  BY DEF Plain, NoDisk
<1>5. ASSUME NEW p \in Product  PROVE ProductOK(p)' /\ Advances(p)
  <2>1. ProductOK(p)  BY DEF BaseInv
  <2>2. disks[p]["base"].level \in Nat /\ disks[p]["update"].level \in Nat
    BY LevelTyped DEF Slot
  <2>3. CASE p = turn
    BY <1>1, <1>2, <1>3, <1>4, <2>1, <2>2, <2>3 DEF ProductOK, Advances, The
  <2>4. CASE p # turn
    BY <1>3, <2>1, <2>2, <2>4 DEF ProductOK, Advances
  <2> QED BY <2>3, <2>4
<1>6. vm' = vm /\ turn' = turn /\ pc' = "bitsUpdate"  BY DEF envVars
<1> QED BY <1>1, <1>5, <1>6 DEF BaseStep, VmOK, PlaceOK

LEMMA MergeBase ==
  ASSUME TypeOK, TypeOK', BaseInv, Merge
  PROVE  BaseStep /\ VmOK' /\ PlaceOK'
<1> USE DEF At, Merge
<1>1. /\ turn \in Product /\ vm.state = "none" /\ ProductOK(turn)
      /\ disks[turn]["update"].kind = "whole"
  BY TypeParts DEF BaseInv, VmOK, PlaceOK, The
<1>2. CASE UNCHANGED disks
  <2>1. Kept  BY <1>2 DEF Kept, Same
  <2> QED BY <2>1, KeptStep, KeptPlaces DEF envVars
<1>3. CASE ~UNCHANGED disks
  <2>1. \A p \in Product : \A f \in {"base", "update"} :
          disks'[p][f] = IF p # turn THEN disks[p][f]
                         ELSE IF f = "base" THEN disks[p]["update"] ELSE NoDisk
    BY <1>3, TypeParts DEF Disks, Slot, The
  <2>2. Plain(NoDisk) /\ NoDisk.kind = "absent"  BY DEF Plain, NoDisk
  <2>3. ASSUME NEW p \in Product  PROVE ProductOK(p)' /\ Advances(p)
    <3>1. ProductOK(p)  BY DEF BaseInv
    <3>2. disks[p]["base"].level \in Nat /\ disks[p]["update"].level \in Nat
      BY LevelTyped DEF Slot
    <3>3. CASE p = turn
      BY <1>1, <2>1, <2>2, <3>1, <3>2, <3>3 DEF ProductOK, Advances
    <3>4. CASE p # turn
      BY <2>1, <3>1, <3>2, <3>4 DEF ProductOK, Advances
    <3> QED BY <3>3, <3>4
  <2>4. vm' = vm /\ turn' = turn /\ pc' = "finalCheck"  BY DEF envVars
  <2> QED BY <1>1, <2>3, <2>4 DEF BaseStep, VmOK, PlaceOK
<1> QED BY <1>2, <1>3

LEMMA DiscardBase ==
  ASSUME TypeOK, TypeOK', BaseInv, Discard
  PROVE  BaseStep /\ VmOK' /\ PlaceOK'
<1> USE DEF At, Discard
<1>1. turn \in Product /\ vm.state = "none"
  BY TypeParts DEF BaseInv, VmOK
<1>2. Cleaned("update") \in {NoDisk, The("update")}  BY DEF Cleaned
<1>3. \A p \in Product : \A f \in {"base", "update"} :
        disks'[p][f] = IF p = turn /\ f = "update" THEN Cleaned("update")
                       ELSE disks[p][f]
  BY PutOne DEF Slot
<1>4. Plain(NoDisk) /\ NoDisk.kind = "absent"  BY DEF Plain, NoDisk
<1>5. ASSUME NEW p \in Product  PROVE ProductOK(p)' /\ Advances(p)
  <2>1. ProductOK(p)  BY DEF BaseInv
  <2>2. disks[p]["base"].level \in Nat /\ disks[p]["update"].level \in Nat
    BY LevelTyped DEF Slot
  <2> QED BY <1>2, <1>3, <1>4, <2>1, <2>2 DEF ProductOK, Advances, The
<1>6. vm' = vm /\ turn' = turn /\ pc' = "finalCheck"  BY DEF envVars
<1> QED BY <1>1, <1>5, <1>6 DEF BaseStep, VmOK, PlaceOK

\* The steps that touch no disk.
LEMMA OtherBase ==
  ASSUME TypeOK, TypeOK', BaseInv,
         Begin \/ Start \/ RunVm \/ WaitOff \/ FinalCheck \/ Finish \/ NextProduct
         \/ UpdatesComeOut \/ UNCHANGED vars
  PROVE  BaseStep /\ VmOK' /\ PlaceOK'
<1> USE DEF At, envVars
<1>1. disks' = disks
  BY DEF Begin, Start, RunVm, WaitOff, FinalCheck, Finish, NextProduct,
         UpdatesComeOut, vars
<1>2. BaseStep
  <2>1. Kept  BY <1>1 DEF Kept, Same
  <2> QED BY <2>1, KeptStep
<1> USE <1>1 DEF BaseInv, VmOK, PlaceOK, The
<1>3. CASE Begin  BY <1>2, <1>3 DEF Begin
<1>4. CASE Start  BY <1>2, <1>4 DEF Start, NoVm
<1>5. CASE RunVm  BY <1>2, <1>5, TypeParts DEF RunVm
<1>6. CASE WaitOff
  <2>1. pc' \in {"compact", "inspect", "unscript"}
    BY <1>6, TypeParts DEF WaitOff, Stage
  <2> QED BY <1>2, <1>6, <2>1 DEF WaitOff, NoVm
<1>7. CASE FinalCheck
  <2>1. pc' \in {"diffSysprep", "finish"}  BY <1>7 DEF FinalCheck
  <2> QED BY <1>2, <1>7, <2>1 DEF FinalCheck
<1>8. CASE Finish  BY <1>2, <1>8 DEF Finish
<1>9. CASE NextProduct
  <2>1. pc' \in {"idle", "start"}  BY <1>9 DEF NextProduct
  <2> QED BY <1>2, <1>9, <2>1 DEF NextProduct
<1>10. CASE UpdatesComeOut  BY <1>2, <1>10 DEF UpdatesComeOut
<1>11. CASE UNCHANGED vars  BY <1>2, <1>11 DEF vars
<1> QED BY <1>3, <1>4, <1>5, <1>6, <1>7, <1>8, <1>9, <1>10, <1>11

\* A pass inside the VM raises the level of the disk the VM is on, or seals it.
LEMMA GuestBase ==
  ASSUME TypeOK, TypeOK', BaseInv, NEW d, NEW state, GuestLeaves(d, state),
         vm.state # "none", d.kind = VmDisk.kind,
         vm.slot \in {"base", "update"} =>
           Plain(d) /\ d.level \in Nat /\ d.level >= VmDisk.level
  PROVE  BaseStep /\ VmOK' /\ PlaceOK'
<1> USE DEF GuestLeaves
<1>1. vm.product \in Product /\ vm.slot \in Slot  BY TypeParts DEF Vms
<1>2. \A p \in Product : \A f \in Slot :
        disks'[p][f] = IF p = vm.product /\ f = vm.slot THEN d ELSE disks[p][f]
  BY <1>1, TypeParts DEF Disks
<1>3. ASSUME NEW p \in Product  PROVE ProductOK(p)' /\ Advances(p)
  <2>1. ProductOK(p)  BY DEF BaseInv
  <2>2. disks[p]["base"].level \in Nat /\ disks[p]["update"].level \in Nat
    BY LevelTyped DEF Slot
  <2>3. vm.slot = "base" => disks[vm.product]["update"].kind = "absent"
    BY DEF BaseInv, VmOK
  <2> QED BY <1>1, <1>2, <2>1, <2>2, <2>3 DEF ProductOK, Advances, VmDisk, Slot
<1>4. \A p \in Product : \A f \in Slot : disks'[p][f].kind = disks[p][f].kind
  BY <1>1, <1>2 DEF VmDisk
<1>5. /\ vm'.product = vm.product /\ vm'.slot = vm.slot
      /\ pc' = pc /\ turn' = turn /\ stage' = stage
  BY TypeParts DEF Vms
<1>6. pc \in {"idle", "start", "next", "waitOff"}  BY DEF BaseInv, VmOK
<1>7. VmOK'  BY <1>1, <1>4, <1>5, <1>6 DEF BaseInv, VmOK, Slot
<1>8. PlaceOK'  BY <1>5, <1>6 DEF PlaceOK
<1> QED BY <1>3, <1>7, <1>8 DEF BaseStep

LEMMA PassBase ==
  ASSUME TypeOK, TypeOK', BaseInv, UpdatePass \/ SysprepPass
  PROVE  BaseStep /\ VmOK' /\ PlaceOK'
<1>1. VmDisk \in Disk /\ VmDisk.level \in Nat
  BY LevelTyped, TypeParts DEF VmDisk, Vms
<1>2. vm.slot \in {"base", "update"} => Plain(VmDisk)
  BY TypeParts DEF BaseInv, ProductOK, VmDisk, Vms
<1>3. CASE UpdatePass
  <2>1. PICK d, state : GuestLeaves(d, state) /\ PassDisk(d)  BY <1>3, PassLeaves
  <2>2. vm.state # "none"  BY <1>3, PassLeaves
  <2>3. Plain(VmDisk) => Plain(d)  BY <2>1 DEF PassDisk, Plain
  <2> QED BY <1>2, <2>1, <2>2, <2>3, GuestBase DEF PassDisk
<1>4. CASE SysprepPass
  <2>1. vm.state = "running" /\ VmDisk.logon = "sysprep"
    BY <1>4 DEF SysprepPass
  <2>2. vm.slot \notin {"base", "update"}  BY <1>2, <2>1 DEF Plain
  <2>3. [VmDisk EXCEPT !.sealed = TRUE].kind = VmDisk.kind  BY <1>1 DEF Disk
  <2> QED BY <1>4, <2>1, <2>2, <2>3, GuestBase DEF SysprepPass
<1> QED BY <1>3, <1>4

\* What an interrupted step has written tears no update disk, and a base only
\* in the middle of a merge.
LEMMA InterruptBase ==
  ASSUME TypeOK, BaseInv, Interrupt, crashes' > crashes
  PROVE  /\ BaseStep
         /\ \A p \in Product : disks'[p]["update"].kind = disks[p]["update"].kind
<1>1. ASSUME Kept
      PROVE  /\ BaseStep
             /\ \A p \in Product : disks'[p]["update"].kind = disks[p]["update"].kind
  BY <1>1, KeptStep DEF Kept, Same
<1>2. CASE UNCHANGED disks
  <2>1. Kept  BY <1>2 DEF Kept, Same
  <2> QED BY <1>1, <2>1
<1>3. CASE pc = "merge" /\ Put("base", Torn(The("base")))
  <2>1. /\ turn \in Product /\ ProductOK(turn)
        /\ disks[turn]["update"].kind = "whole" /\ The("base") \in Disk
    BY <1>3, TypeParts, DiskTyped DEF BaseInv, PlaceOK, The, Slot
  <2>2. \A p \in Product : \A f \in {"base", "update"} :
          disks'[p][f] = IF p = turn /\ f = "base" THEN Torn(The("base"))
                         ELSE disks[p][f]
    BY <1>3, PutOne DEF Slot
  <2>3. /\ Torn(The("base")).kind = "torn"
        /\ Torn(The("base")).level = The("base").level
        /\ Plain(The("base")) => Plain(Torn(The("base")))
    BY <2>1 DEF Torn, Plain, Disk
  <2>4. ASSUME NEW p \in Product  PROVE ProductOK(p)' /\ Advances(p)
    <3>1. ProductOK(p)  BY DEF BaseInv
    <3>2. disks[p]["base"].level \in Nat /\ disks[p]["update"].level \in Nat
      BY LevelTyped DEF Slot
    <3> QED BY <1>3, <2>1, <2>2, <2>3, <3>1, <3>2 DEF ProductOK, Advances, The
  <2>5. \A p \in Product : disks'[p]["update"].kind = disks[p]["update"].kind
    BY <2>2
  <2> QED BY <2>4, <2>5 DEF BaseStep
<1>4. ASSUME NEW f \in MountedBy(pc) \ {"final"},
             \/ Put(f, [The(f) EXCEPT !.changesMade = FALSE])
             \/ Put(f, [The(f) EXCEPT !.logon = "none", !.changesMade = FALSE])
      PROVE  Kept
  <2>1. f \in Slot /\ The(f) \in Disk
    BY TypeParts, DiskTyped DEF MountedBy, Slot, Steps
  <2> QED BY <1>4, <2>1, EditSame, PutKeeps
<1>5. ASSUME NEW d, Put("final", d)  PROVE Kept
  BY <1>5, PutKeeps DEF Slot
<1> QED BY <1>1, <1>2, <1>3, <1>4, <1>5 DEF Interrupt

LEMMA CrashBase ==
  ASSUME TypeOK, TypeOK', BaseInv, Crash
  PROVE  BaseStep /\ VmOK' /\ PlaceOK'
<1>1. /\ BaseStep /\ pc' = "idle"
      /\ \A p \in Product : disks'[p]["update"].kind = disks[p]["update"].kind
  BY InterruptBase, TypeParts, FactoryAssumption DEF Crash
<1>2. /\ vm'.product = vm.product /\ vm'.slot = vm.slot /\ vm.product \in Product
      /\ vm'.state # "none" => vm.state # "none"
  BY TypeParts DEF Crash, Vms, VmOn, On
<1> QED BY <1>1, <1>2 DEF BaseInv, VmOK, PlaceOK

LEMMA InitIInv ==
  ASSUME Init
  PROVE  IInv
<1>1. TypeOK  BY InitTyped
<1>2. \A p \in Product : ProductOK(p)  BY DEF Init, ProductOK, Plain, NoDisk, Slot
<1>3. VmOK /\ PlaceOK  BY DEF Init, VmOK, PlaceOK, NoVm
<1> QED BY <1>1, <1>2, <1>3 DEF IInv, BaseInv

LEMMA StepBase ==
  ASSUME IInv, [Next]_vars
  PROVE  IInv' /\ \A p \in Product : Grows(p)
<1>1. TypeOK /\ BaseInv /\ TypeOK'  BY StepTyped DEF IInv
<1>2. BaseStep /\ VmOK' /\ PlaceOK'
  BY <1>1, ConvertBase, DiffBase, MergeBase, DiscardBase, MountBase, PutBase,
     OtherBase, PassBase, CrashBase DEF Next, Script
<1>3. \A p \in Product : ProductOK(p)' => Plain(disks'[p]["base"])
  BY DEF ProductOK
<1> QED BY <1>1, <1>2, <1>3 DEF BaseStep, IInv, BaseInv, Advances, Grows, Plain

\* Over any number of runs, kills and rounds of updates, the base of a product,
\* once whole, stays whole, is never sealed, and never loses an update, but for
\* a merge that is cut off, which may leave it torn.
THEOREM BaseGrows == Spec => BaseOnlyGrows
<1>1. Init => IInv  BY InitIInv
<1>2. IInv /\ [Next]_vars => IInv'  BY StepBase
<1>3. IInv /\ [Next]_vars => [\A p \in Product : Grows(p)]_vars  BY StepBase
<1> QED BY <1>1, <1>2, <1>3, PTL DEF Spec, BaseOnlyGrows

--------------------------------------------------------------------------
\* What the factory keeps, as ImageStore has it.

\* A sysprep disk has all the updates of its base, also one that an earlier run
\* has left: a merge in the meantime makes it useless.  A base that is made in
\* place has none.
Child(p) ==
  /\ disks[p]["base"].kind = "absent" => disks[p]["sysprep"].kind = "absent"
  /\ disks[p]["sysprep"].kind = "whole" =>
       disks[p]["sysprep"].level >= disks[p]["base"].level
ChildPlaces ==
  /\ vm.slot \in Stage
  /\ vm.state # "none" /\ vm.slot = "base" =>
       disks[vm.product]["sysprep"].kind = "absent"
  /\ pc = "bitsBase" \/ (pc = "runVm" /\ stage = "base") =>
       The("sysprep").kind = "absent"
ChildInv == (\A p \in Product : Child(p)) /\ ChildPlaces

StoreStep ==
  /\ \A p \in Product : Child(p)'
  /\ Store!Next \/ UNCHANGED Store!storeVars

Alike(d, e) == e.kind = d.kind /\ e.level = d.level

\* What may become of a sysprep disk while its base stays what it is.
Follows(p) ==
  \/ disks'[p]["sysprep"].kind = "absent"
  \/ /\ disks'[p]["sysprep"].kind = disks[p]["sysprep"].kind
     /\ disks'[p]["sysprep"].level >= disks[p]["sysprep"].level
  \/ Alike(disks[p]["base"], disks'[p]["sysprep"])

LEMMA ContentTyped ==
  ASSUME TypeOK
  PROVE  \A p \in Product : \A f \in Slot :
           [kind |-> disks[p][f].kind, level |-> disks[p][f].level] \in Store!Content
<1>1. \A p \in Product : \A f \in Slot : disks[p][f] \in Disk
      BY TypeParts DEF Disks
<1> QED BY <1>1 DEF Disk, Store!Content

LEMMA LevelTypedNext ==
  ASSUME TypeOK'
  PROVE  \A p \in Product : \A f \in Slot :
           disks'[p][f] \in Disk /\ disks'[p][f].level \in Nat
<1>1. \A p \in Product : \A f \in Slot : disks'[p][f] \in Disk
      BY TypePartsNext DEF Disks
<1>2. 0..MaxLevel \subseteq Nat  BY FactoryAssumption
<1> QED BY <1>1, <1>2 DEF Disk

LEMMA StoreStays ==
  ASSUME TypeOK, TypeOK', ChildInv,
         \A p \in Product : /\ Alike(disks[p]["base"], disks'[p]["base"])
                            /\ Alike(disks[p]["final"], disks'[p]["final"])
                            /\ Follows(p)
  PROVE  StoreStep
<1>1. UNCHANGED Store!storeVars  BY DEF Store!storeVars, Content, Alike
<1>2. ASSUME NEW p \in Product  PROVE Child(p)'
      <2>1. /\ disks[p]["base"].level \in Nat /\ disks[p]["sysprep"].level \in Nat
            /\ disks'[p]["sysprep"].level \in Nat
            BY LevelTyped, LevelTypedNext DEF Slot
      <2>2. /\ disks'[p]["base"].kind = disks[p]["base"].kind
            /\ disks'[p]["base"].level = disks[p]["base"].level
            BY DEF Alike
      <2>3. Child(p) /\ Follows(p)  BY DEF ChildInv
      <2> QED BY <2>1, <2>2, <2>3 DEF Child, Alike, Follows
<1> QED BY <1>1, <1>2 DEF StoreStep

\* The base of one product is made or updated.
LEMMA StoreBase ==
  ASSUME TypeOK, TypeOK', NEW p \in Product, Advances(p),
         \A q \in Product \ {p} : Alike(disks[q]["base"], disks'[q]["base"]),
         \A q \in Product : Alike(disks[q]["final"], disks'[q]["final"])
  PROVE  Store!Next
<1> DEFINE c == [kind |-> disks'[p]["base"].kind, level |-> disks'[p]["base"].level]
<1>1. c \in Store!Content
      BY ContentTyped, TypePartsNext DEF Disks, Slot, Disk, Store!Content
<1>2. Content("base")' = [Content("base") EXCEPT ![p] = c]
      BY DEF Content, Alike
<1>3. UNCHANGED Content("final")  BY DEF Content, Alike
<1>4. /\ Content("base")[p].kind = disks[p]["base"].kind
      /\ Content("base")[p].level = disks[p]["base"].level
      BY DEF Content
<1>5. /\ c.kind = disks'[p]["base"].kind /\ c.level = disks'[p]["base"].level
      OBVIOUS
<1> HIDE DEF c
<1>6. CASE disks[p]["base"].kind = "absent"
      BY <1>1, <1>2, <1>3, <1>4, <1>6 DEF Store!Next, Store!Make
<1>7. CASE disks[p]["base"].kind # "absent"
      BY <1>1, <1>2, <1>3, <1>4, <1>5, <1>7 DEF Advances, Store!Next, Store!Update
<1> QED BY <1>6, <1>7

\* The image of one product is replaced.
LEMMA StoreImage ==
  ASSUME TypeOK, TypeOK', NEW p \in Product,
         \A q \in Product \ {p} : Alike(disks[q]["final"], disks'[q]["final"]),
         \A q \in Product : Alike(disks[q]["base"], disks'[q]["base"]),
         disks'[p]["final"].kind = "whole" =>
           /\ disks[p]["base"].kind # "absent"
           /\ disks'[p]["final"].level >= disks[p]["base"].level
  PROVE  Store!Next
<1> DEFINE c == [kind |-> disks'[p]["final"].kind, level |-> disks'[p]["final"].level]
<1>1. c \in Store!Content
      BY ContentTyped, TypePartsNext DEF Disks, Slot, Disk, Store!Content
<1>2. Content("final")' = [Content("final") EXCEPT ![p] = c]
      BY DEF Content, Alike
<1>3. UNCHANGED Content("base")  BY DEF Content, Alike
<1>4. /\ Content("base")[p].kind = disks[p]["base"].kind
      /\ Content("base")[p].level = disks[p]["base"].level
      BY DEF Content
<1>5. /\ c.kind = disks'[p]["final"].kind /\ c.level = disks'[p]["final"].level
      OBVIOUS
<1> HIDE DEF c
<1>6. CASE disks'[p]["final"].kind # "whole"
      BY <1>1, <1>2, <1>3, <1>5, <1>6 DEF Store!Next, Store!Withdraw
<1>7. CASE disks'[p]["final"].kind = "whole"
      BY <1>1, <1>2, <1>3, <1>4, <1>5, <1>7 DEF Store!Next, Store!Publish
<1> QED BY <1>6, <1>7

\* Steps beside those that make, merge, update or publish.
LEMMA EditAlike ==
  ASSUME NEW d \in Disk
  PROVE  /\ \A b \in BOOLEAN : /\ Alike(d, WithUpdateScript(d, b))
                /\ Alike(d, [WithUpdateScript(d, b) EXCEPT !.changesMade = FALSE])
         /\ Alike(d, [d EXCEPT !.changesMade = FALSE])
         /\ \A l : /\ Alike(d, [d EXCEPT !.logon = l])
                   /\ Alike(d, [d EXCEPT !.logon = l, !.changesMade = FALSE])
  BY DEF Alike, WithUpdateScript, Disk

LEMMA PutStays ==
  ASSUME TypeOK, TypeOK', ChildInv, NEW slot \in Slot, NEW d, Put(slot, d),
         \/ Alike(The(slot), d)
         \/ slot = "update"
         \/ slot = "sysprep" /\ d \in {NoDisk, The("base")}
  PROVE  /\ StoreStep
         /\ slot # "sysprep" => \A p \in Product :
              disks'[p]["sysprep"].kind = disks[p]["sysprep"].kind
<1>1. turn \in Product  BY TypeParts
<1>2. \A p \in Product : \A f \in Slot :
        disks'[p][f] = IF p = turn /\ f = slot THEN d ELSE disks[p][f]
      BY PutOne
<1>3. ASSUME NEW p \in Product
      PROVE  /\ Alike(disks[p]["base"], disks'[p]["base"])
             /\ Alike(disks[p]["final"], disks'[p]["final"])
             /\ Follows(p)
             /\ slot # "sysprep" =>
                  disks'[p]["sysprep"].kind = disks[p]["sysprep"].kind
      <2>1. /\ disks[p]["base"].level \in Nat /\ disks[p]["sysprep"].level \in Nat
            BY LevelTyped DEF Slot
      <2>2. NoDisk.kind = "absent"  BY DEF NoDisk
      <2>3. CASE p # turn
            BY <1>2, <2>1, <2>3 DEF Alike, Follows, Slot
      <2>4. CASE p = turn
            BY <1>2, <2>1, <2>2, <2>4 DEF Alike, Follows, The, Slot
      <2> QED BY <2>3, <2>4
<1> QED BY <1>3, StoreStays

LEMMA MountStays ==
  ASSUME TypeOK, TypeOK', ChildInv, NEW slot \in Slot, NEW block,
         MountAndRun(slot, block), Alike(The(slot), block)
  PROVE  /\ StoreStep
         /\ slot # "sysprep" => \A p \in Product :
              disks'[p]["sysprep"].kind = disks[p]["sysprep"].kind
  BY PutStays DEF MountAndRun, Alike

LEMMA PlacesStay ==
  ASSUME BaseInv, ChildInv, vm' = vm, pc \notin {"idle", "start", "next", "waitOff"},
         pc' = "bitsBase" \/ (pc' = "runVm" /\ stage' = "base") =>
           disks'[turn']["sysprep"].kind = "absent"
  PROVE  ChildPlaces'
  BY DEF BaseInv, VmOK, ChildInv, ChildPlaces, The

LEMMA MountStore ==
  ASSUME TypeOK, TypeOK', BaseInv, ChildInv,
         \/ BitsBase \/ Compact \/ BitsUpdate \/ Inspect \/ SealScript \/ Unscript
  PROVE  StoreStep /\ ChildPlaces'
<1> USE DEF At
<1>1. /\ turn \in Product /\ {"base", "update", "sysprep"} \subseteq Slot
      /\ The("base") \in Disk /\ The("update") \in Disk /\ The("sysprep") \in Disk
      BY LevelTyped, TypeParts DEF Slot, The
<1>2. CASE BitsBase
      <2>1. /\ StoreStep
            /\ disks'[turn]["sysprep"].kind = disks[turn]["sysprep"].kind
            BY <1>1, <1>2, EditAlike, MountStays DEF BitsBase
      <2>2. disks[turn]["sysprep"].kind = "absent"
            BY <1>2 DEF BitsBase, ChildInv, ChildPlaces, The
      <2> QED BY <1>2, <2>1, <2>2, PlacesStay DEF BitsBase
<1>3. CASE Compact
      <2>1. StoreStep  BY <1>1, <1>3, MountStays DEF Compact, Alike
      <2> QED BY <1>3, <2>1, PlacesStay DEF Compact
<1>4. CASE BitsUpdate
      <2>1. StoreStep  BY <1>1, <1>4, EditAlike, MountStays DEF BitsUpdate
      <2> QED BY <1>4, <2>1, PlacesStay DEF BitsUpdate
<1>5. CASE Inspect
      <2>1. StoreStep  BY <1>1, <1>5, EditAlike, MountStays DEF Inspect
      <2> QED BY <1>5, <2>1, PlacesStay DEF Inspect
<1>6. CASE SealScript
      <2>1. StoreStep  BY <1>1, <1>6, EditAlike, MountStays DEF SealScript
      <2> QED BY <1>6, <2>1, PlacesStay DEF SealScript
<1>7. CASE Unscript
      <2>1. StoreStep  BY <1>1, <1>7, EditAlike, MountStays DEF Unscript
      <2> QED BY <1>7, <2>1, PlacesStay DEF Unscript
<1> QED BY <1>2, <1>3, <1>4, <1>5, <1>6, <1>7

LEMMA PutStore ==
  ASSUME TypeOK, TypeOK', BaseInv, ChildInv,
         Diff \/ Discard \/ DiffSysprep \/ Optimize
  PROVE  StoreStep /\ ChildPlaces'
<1> USE DEF At
<1>1. {"update", "sysprep"} \subseteq Slot  BY DEF Slot
<1>2. CASE Diff
      <2>1. StoreStep  BY <1>1, <1>2, PutStays DEF Diff
      <2> QED BY <1>2, <2>1, PlacesStay DEF Diff
<1>3. CASE Discard
      <2>1. StoreStep  BY <1>1, <1>3, PutStays DEF Discard
      <2> QED BY <1>3, <2>1, PlacesStay DEF Discard
<1>4. CASE DiffSysprep
      <2>1. NewChild("sysprep") \in {NoDisk, The("base"), The("sysprep")}
            BY DEF NewChild
      <2>2. StoreStep  BY <1>1, <1>4, <2>1, PutStays DEF DiffSysprep, Alike
      <2> QED BY <1>4, <2>2, PlacesStay DEF DiffSysprep
<1>5. CASE Optimize
      <2>1. Cleaned("sysprep") \in {NoDisk, The("sysprep")}  BY DEF Cleaned
      <2>2. StoreStep  BY <1>1, <1>5, <2>1, PutStays DEF Optimize, Alike
      <2> QED BY <1>5, <2>2, PlacesStay DEF Optimize
<1> QED BY <1>2, <1>3, <1>4, <1>5

\* Making the base, merging into it, and publishing.
LEMMA ConvertStore ==
  ASSUME TypeOK, TypeOK', BaseInv, ChildInv, Convert
  PROVE  StoreStep /\ ChildPlaces'
<1> USE DEF At, Convert
<1>1. /\ turn \in Product /\ disks[turn]["base"].kind = "absent"
      /\ disks[turn]["sysprep"].kind = "absent"
      BY TypeParts DEF BaseInv, PlaceOK, The, ChildInv, Child
<1>2. PICK d : Put("base", d)  OBVIOUS
<1>3. \A p \in Product : \A f \in Slot :
        disks'[p][f] = IF p = turn /\ f = "base" THEN d ELSE disks[p][f]
      BY <1>2, PutOne DEF Slot
<1>4. Advances(turn)  BY <1>1 DEF Advances
<1>5. /\ \A q \in Product \ {turn} : Alike(disks[q]["base"], disks'[q]["base"])
      /\ \A q \in Product : Alike(disks[q]["final"], disks'[q]["final"])
      /\ \A q \in Product : disks'[q]["sysprep"] = disks[q]["sysprep"]
      BY <1>3 DEF Alike, Slot
<1>6. Store!Next  BY <1>1, <1>4, <1>5, StoreBase
<1>7. ASSUME NEW p \in Product  PROVE Child(p)'
      BY <1>1, <1>5 DEF ChildInv, Child, Alike
<1>8. ChildPlaces'  BY <1>1, <1>5, PlacesStay DEF envVars
<1> QED BY <1>6, <1>7, <1>8 DEF StoreStep

LEMMA MergeStore ==
  ASSUME TypeOK, TypeOK', BaseInv, ChildInv, Merge
  PROVE  StoreStep /\ ChildPlaces'
<1> USE DEF At, Merge
<1>1. turn \in Product  BY TypeParts
<1>2. ChildPlaces'  BY PlacesStay DEF envVars
<1>3. CASE UNCHANGED disks
      <2>1. ASSUME NEW p \in Product  PROVE Follows(p)
            BY <1>3, LevelTyped DEF Follows, Slot
      <2> QED BY <1>2, <1>3, <2>1, StoreStays DEF Alike
<1>4. CASE ~UNCHANGED disks
      <2>1. \A p \in Product : \A f \in {"base", "final"} :
              disks'[p][f] = IF p = turn /\ f = "base" THEN disks[p]["update"]
                             ELSE disks[p][f]
            BY <1>4, TypeParts DEF Disks, Slot, The
      <2>2. /\ \A p \in Product \ {turn} : disks'[p]["sysprep"] = disks[p]["sysprep"]
            /\ disks'[turn]["sysprep"].kind # "whole"
            /\ disks'[turn]["base"].kind # "absent"
            <3>1. disks'[turn]["sysprep"] =
                    IF disks[turn]["sysprep"].kind = "absent" THEN disks[turn]["sysprep"]
                    ELSE Torn(disks[turn]["sysprep"])
                  BY <1>1, <1>4, TypeParts DEF Disks, Slot
            <3>2. Torn(disks[turn]["sysprep"]).kind = "torn"
                  BY <1>1, LevelTyped DEF Torn, Disk, Slot
            <3>3. disks'[turn]["base"].kind = "whole"
                  BY <1>1, <2>1 DEF BaseInv, PlaceOK, The
            <3>4. \A p \in Product \ {turn} : disks'[p] = disks[p]
                  BY <1>4, TypeParts DEF Disks
            <3> QED BY <3>1, <3>2, <3>3, <3>4
      <2>3. Advances(turn)  BY <1>1, MergeBase DEF BaseStep
      <2>4. Store!Next  BY <1>1, <2>1, <2>3, StoreBase DEF Alike
      <2>5. ASSUME NEW p \in Product  PROVE Child(p)'
            BY <2>1, <2>2 DEF ChildInv, Child
      <2> QED BY <1>2, <2>4, <2>5 DEF StoreStep
<1> QED BY <1>3, <1>4

\* An image that is left where it is, or made of a whole sysprep disk.
LEMMA PublishStore ==
  ASSUME TypeOK, TypeOK', BaseInv, ChildInv, Publish
  PROVE  StoreStep /\ ChildPlaces'
<1> USE DEF At, Publish
<1>1. turn \in Product  BY TypeParts
<1>2. PICK d : /\ Put("final", d)
               /\ d.kind = "whole" => d = The("final") \/ d = The("sysprep")
      BY DEF NoDisk
<1>3. \A p \in Product : \A f \in Slot :
        disks'[p][f] = IF p = turn /\ f = "final" THEN d ELSE disks[p][f]
      BY <1>2, PutOne DEF Slot
<1>4. /\ \A q \in Product \ {turn} : disks'[q]["final"] = disks[q]["final"]
      /\ disks'[turn]["final"] = d
      /\ \A q \in Product : /\ disks'[q]["base"] = disks[q]["base"]
                            /\ disks'[q]["sysprep"] = disks[q]["sysprep"]
      BY <1>1, <1>3 DEF Slot
<1>5. ChildPlaces'  BY PlacesStay DEF envVars
<1>6. ASSUME NEW p \in Product  PROVE Child(p)' /\ Follows(p)
      BY <1>4, LevelTyped DEF ChildInv, Child, Follows, Slot
<1>7. CASE d = The("final")
      BY <1>4, <1>5, <1>6, <1>7, StoreStays DEF Alike, The
<1>8. CASE d # The("final")
      <2>1. d.kind = "whole" => /\ disks[turn]["base"].kind # "absent"
                                /\ d.level >= disks[turn]["base"].level
            BY <1>1, <1>2, <1>8 DEF ChildInv, Child, The
      <2>2. Store!Next  BY <1>1, <1>4, <2>1, StoreImage DEF Alike
      <2> QED BY <1>5, <1>6, <2>2 DEF StoreStep
<1> QED BY <1>7, <1>8

\* The steps that touch no disk.
LEMMA OtherStore ==
  ASSUME TypeOK, TypeOK', BaseInv, ChildInv,
         Begin \/ Start \/ RunVm \/ WaitOff \/ FinalCheck \/ Finish \/ NextProduct
         \/ UpdatesComeOut \/ UNCHANGED vars
  PROVE  StoreStep /\ ChildPlaces'
<1> USE DEF At, envVars
<1>1. disks' = disks
      BY DEF Begin, Start, RunVm, WaitOff, FinalCheck, Finish, NextProduct,
             UpdatesComeOut, vars
<1>2. StoreStep
      <2>1. ASSUME NEW p \in Product  PROVE Follows(p)
            BY <1>1, LevelTyped DEF Follows, Slot
      <2> QED BY <1>1, <2>1, StoreStays DEF Alike
<1> USE <1>1 DEF BaseInv, VmOK, ChildInv, ChildPlaces, The
<1>3. CASE Begin  BY <1>2, <1>3 DEF Begin
<1>4. CASE Start  BY <1>2, <1>4 DEF Start, NoVm, Stage
<1>5. CASE RunVm  BY <1>2, <1>5, TypeParts DEF RunVm
<1>6. CASE WaitOff
      <2>1. pc' \in {"compact", "inspect", "unscript"}
            BY <1>6, TypeParts DEF WaitOff, Stage
      <2> QED BY <1>2, <1>6, <2>1 DEF WaitOff, NoVm, Stage
<1>7. CASE FinalCheck
      <2>1. pc' \in {"diffSysprep", "finish"}  BY <1>7 DEF FinalCheck
      <2> QED BY <1>2, <1>7, <2>1 DEF FinalCheck
<1>8. CASE Finish  BY <1>2, <1>8 DEF Finish
<1>9. CASE NextProduct
      <2>1. pc' \in {"idle", "start"}  BY <1>9 DEF NextProduct
      <2> QED BY <1>2, <1>9, <2>1 DEF NextProduct
<1>10. CASE UpdatesComeOut  BY <1>2, <1>10 DEF UpdatesComeOut
<1>11. CASE UNCHANGED vars  BY <1>2, <1>11 DEF vars
<1> QED BY <1>3, <1>4, <1>5, <1>6, <1>7, <1>8, <1>9, <1>10, <1>11

LEMMA GuestStore ==
  ASSUME TypeOK, TypeOK', BaseInv, ChildInv, NEW d, NEW state,
         GuestLeaves(d, state), vm.state # "none", d.kind = VmDisk.kind,
         d.level \in Nat, d.level >= VmDisk.level
  PROVE  StoreStep /\ ChildPlaces'
<1> USE DEF GuestLeaves
<1>1. vm.product \in Product /\ vm.slot \in Stage /\ Stage \subseteq Slot \ {"final"}
      BY TypeParts DEF Vms, ChildInv, ChildPlaces, Stage, Slot
<1>2. \A p \in Product : \A f \in Slot :
        disks'[p][f] = IF p = vm.product /\ f = vm.slot THEN d ELSE disks[p][f]
      BY <1>1, TypeParts DEF Disks
<1>3. \A p \in Product : \A f \in Slot :
        /\ disks'[p][f].kind = disks[p][f].kind
        /\ disks'[p][f].level >= disks[p][f].level
      BY <1>1, <1>2, LevelTyped DEF VmDisk
<1>4. \A p \in Product : Alike(disks[p]["final"], disks'[p]["final"])
      BY <1>1, <1>2 DEF Alike, Slot
<1>5. ChildPlaces'
      <2>1. /\ vm'.product = vm.product /\ vm'.slot = vm.slot
            /\ pc' = pc /\ pc \in {"idle", "start", "next", "waitOff"}
            BY TypeParts DEF Vms, BaseInv, VmOK
      <2> QED BY <1>1, <1>3, <2>1 DEF ChildInv, ChildPlaces, Slot
<1>6. CASE vm.slot = "base"
      <2>1. disks[vm.product]["sysprep"].kind = "absent"
            BY <1>6 DEF ChildInv, ChildPlaces
      <2>2. \A p \in Product : disks'[p]["sysprep"] = disks[p]["sysprep"]
            BY <1>2, <1>6 DEF Slot
      <2>3. \A q \in Product \ {vm.product} : disks'[q]["base"] = disks[q]["base"]
            BY <1>2 DEF Slot
      <2>4. Advances(vm.product)  BY <1>1, <1>3 DEF Advances, Slot
      <2>5. Store!Next  BY <1>1, <1>4, <2>3, <2>4, StoreBase DEF Alike
      <2>6. ASSUME NEW p \in Product  PROVE Child(p)'
            BY <2>1, <2>2, <2>3 DEF ChildInv, Child
      <2> QED BY <1>5, <2>5, <2>6 DEF StoreStep
<1>7. CASE vm.slot # "base"
      <2>1. \A p \in Product : Alike(disks[p]["base"], disks'[p]["base"])
            BY <1>2, <1>7 DEF Alike, Slot
      <2>2. \A p \in Product : Follows(p)
            BY <1>3 DEF Follows, Slot
      <2> QED BY <1>4, <1>5, <2>1, <2>2, StoreStays
<1> QED BY <1>6, <1>7

LEMMA PassStore ==
  ASSUME TypeOK, TypeOK', BaseInv, ChildInv, UpdatePass \/ SysprepPass
  PROVE  StoreStep /\ ChildPlaces'
<1>1. VmDisk \in Disk /\ VmDisk.level \in Nat
      BY LevelTyped, TypeParts DEF VmDisk, Vms
<1>2. CASE UpdatePass
      <2>1. PICK d, state : GuestLeaves(d, state) /\ PassDisk(d)
            BY <1>2, PassLeaves
      <2>2. vm.state # "none"  BY <1>2, PassLeaves
      <2> QED BY <2>1, <2>2, GuestStore DEF PassDisk
<1>3. CASE SysprepPass
      <2>1. vm.state = "running"  BY <1>3 DEF SysprepPass
      <2>2. PICK d, state : /\ GuestLeaves(d, state)
                            /\ d.kind = VmDisk.kind /\ d.level = VmDisk.level
            BY <1>1, <1>3 DEF SysprepPass, Disk
      <2> QED BY <1>1, <2>1, <2>2, GuestStore
<1> QED BY <1>2, <1>3

\* A kill tears a base that is merged into, or an image that is published.
LEMMA InterruptStore ==
  ASSUME TypeOK, TypeOK', BaseInv, ChildInv, Interrupt, crashes' > crashes
  PROVE  /\ StoreStep
         /\ \A p \in Product : disks'[p]["sysprep"].kind = disks[p]["sysprep"].kind
<1>1. turn \in Product  BY TypeParts
<1>2. CASE UNCHANGED disks
      <2>1. \A p \in Product : Follows(p)
            BY <1>2, LevelTyped DEF Follows, Slot
      <2> QED BY <1>2, <2>1, StoreStays DEF Alike
<1>3. CASE pc = "merge" /\ Put("base", Torn(The("base")))
      <2>1. \A p \in Product : \A f \in Slot :
              disks'[p][f] = IF p = turn /\ f = "base" THEN Torn(disks[p]["base"])
                             ELSE disks[p][f]
            BY <1>1, <1>3, PutOne DEF Slot, The
      <2>2. /\ disks'[turn]["base"].kind = "torn"
            /\ disks'[turn]["base"].level = disks[turn]["base"].level
            BY <1>1, <2>1, LevelTyped DEF Torn, Disk, Slot
      <2>3. /\ \A p \in Product \ {turn} : disks'[p]["base"] = disks[p]["base"]
            /\ \A p \in Product : /\ disks'[p]["final"] = disks[p]["final"]
                                  /\ disks'[p]["sysprep"] = disks[p]["sysprep"]
            BY <2>1 DEF Slot
      <2>4. Advances(turn)  BY <1>1, <1>3, <2>2, LevelTyped DEF Advances, Slot
      <2>5. Store!Next  BY <1>1, <2>3, <2>4, StoreBase DEF Alike
      <2>6. ASSUME NEW p \in Product  PROVE Child(p)'
            BY <2>2, <2>3 DEF ChildInv, Child
      <2> QED BY <2>3, <2>5, <2>6 DEF StoreStep
<1>4. ASSUME NEW f \in MountedBy(pc) \ {"final"},
             \/ Put(f, [The(f) EXCEPT !.changesMade = FALSE])
             \/ Put(f, [The(f) EXCEPT !.logon = "none", !.changesMade = FALSE])
      PROVE  /\ StoreStep
             /\ \A p \in Product : disks'[p]["sysprep"].kind = disks[p]["sysprep"].kind
      <2>1. f \in Slot /\ The(f) \in Disk
            BY TypeParts, DiskTyped DEF MountedBy, Slot, Steps
      <2>2. PICK d : Put(f, d) /\ Alike(The(f), d)
            BY <1>4, <2>1, EditAlike
      <2>3. StoreStep  BY <2>1, <2>2, PutStays
      <2>4. \A p \in Product : disks'[p]["sysprep"].kind = disks[p]["sysprep"].kind
            BY <2>1, <2>2, PutOne DEF Alike, The, Slot
      <2> QED BY <2>3, <2>4
<1>5. ASSUME NEW d \in {NoDisk, Torn(NoDisk)}, Put("final", d)
      PROVE  /\ StoreStep
             /\ \A p \in Product : disks'[p]["sysprep"].kind = disks[p]["sysprep"].kind
      <2>1. d.kind # "whole"  BY DEF NoDisk, Torn
      <2>2. \A p \in Product : \A f \in Slot :
              disks'[p][f] = IF p = turn /\ f = "final" THEN d ELSE disks[p][f]
            BY <1>5, PutOne DEF Slot
      <2>3. /\ disks'[turn]["final"] = d
            /\ \A p \in Product \ {turn} : disks'[p]["final"] = disks[p]["final"]
            /\ \A p \in Product : /\ disks'[p]["base"] = disks[p]["base"]
                                  /\ disks'[p]["sysprep"] = disks[p]["sysprep"]
            BY <1>1, <2>2 DEF Slot
      <2>4. Store!Next  BY <1>1, <2>1, <2>3, StoreImage DEF Alike
      <2>5. ASSUME NEW p \in Product  PROVE Child(p)'
            BY <2>3 DEF ChildInv, Child
      <2> QED BY <2>3, <2>4, <2>5 DEF StoreStep
<1> QED BY <1>2, <1>3, <1>4, <1>5 DEF Interrupt

LEMMA CrashStore ==
  ASSUME TypeOK, TypeOK', BaseInv, ChildInv, Crash
  PROVE  StoreStep /\ ChildPlaces'
<1>1. /\ StoreStep /\ pc' = "idle"
      /\ \A p \in Product : disks'[p]["sysprep"].kind = disks[p]["sysprep"].kind
      BY InterruptStore, TypeParts, FactoryAssumption DEF Crash
<1>2. /\ vm'.product = vm.product /\ vm'.slot = vm.slot /\ vm.product \in Product
      /\ vm'.state # "none" => vm.state # "none"
      BY TypeParts DEF Crash, Vms, VmOn, On
<1> QED BY <1>1, <1>2 DEF ChildInv, ChildPlaces

LEMMA StepStore ==
  ASSUME IInv, ChildInv, [Next]_vars
  PROVE  ChildInv' /\ (Store!Next \/ UNCHANGED Store!storeVars)
<1>1. TypeOK /\ BaseInv /\ TypeOK'  BY StepTyped DEF IInv
<1>2. StoreStep /\ ChildPlaces'
      BY <1>1, MountStore, PutStore, ConvertStore, MergeStore, PublishStore,
         OtherStore, PassStore, CrashStore DEF Next, Script
<1> QED BY <1>2 DEF StoreStep, ChildInv

\* The factory implements ImageStore, for any products, levels and bounds, also
\* when it is killed in the middle of a step and what is mounted stays mounted.
THEOREM StoreCorrect == Spec => ImplementsStore
<1>1. Init => Store!Init
      <2> SUFFICES ASSUME Init  PROVE Store!Init  OBVIOUS
      <2>1. \A p \in Product : \A f \in Slot : disks[p][f] = NoDisk  BY DEF Init
      <2>2. [kind |-> "absent", level |-> 0] \in Store!Content
            BY FactoryAssumption DEF Store!Content
      <2> QED BY <2>1, <2>2 DEF Store!Init, Store!Nowhere, Content, NoDisk, Slot
<1>2. Init => IInv /\ ChildInv
      BY InitIInv DEF Init, ChildInv, Child, ChildPlaces, NoDisk, NoVm, Slot, Stage
<1>3. IInv /\ ChildInv /\ [Next]_vars =>
        IInv' /\ ChildInv' /\ [Store!Next]_(Store!storeVars)
      BY StepBase, StepStore
<1> QED BY <1>1, <1>2, <1>3, PTL DEF Spec, ImplementsStore, Store!Spec

=============================================================================
