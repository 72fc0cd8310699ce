---------------------------- MODULE ImageFactory ----------------------------
(***************************************************************************)
(* Factory.ps1: Start-ImageFactory, called for one product after another,  *)
(* keeps an updated base VHD per product and publishes a sysprepped copy   *)
(* of it.  Windows is installed, updated and sealed by booting the factory *)
(* VM on a disk with a Logon.ps1 and waiting for the VM to be off.         *)
(*                                                                         *)
(* One action is one statement group of the script.  A crash may also tear *)
(* the step it falls into: a VHD is left attached to the host or half      *)
(* written.  Errors of cmdlets are not fatal, except where the script says *)
(* -ErrorAction Stop.                                                      *)
(***************************************************************************)
EXTENDS Naturals

CONSTANTS
  Products,          \* number of Start-ImageFactory calls in the script
  GenericSysprep,    \* is the switch of that name given?
  MaxLevel,          \* bound: rounds of Windows updates that come out
  MaxCycles,         \* bound: times the script is started
  MaxCrashes,        \* bound: times the script or the host dies: a kill,
                     \* or New-VM's error on a disk that is there
  MaxStartFailures,  \* bound: times Start-VM reports an error
  MaxUnlisted        \* bound: installations of what the list before did not show

ASSUME FactoryAssumption ==
  /\ {Products, MaxLevel, MaxCycles, MaxCrashes, MaxStartFailures, MaxUnlisted}
       \subseteq Nat
  /\ Products > 0 /\ GenericSysprep \in BOOLEAN

Product == 1..Products
Slot == {"base", "update", "sysprep", "final"}
Stage == {"base", "update", "sysprep"}

\* A disk: how much of the file is there, the updates it has, its Logon.ps1
\* (whose Bits may still be blocked), changesMade.txt, and sysprep.
Disk ==
  [kind: {"absent", "torn", "whole"}, level: 0..MaxLevel,
   logon: {"none", "update", "sysprep", "post"}, blocked: BOOLEAN,
   changesMade: BOOLEAN, sealed: BOOLEAN]
NoDisk ==
  [kind |-> "absent", level |-> 0, logon |-> "none", blocked |-> FALSE,
   changesMade |-> FALSE, sealed |-> FALSE]
Torn(d) == [d EXCEPT !.kind = "torn"]

VARIABLES
  pc,          \* next step of the script, "idle" when it does not run
  turn,        \* the product it is at
  stage,       \* which disk the VM is run for
  needed,      \* $sysprepNeeded
  disks,       \* Product -> Slot -> Disk
  attached,    \* <<product, slot>> pairs mounted on the host
  vm,          \* the factory VM and its disk
  available,   \* updates that are out
  cycles, crashes, startFailures, unlisted

envVars == <<available, cycles, crashes, startFailures, unlisted>>
vars == <<pc, turn, stage, needed, disks, attached, vm, envVars>>

Steps ==
  {"idle", "start", "convert", "bitsBase", "runVm", "waitOff", "compact",
   "diff", "bitsUpdate", "inspect", "merge", "discard", "finalCheck",
   "diffSysprep", "sealScript", "unscript", "publish", "optimize", "finish",
   "next"}

\* A VM that runs has searched for updates, and has found some or taken itself
\* for up to date, or has not got there yet.  It is stuck when it runs but no
\* script in it will ever turn it off.
On == {"running", "found", "clean", "stuck"}

TypeOK ==
  /\ pc \in Steps
  /\ turn \in Product
  /\ stage \in Stage
  /\ needed \in BOOLEAN
  /\ disks \in [Product -> [Slot -> Disk]]
  /\ attached \in SUBSET (Product \X Slot)
  /\ vm \in [state: {"none", "off"} \cup On, product: Product, slot: Slot]
  /\ available \in 0..MaxLevel
  /\ cycles \in 0..MaxCycles
  /\ crashes \in 0..MaxCrashes
  /\ startFailures \in 0..MaxStartFailures
  /\ unlisted \in 0..MaxUnlisted

NoVm == [state |-> "none", product |-> 1, slot |-> "base"]

Init ==
  /\ pc = "idle" /\ turn = 1 /\ stage = "base" /\ needed = TRUE
  /\ disks = [p \in Product |-> [f \in Slot |-> NoDisk]]
  /\ attached = {}
  /\ vm = NoVm
  /\ available = 0
  /\ cycles = 0 /\ crashes = 0 /\ startFailures = 0 /\ unlisted = 0

-----------------------------------------------------------------------------
(* Helpers *)

At(step, next) == pc = step /\ pc' = next
The(slot) == disks[turn][slot]
Attached(slot) == <<turn, slot>> \in attached
Put(slot, d) == disks' = [disks EXCEPT ![turn][slot] = d]
Detach(slot) == attached' = attached \ {<<turn, slot>>}

VmOn == vm.state \in On

\* cleanupFile: Remove-Item cannot delete a file that is in use.
InUse(slot) == Attached(slot) \/ (VmOn /\ vm.product = turn /\ vm.slot = slot)
Cleaned(slot) == IF InUse(slot) THEN The(slot) ELSE NoDisk

\* MountVHDandRunBlock: a mount that fails only reports an error; the block
\* then finds no drive, and the dismount at the end detaches what was left
\* attached by an earlier run.
MountAndRun(slot, block) ==
  /\ Put(slot, IF The(slot).kind = "whole" /\ ~InUse(slot) THEN block ELSE The(slot))
  /\ Detach(slot)

\* cleanupFile, then New-VHD -ParentPath: the child holds what the base
\* holds, if the base can be opened and nothing is in the way.
NewChild(slot) ==
  IF Cleaned(slot).kind # "absent" THEN The(slot)
  ELSE IF The("base").kind = "absent" \/ Attached("base") THEN NoDisk
  ELSE The("base")

-----------------------------------------------------------------------------
(* Start-ImageFactory *)

Begin ==
  /\ At("idle", "start") /\ cycles < MaxCycles
  /\ cycles' = cycles + 1
  /\ turn' = 1
  /\ UNCHANGED <<stage, needed, disks, attached, vm, available, crashes,
                 startFailures, unlisted>>

\* Mutant: an existing base is made again.
StartMutant ==
  /\ pc = "start"
  /\ needed' = TRUE
  /\ vm' = NoVm
  /\ pc' \in {"convert", "next"}
  /\ UNCHANGED <<turn, stage, disks, attached, envVars>>
\* An invalid product key skips the product.  A factory VM that is still
\* there is turned off and removed.  Without a base and without an ISO the
\* product is skipped, too.
Start ==
  /\ pc = "start"
  /\ needed' = TRUE
  /\ \/ pc' = "next" /\ UNCHANGED vm
     \/ /\ vm' = NoVm
        /\ IF The("base").kind = "absent" THEN pc' \in {"convert", "next"}
           ELSE pc' = "diff"
  /\ UNCHANGED <<turn, stage, disks, attached, envVars>>

\* Convert-WindowsImage reports its failures with Write-Error; it writes under
\* a temporary name, so that a failure leaves no base.
Convert ==
  /\ At("convert", "bitsBase")
  /\ \E kind \in {"absent", "whole"} : Put("base", [NoDisk EXCEPT !.kind = kind])
  /\ UNCHANGED <<turn, stage, needed, attached, vm, envVars>>

WithUpdateScript(d, blocked) == [d EXCEPT !.logon = "update", !.blocked = blocked]

BitsBase ==
  /\ At("bitsBase", "runVm")
  /\ \E blocked \in BOOLEAN : MountAndRun("base", WithUpdateScript(The("base"), blocked))
  /\ stage' = "base"
  /\ UNCHANGED <<turn, needed, vm, envVars>>

\* Booted on a disk that is not whole, or has no script that shuts it down,
\* the VM runs for ever.
BootState(d) ==
  IF d.kind = "whole" /\ d.logon \in {"update", "sysprep"} THEN "running" ELSE "stuck"

\* Mutant: an error of New-VM does not stop the script.
RunVmMutant ==
  /\ At("runVm", "waitOff")
  /\ \E state \in {"none", "off", BootState(The(stage))} :
       vm' = [state |-> state, product |-> turn, slot |-> stage]
  /\ UNCHANGED <<turn, stage, needed, disks, attached, envVars>>
\* Any error of New-VM stops the whole script, and without a VHD it is sure to
\* fail; Start-VM only reports that the VM did not start.
RunVm ==
  /\ pc = "runVm"
  /\ \/ /\ pc' = "idle"
        /\ IF The(stage).kind = "absent" THEN UNCHANGED crashes
           ELSE crashes < MaxCrashes /\ crashes' = crashes + 1
        /\ UNCHANGED <<vm, startFailures>>
     \/ /\ The(stage).kind # "absent"
        /\ pc' = "waitOff"
        /\ \E state \in {"off", BootState(The(stage))} :
             /\ vm' = [state |-> state, product |-> turn, slot |-> stage]
             /\ state # "off" => ~Attached(stage)
             /\ IF state = "off" /\ ~Attached(stage) /\ The(stage).kind = "whole"
                  THEN /\ startFailures < MaxStartFailures
                       /\ startFailures' = startFailures + 1
                  ELSE UNCHANGED startFailures
        /\ UNCHANGED crashes
  /\ UNCHANGED <<turn, stage, needed, disks, attached, available, cycles, unlisted>>

\* Two samples of the VM's state, five seconds apart, must both be Off.
WaitOff ==
  /\ At("waitOff", CASE stage = "base" -> "compact"
                     [] stage = "update" -> "inspect"
                     [] stage = "sysprep" -> "unscript")
  /\ vm.state = "off"
  /\ vm' = NoVm
  /\ UNCHANGED <<turn, stage, needed, disks, attached, envVars>>

\* Page file removed, file compacted.
Compact ==
  /\ At("compact", "finalCheck")
  /\ MountAndRun("base", The("base"))
  /\ UNCHANGED <<turn, stage, needed, vm, envVars>>

Diff ==
  /\ At("diff", "bitsUpdate")
  /\ Put("update", NewChild("update"))
  /\ UNCHANGED <<turn, stage, needed, attached, vm, envVars>>

\* The Bits folder is replaced, the flag file of earlier runs with it.
BitsUpdate ==
  /\ At("bitsUpdate", "runVm")
  /\ \E blocked \in BOOLEAN :
       MountAndRun("update", [WithUpdateScript(The("update"), blocked)
                                EXCEPT !.changesMade = FALSE])
  /\ stage' = "update"
  /\ UNCHANGED <<turn, needed, vm, envVars>>

\* A disk that cannot be mounted shows no changesMade.txt.
Inspect ==
  LET found == /\ The("update").kind = "whole" /\ ~InUse("update")
               /\ The("update").changesMade
  IN /\ At("inspect", IF found THEN "merge" ELSE "discard")
     /\ needed' = found
     /\ MountAndRun("update", [The("update") EXCEPT !.changesMade = FALSE])
     /\ UNCHANGED <<turn, stage, vm, envVars>>

\* Mutant: a merge that a sysprep disk of an earlier run does not notice.
MergeMutant ==
  /\ At("merge", "finalCheck")
  /\ IF Attached("base") THEN UNCHANGED disks
     ELSE disks' = [disks EXCEPT
            ![turn]["base"] = The("update"), ![turn]["update"] = NoDisk]
  /\ UNCHANGED <<turn, stage, needed, attached, vm, envVars>>
\* The parent changes under a sysprep disk left by an earlier run.
Merge ==
  /\ At("merge", "finalCheck")
  /\ IF Attached("base") THEN UNCHANGED disks
     ELSE disks' = [disks EXCEPT
            ![turn]["base"] = The("update"), ![turn]["update"] = NoDisk,
            ![turn]["sysprep"] = IF @.kind = "absent" THEN @ ELSE Torn(@)]
  /\ UNCHANGED <<turn, stage, needed, attached, vm, envVars>>

Discard ==
  /\ At("discard", "finalCheck")
  /\ Put("update", Cleaned("update"))
  /\ UNCHANGED <<turn, stage, needed, attached, vm, envVars>>

\* Mutant: only a missing image is a reason to publish one.
FinalCheckMutant ==
  /\ needed' = (The("final").kind = "absent")
  /\ At("finalCheck", IF needed' THEN "diffSysprep" ELSE "finish")
  /\ UNCHANGED <<turn, stage, disks, attached, vm, envVars>>
FinalCheck ==
  /\ needed' = (needed \/ The("final").kind = "absent")
  /\ At("finalCheck", IF needed' THEN "diffSysprep" ELSE "finish")
  /\ UNCHANGED <<turn, stage, disks, attached, vm, envVars>>

DiffSysprep ==
  /\ At("diffSysprep", "sealScript")
  /\ Put("sysprep", NewChild("sysprep"))
  /\ UNCHANGED <<turn, stage, needed, attached, vm, envVars>>

\* Mutant: the logon script of the base is left in place.
SealScriptMutant ==
  /\ At("sealScript", "runVm")
  /\ MountAndRun("sysprep", The("sysprep"))
  /\ stage' = "sysprep"
  /\ UNCHANGED <<turn, needed, vm, envVars>>
SealScript ==
  /\ At("sealScript", "runVm")
  /\ MountAndRun("sysprep", [The("sysprep") EXCEPT !.logon = "sysprep"])
  /\ stage' = "sysprep"
  /\ UNCHANGED <<turn, needed, vm, envVars>>

Unscript ==
  /\ At("unscript", "publish")
  /\ MountAndRun("sysprep", [The("sysprep") EXCEPT
                               !.logon = IF GenericSysprep THEN "none" ELSE "post"])
  /\ UNCHANGED <<turn, stage, needed, vm, envVars>>

\* cleanupFile and Convert-VHD: for a while there is no published image.
Publish ==
  /\ At("publish", "optimize")
  /\ Put("final",
         IF Cleaned("final").kind # "absent" THEN The("final")
         ELSE IF The("sysprep").kind = "whole" /\ ~InUse("sysprep") THEN The("sysprep")
         ELSE NoDisk)
  /\ UNCHANGED <<turn, stage, needed, attached, vm, envVars>>

\* The final VHD is mounted read-only and compacted, the log is written, the
\* differencing disk deleted.
Optimize ==
  /\ At("optimize", "finish")
  /\ Put("sysprep", Cleaned("sysprep"))
  /\ Detach("final")
  /\ UNCHANGED <<turn, stage, needed, vm, envVars>>

\* The end of Start-ImageFactory, and the next call of it.
Finish ==
  /\ At("finish", "next")
  /\ UNCHANGED <<turn, stage, needed, disks, attached, vm, envVars>>

\* Mutant: one product too many.
NextProductMutant ==
  /\ At("next", IF turn > Products THEN "idle" ELSE "start")
  /\ turn' = turn + 1
  /\ UNCHANGED <<stage, needed, disks, attached, vm, envVars>>
NextProduct ==
  /\ At("next", IF turn = Products THEN "idle" ELSE "start")
  /\ turn' = IF turn = Products THEN turn ELSE turn + 1
  /\ UNCHANGED <<stage, needed, disks, attached, vm, envVars>>

Script ==
  \/ Begin \/ Start \/ Convert \/ BitsBase \/ RunVm \/ WaitOff \/ Compact \/ Diff
  \/ BitsUpdate \/ Inspect \/ Merge \/ Discard \/ FinalCheck \/ DiffSysprep
  \/ SealScript \/ Unscript \/ Publish \/ Optimize \/ Finish \/ NextProduct

-----------------------------------------------------------------------------
(* Inside the VM, and around the script *)

VmDisk == disks[vm.product][vm.slot]
GuestLeaves(d, state) ==
  /\ disks' = [disks EXCEPT ![vm.product][vm.slot] = d]
  /\ vm' = [vm EXCEPT !.state = state]
  /\ UNCHANGED <<pc, turn, stage, needed, attached, available, cycles, crashes,
                 startFailures>>
Checks(state) == vm.state = state /\ VmDisk.logon = "update"

\* Logon.ps1 of the update check, from one boot of the VM to the next.  Blocked
\* files are unblocked and a restart is ordered, but the script runs on until
\* it comes.
Restart ==
  /\ \E state \in {"running", "found", "clean"} : Checks(state)
  /\ VmDisk.blocked
  /\ GuestLeaves([VmDisk EXCEPT !.blocked = FALSE], "running")
  /\ UNCHANGED unlisted

\* Mutant: the marker is not left.
ListUpdatesMutant ==
  /\ Checks("running")
  /\ \E found \in {FALSE, VmDisk.level < available} :
       GuestLeaves(VmDisk, IF found THEN "found" ELSE "clean")
  /\ UNCHANGED unlisted
\* Get-WUList, once there is a network: updates found leave the marker.  A
\* list that fails finds none.
ListUpdates ==
  /\ Checks("running")
  /\ \E found \in {FALSE, VmDisk.level < available} :
       GuestLeaves([VmDisk EXCEPT !.changesMade = @ \/ found],
                   IF found THEN "found" ELSE "clean")
  /\ UNCHANGED unlisted

\* Get-WUInstall searches anew, minutes later, and installs all or some of what
\* is out then.  The VM restarts when Windows asks for it, be there progress or
\* not, and is shut down otherwise.
InstallUpdates ==
  \E before \in {"found", "clean"}, level \in VmDisk.level..available,
     after \in {"running", "off"} :
    /\ Checks(before)
    /\ VmDisk.blocked => after = "running"
    /\ GuestLeaves([VmDisk EXCEPT !.level = level, !.blocked = FALSE], after)
    /\ IF before = "clean" /\ level > VmDisk.level
         THEN unlisted < MaxUnlisted /\ unlisted' = unlisted + 1
         ELSE UNCHANGED unlisted

UpdatePass == Restart \/ ListUpdates \/ InstallUpdates

\* Logon.ps1 of the sealing: sysprep turns the VM off, or fails.
SysprepPass ==
  /\ vm.state = "running" /\ VmDisk.logon = "sysprep"
  /\ \/ GuestLeaves([VmDisk EXCEPT !.sealed = TRUE], "off")
     \/ GuestLeaves(VmDisk, "stuck")
  /\ UNCHANGED unlisted

UpdatesComeOut ==
  /\ available < MaxLevel /\ available' = available + 1
  /\ UNCHANGED <<pc, turn, stage, needed, disks, attached, vm, cycles, crashes,
                 startFailures, unlisted>>

\* The disk a step has mounted on the host.
MountedBy(step) ==
  CASE step \in {"bitsBase", "compact"} -> {"base"}
    [] step \in {"bitsUpdate", "inspect"} -> {"update"}
    [] step \in {"sealScript", "unscript"} -> {"sysprep"}
    [] step = "optimize" -> {"final"}
    [] OTHER -> {}

\* The file the interrupted step was writing is half there, or the old one is
\* gone and the new one not made: the image, a Logon.ps1, the marker.
Interrupt ==
  \/ UNCHANGED disks
  \/ pc = "merge" /\ ~Attached("base") /\ Put("base", Torn(The("base")))
  \/ \E f \in MountedBy(pc) \ {"final"} :
       /\ pc # "compact" /\ The(f).kind = "whole" /\ ~InUse(f)
       /\ Put(f, IF pc = "inspect" THEN [The(f) EXCEPT !.changesMade = FALSE]
                 ELSE [The(f) EXCEPT !.logon = "none", !.changesMade = FALSE])
  \/ /\ pc = "publish" /\ ~InUse("final")
     /\ \E d \in {NoDisk, Torn(NoDisk)} : Put("final", d)

\* The script dies: what is mounted stays mounted, and the VM runs on.
\* The host dies: nothing is mounted, and the VM is off.
Crash ==
  /\ pc # "idle" /\ crashes < MaxCrashes
  /\ crashes' = crashes + 1
  /\ pc' = "idle"
  /\ Interrupt
  /\ \/ /\ \E mounted \in SUBSET {f \in MountedBy(pc) : ~InUse(f) /\ The(f).kind = "whole"} :
            attached' = attached \cup {<<turn, f>> : f \in mounted}
        /\ UNCHANGED vm
     \/ /\ attached' = {}
        /\ vm' = IF VmOn THEN [vm EXCEPT !.state = "off"] ELSE vm
  /\ UNCHANGED <<turn, stage, needed, available, cycles, startFailures, unlisted>>

Next == Script \/ UpdatePass \/ SysprepPass \/ UpdatesComeOut \/ Crash

Spec == Init /\ [][Next]_vars

\* The script goes on by itself once it is started.  Nothing is assumed of what
\* runs in the VM: it may wait for a network, or restart, for ever.
FairSpec == Spec /\ WF_vars(pc # "idle" /\ Script)

-----------------------------------------------------------------------------
(* Properties *)

\* "saves a sysprepped image": a product that is done has a whole image, and
\* one that was generalized, unless its base never became usable.
PublishedSealed ==
  pc = "finish" /\ The("base").kind = "whole" =>
    /\ The("final").kind = "whole"
    /\ The("final").sealed
    /\ The("final").logon = IF GenericSysprep THEN "none" ELSE "post"

\* The same, for a factory whose VMs were all made and started and which nobody
\* killed.
SealedUndisturbed == crashes = 0 /\ startFailures = 0 => PublishedSealed

\* "creates fully updated VHD images": the image has every update that the
\* base of the product has.
PublishedUpdated ==
  pc = "finish" /\ The("base").kind = "whole" /\ The("final").kind = "whole" =>
    The("final").level >= The("base").level

\* The same, for a factory that was not cut short, by a kill or by New-VM; a VM
\* that does not start only delays the updates.
UpdatedUndisturbed == crashes = 0 => PublishedUpdated

\* "leave a marker if there are", "If changes were made - merge them in": in a
\* factory that is not cut short, the update disk is only thrown away with updates
\* on it when a pass has installed what its own list did not show: because the
\* list failed, or because an update came out between the two.
NoUpdateLost ==
  crashes = 0 /\ unlisted = 0 /\ pc = "discard" /\ The("update").kind = "whole" =>
    The("update").level <= The("base").level

\* "kept so future runs only need to install new updates": a whole base is never
\* replaced, generalized or set back, and stays whole, whatever the VMs do and
\* wherever the script dies, but for a merge that is cut off.
Grows(p) ==
  disks[p]["base"].kind = "whole" =>
    /\ \/ disks'[p]["base"].kind = "whole"
       \/ /\ pc = "merge" /\ crashes' > crashes
          /\ p = turn /\ disks'[p]["base"].kind = "torn"
    /\ disks'[p]["base"].level >= disks[p]["base"].level
    /\ ~disks'[p]["base"].sealed
BaseOnlyGrows == [][\A p \in Product : Grows(p)]_vars

\* Of every product, the factory does nothing to the base and the published image
\* but what ImageStore says, whatever dies when: above all, no old or torn disk
\* of an earlier run is published.
Content(slot) ==
  [p \in Product |-> [kind |-> disks[p][slot].kind, level |-> disks[p][slot].level]]
Store ==
  INSTANCE ImageStore WITH
    Level <- 0..MaxLevel, base <- Content("base"), image <- Content("final")
ImplementsStore == Store!Spec

\* The script ends, unless the factory VM stays on for ever: it never waits for a
\* VM that is not there, did not start or has been shut down.
HangsOnlyInVm == []<>(pc = "idle") \/ <>[]VmOn
=============================================================================
