----------------------------- MODULE VmLifecycle -----------------------------
(***************************************************************************)
(* What New-ContainerHost.ps1 promises for each VM name, whatever sessions *)
(* do at once and wherever they die: a disk is made anew and edited as     *)
(* often as it takes, a VM is made of an edited one, once, and from then   *)
(* on its disk is left alone; the installation runs in that VM while it is *)
(* running; and after it ended well the VM is announced, once and for all. *)
(* For a guest that lost a PS Direct session it promises less: its VM is   *)
(* announced whatever came of the installation.                            *)
(***************************************************************************)
CONSTANTS
  Vm,    \* names of VMs
  Base   \* VHDs a disk can be a child of

VARIABLES
  disk,      \* Vm -> its boot disk
  made,      \* names that have a VM
  running,   \* VMs that run
  lost,      \* VMs whose guest lost a PS Direct session
  install,   \* Vm -> what its installation left: "no", "err" or "ok"
  ready      \* VMs announced ready for use

lifeVars == <<disk, made, running, lost, install, ready>>

BootDisk == [boot: {"absent", "blank", "edited"}, base: Base]

Init ==
  /\ disk \in [Vm -> {d \in BootDisk : d.boot = "absent"}]
  /\ made = {} /\ running = {} /\ lost = {} /\ ready = {}
  /\ install = [v \in Vm |-> "no"]

\* The disk is deleted, and mostly created again.
Rebuild(v) ==
  /\ v \notin made
  /\ \E d \in BootDisk : d.boot # "edited" /\ disk' = [disk EXCEPT ![v] = d]
  /\ UNCHANGED <<made, running, lost, install, ready>>

Edit(v) ==
  /\ v \notin made /\ disk[v].boot # "absent"
  /\ disk' = [disk EXCEPT ![v].boot = "edited"]
  /\ UNCHANGED <<made, running, lost, install, ready>>

Make(v) ==
  /\ v \notin made /\ disk[v].boot = "edited"
  /\ made' = made \cup {v}
  /\ UNCHANGED <<disk, running, lost, install, ready>>

Start(v) ==
  /\ v \in made \ running
  /\ running' = running \cup {v}
  /\ UNCHANGED <<disk, made, lost, install, ready>>

\* The host goes down with all its VMs.
Stop == running' = {} /\ UNCHANGED <<disk, made, lost, install, ready>>

Install(v) ==
  /\ v \in running \ ready
  /\ \E result \in {"ok", "err"} : install' = [install EXCEPT ![v] = result]
  /\ UNCHANGED <<disk, made, running, lost, ready>>

Announce(v) ==
  /\ v \in running \ ready
  /\ install[v] = "ok" \/ v \in lost
  /\ ready' = ready \cup {v}
  /\ UNCHANGED <<disk, made, running, lost, install>>

Lose(v) ==
  /\ v \in running \ lost
  /\ lost' = lost \cup {v}
  /\ UNCHANGED <<disk, made, running, install, ready>>

Next ==
  \/ \E v \in Vm : \/ Rebuild(v) \/ Edit(v) \/ Make(v) \/ Start(v)
                   \/ Install(v) \/ Announce(v) \/ Lose(v)
  \/ Stop

Spec == Init /\ [][Next]_lifeVars
=============================================================================
