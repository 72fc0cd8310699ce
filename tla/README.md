# Verified models of the container-host, image and form tools

TLA+ models of the programs in this repository that keep state: the scripts
that work on a Hyper-V host, and the script that validates the forms of the
ASP.NET sample.  The models say what they do in every order of steps, when a
step fails, when a process or the host dies half-way, when a message is late or
lost, and when several of them run at once.  TLC checks the models on small
instances, TLAPS proves what matters most for all of them.

The repository is mostly documentation.  Its programs are PowerShell scripts, a
few C++ samples and the JavaScript of a web site.  The PowerShell scripts have
no transactions and hardly any locks; their memory between runs is which files
exist.  The form script runs one event at a time, but its events are answers
and edits in any order.  That is what the properties here are about.

## Inventory

| Component | State it keeps | Operations | What is hard |
|---|---|---|---|
| **New-ContainerHost** (`windows-server-container-tools/New-ContainerHost`) | cache of base VHDs, WIM VHDs and their version markers; the ISO; `.wim` files in `%TEMP%`; a kernel mutex per image name; differencing disks and VMs | cache host files, edit the boot VHD offline, create and start the VM, install inside it | several sessions share the cache; errors that do not end the script; `finally` blocks that throw; kills between a file and its marker; waits without a timeout |
| **Image Factory** (`hyperv-samples/benarm-powershell/Image-Factory`) | base, update, sysprep and final VHD per product; `changesMade.txt`; the factory VM | create or update the base, merge or discard updates, seal and publish | the VM's progress is only seen as on or off; what is unpublished is remembered in a local variable; cmdlet errors go unnoticed |
| **Export-ContainerHost** | exported VHD, mutex `VhdMutex`, version files | stop the VM, check the install result, merge and publish its disks | same kind of markers and mutex as New-ContainerHost |
| **Update-ContainerHost** (`windows-server-container-tools/Update-ContainerHost`) | the docker service, its two executables, `daemon.json` | stop, replace, restart; or install, register, start, wait | no lock; copies that break off after the service was stopped; errors that end the run in one branch and are only reported in another |
| **Unobtrusive form validation** (`asp-net-getting-started/wwwroot/lib/jquery-validation-unobtrusive`, with the validator it configures) | adapters; each form's options, validator and reset handler; fields that were checked, their pending requests and last verdicts, message containers, the summary | parse attributes into rules, attach the validator, show and clear errors, reset, submit | answers that are late, lost or for other data; a submit that waits; resets in between; content and adapters that come after the first parse |
| **Wait-Service** | none; it follows a service | poll until stopped, return the exit code | restart between two polls, transient states |
| **xHyper-VBackup** | WMI jobs, snapshots, reference points | snapshot, convert, export, remove | jobs polled to completion; one step of several failing |
| **Convert-WindowsImage** | mounted WIM, ISO, VHD, registry hive | convert an image to a VHD | clean-up on every error path; errors swallowed |
| **Container networking clean-up** | services, HNS data, network adapters | stop, delete, restart | partial failure |
| **HyperVLogs** | event-log channel settings | enable, save, restore | restore after a failure |
| **WHP samples** | a partition and its virtual processor | run, handle the exit, resume | exit reasons |
| Docker TLS, credential specs, nested virtualization, surveys, dump encryption, small scripts | files or settings written once | one pass | nothing to interleave |
| `site.js` of the sample | none | | a comment only |
| API headers, documentation, demos | none | | not programs, or toys |

Interactions: New-ContainerHost calls a converter that it downloads (the one in
`hyperv-tools/Convert-WindowsImage` is the same tool), drops
`Install-ContainerHost.ps1` into the guest and talks to the guest through the
heartbeat and PowerShell Direct.  The Image Factory calls the same converter
and talks to its guest through files on the disk and through the VM's state.
Sessions of New-ContainerHost meet in the VHD directory, at the ISO, at the
mutexes and in the table of VMs.  Update-ContainerHost meets others of its kind
at the docker service and its files.  The unobtrusive library reads attributes
that the MVC helpers render and hands rules and callbacks to the jQuery
validator, which calls them back on every event and asks the server through
`$.ajax`.

What makes each correct:

* New-ContainerHost: what the cache calls complete is complete; what is attached
  gets detached; sessions do not edit under each other; a VM is only made of an
  edited disk, and its disk is then left alone; "ready" means installed; a run
  ends.
* Image Factory: a published image is sealed and as new as its base; installed
  updates are not thrown away; the base is never made again or sealed, and kept
  whole; a run ends.
* Update-ContainerHost: the service runs again, on whole and newer executables,
  whatever was there before; a run ends.
* Form validation: the form is only sent with values that pass every rule; a
  verdict is never used for other data; what is shown as wrong is wrong; a
  submit that waits is settled; the validator checks what the attributes ask
  for, and nothing in another form.
* The others: see the plan.

## Modules

### ContainerHost

`Session`s run the script again and again (`Begin`), each with one of its
`Requests`.  One action is one stretch of the script without an interruption
that matters, in the order of the source: the base VHD (`CheckBase` ...
`MarkBase`), the WIM VHD (`CheckWim` ... `DismountWim`), the disks and the
offline edit (`CheckVm` ... `ReleaseMutex`), the VM (`NewVm` ... `Verify`).
Between any two of them another session may move, a guest may boot or lose its
PowerShell Direct session (`GuestUp`, `GuestDown`), the process may be killed
(`Crash`) or the host restart (`HostRestart`).

* A base VHD is absent, partial, or holds a version.  Copies take two actions so
  that others see the partial file; a conversion takes one, because it works
  under a temporary name and renames at the end.  Markers are sets, because they
  are files of their own.
* An exception is `throwing[s]`; a `finally` block is an action that runs in
  both cases and continues at `AfterFinally`.  An error that is not terminating
  is an action whose effect is missing.
* A mutex has a `holder`.  When its owner dies, others that have it open find it
  `abandoned`: `WaitOne` then throws but owns it.  When the `finally` block
  itself throws (`Dismount-VHD -Path $null`), the session keeps the mutex
  (`leaked`) until it is closed or the finalizer closes the last handle.
* A VHD in use can be neither deleted nor overwritten (`BaseLocked`,
  `WimLocked`, `DiskInUse`).
* Save-ContainerImage writes into `%TEMP%`, which the sessions share and no run
  cleans up, and `Move-Item` takes every `*-*.wim` there is (`temp`,
  `SaveWimEnd`, `MoveWim`).  A WIM VHD is therefore `saved` with its image, or
  holds the `wrong` one, another image or half of one.
* `New-VHD` and `Mount-VHD` are two actions; without a mounted disk the `try`
  block throws (`ThrowToDismountWim`).  The VM's WIM disk is a child of whatever
  `WimChild` finds.
* The mutex has no `Global\` prefix, so the model is that of sessions in one
  logon session.

`VmLifecycle` is the promise to whoever waits for a VM, for each name on its
own: the disk is made and edited as often as it takes, a VM is made once, of an
edited disk, and from then on the disk is left alone; the installation runs in
a VM that runs; after it ended well, or after the guest dropped a PowerShell
Direct session, the VM is announced.  `ImplementsLifecycle` is the refinement: a
disk without its attachment, a name that has a VM, a VM that has power.

Left out: free-space warnings, the virtual switch, the content of
unattend.xml and of the Docker files, the VM's hardware settings.  None of
them decides a step.

### ImageFactory, ImageStore

`Start-ImageFactory` for one product after another, again and again.  A disk
is a record: how much of the file is there, the updates it has, its
`Logon.ps1`, `changesMade.txt`, and whether sysprep ran.  `RunVm` boots the
factory VM, `UpdatePass` and `SysprepPass` are what the logon script does from
one boot to the next, `WaitOff` is the polling loop.  An update pass lists the
updates (`ListUpdates`), installs what it finds minutes later (`InstallUpdates`),
and restarts whenever Windows asks for it; a restart it has asked for to unblock
files (`Restart`) comes before, between or after the two.  Any error of `New-VM`
ends the script, and counts with the kills in `crashes`.  `Crash` kills the script
(what is mounted stays mounted, the VM runs on) or the host; `Interrupt` says
what file it tears.

`ImageStore` is what a user may rely on whatever dies when: a base is made
once and only gains updates; an image is only published whole and with all the
updates its base has at that moment.  A base may be torn by a merge that is cut
off, and an image withdrawn or torn.  `ImplementsStore` maps
the base and final VHD of each product to it.  The hard part is the sysprep
disk that a killed run leaves, attached perhaps, so that the next run cannot
replace it and goes on with it: it may only be published if the base did not
change under it.  That an image may fall behind its base later is the finding
of ImageFactoryStale, and no contradiction.

Left out: static addresses, the PowerShell upgrade of old guests (one more
reboot before the first pass), the CSV log, CleanWinSXS, page-file removal.

### DockerService

`Session`s run Update-ContainerHost.ps1 again and again.  `TestDocker` asks the
service control manager and chooses the branch (`install[s]`).  `StopDocker` and
`Stopped` are `Stop-Service`, which asks and then waits; `ServiceStops` is the
daemon's answer.  Each copy is two actions, since the file is half there in
between.  `Register`, `WriteSettings`, `StartDocker` and `Started`, `WaitDocker`
and `ListImages` are the rest; `AfterStart` is where the branches part again.
`Start-Service` asks and waits, too, and `ServiceStarts` is the daemon's answer.
Either executable comes from a file or a link of its own.

* Which error ends a run decides what is left behind: a download throws, a
  `Copy-Item` reports and goes on, the `try` around the daemon's copy exists in
  the update only (`DockerFails`, `DockerdFails`), `Stop-Service` and
  `Start-Service` report, a daemon that cannot be executed throws.
* A file that is written or runs cannot be opened for writing (`DockerLocked`,
  `DockerInUse`, `DockerdLocked`).  docker.exe runs for moments while another
  session waits for the daemon or lists its images, so that lock may or may not
  be met.
* `Fault` counts what goes wrong by itself: a copy that breaks off, a service
  that does not start or stop, a daemon that dies or hangs (`Hang`), a kill, a
  host restart.  It sets `disturbed` for every run under way, as another run
  does; the properties are about what is promised to the others.
* `Wait-Docker`'s minute is one action: it may find the daemon at any moment,
  and gives up only if it does not answer at that moment.  The minute is looked
  at between attempts, so a docker.exe whose daemon hangs is waited for without
  an end (`Silent`).

Left out: `Test-Admin`; the TLS settings inside `daemon.json`; a source path that
does not exist or is the destination; Nano Server's download, which takes an
answer without success for none.

### UnobtrusiveForm

`UnobtrusiveForm` is one form.  JavaScript runs an event at a time, so an
action is an event with everything its handlers call: `Fill`, `KeyUp`,
`FocusOut`, `Submit`, `Validate` (the library's `validate` on the form),
`Reset`, `Answer`, `Lose`.  They are compositions of operators that take the
page's script from a state to the next, named as in the source: `OnError`,
`OnErrors`, `OnSuccess`, `OnReset` are the library's handlers, `Check`,
`ShowErrors`, `Form`, `Element`, `HandleSubmit`, `StopRequest` and `TakeAnswer`
the parts of the validator that call them.

* `page` is the state they share: the names once checked (`submitted`,
  `invalid`), the errors and successes of the last check, the pending names and
  their count, the wish to submit, the `previousValue` records (`old`,
  `valid`), the message containers, the summary.
* A request carries its data, and `live`: whether the record it will write to
  is still the element's.  A reset replaces the records and leaves the requests
  on their way; a new request of the same field replaces the old one
  (`mode: "abort"`).
* Rules that need no server are the set of values they reject; the server is a
  set of data per field, unknown to the form.  A remote rule may send other
  fields' values too, which change without the field being checked again.
* `sent` is the values the browser has sent last.  Nothing ends with a sending:
  the user may edit and submit again, as a double click does, and answers still
  come.

Left out: buttons that cancel validation, `submitHandler`, `debug`, groups,
normalizers, highlight classes and aria attributes beside the containers',
removal of elements, focus.

### UnobtrusiveParse

The whole of the parser, for a page with several forms.  An attribute is a path
with a value, an adapter a record (`AddBool`, `AddMinMax`, `AddSingleVal`,
`Add`), and `Adapt` what it makes of an element; `BuiltIn` is the library's
list.  The two loops of the source are functions of a position: `Adapted(e)[i]`
is what the first `i` adapters make of an element, `Parsed(found)[i]` what the
options are when the first `i` elements of the document have been looked at.
`ParseElement` replaces an element's rules in its form's options,
`ParseSelected` does so for a selection and attaches the validators, `Attach`
makes a validator only where there is none and binds the reset handler anew.
`Settings` is the validator's deep copy, from which rules that are undefined
vanish.  Scripts may parse the document, a form or a part again (`ParseAgain`,
`ParseForm`, `ParsePart`, `ParseOne`), add an element or an adapter (`Insert`,
`AddAdapter`), or destroy a validator (`Destroy`).  A form whose options or
validator do not exist yet has `Nothing`, the function without a domain.

Names are sequences of their parts, so that `*.Other` is resolved as the source
does.  A message is the attribute's text as it stands.

### The MC and proof modules

MCContainerHost holds the requests of the instances, MCUnobtrusiveForm a form
with two fields the server checks, MCUnobtrusiveParse a page with two forms.
ImageFactory and DockerService are parameterised by small numbers and sessions
and are checked as they are.  The modules whose names end in Proofs are
described below.

## Runs

| Run | Sessions / bounds | Shows |
|---|---|---|
| ContainerHostSequential | 1 session, 3 runs, 1 crash, 2 versions | cache, clean-up and disk properties over any sequence of runs, with every thrown error |
| ContainerHostTwoSessions | 2 sessions with the same image, 3 runs in all, 1 crash, 1 lost guest session | mutual exclusion, with leaks, abandonment and kills; clean-up; the disk invariant; VmLifecycle implemented; a run ends or hangs in one of two named places |
| DockerService | 2 sessions, 3 runs, 1 fault, 2 versions | an undisturbed run repairs whatever is there and ends well; overlapping runs leave the service up unless one of them ended with an error; a run ends unless the daemon hangs |
| UnobtrusiveForm | 2 remote fields, 3 values, 4 edits or resets, 1 lost request | only sent with acceptable values, however often; verdicts, counts and shown errors true; a waiting submit is settled |
| UnobtrusiveParse | 2 forms, 5 elements (2 of them inserted later), 1 adapter of the page's own | rules complete, of their own form and model; the first parse that covers a form gives its validator all of them |
| ImageFactoryRuns | 1 product, 3 cycles, 2 rounds of updates, 2 kills or New-VM errors, 1 failed Start-VM, 1 pass that installs what it did not list | a whole base only grows, but for a merge that is cut off; ImageStore implemented; no other update is thrown away; undisturbed cycles publish sealed and updated images; a cycle ends unless the VM stays on |

The bounds: `MaxRuns`, over all sessions, is at least what a property about an
earlier run needs (one run to leave a trace, one to find it, a third to find
what the second made of it); one crash of ContainerHost, because every property
that speaks of crashes is about one interruption and the runs after it, and two
of the factory, whose second run can be torn while it meets what the first left;
two versions, so that a marker can outlive its file; two rounds of updates, so
that an image can be behind a base that is itself not the first.  Of docker's
three runs one can leave a mess, which its fault makes, and a second can repair
it or run beside a third.  Four edits are enough to ask, change, reset and
change back while two answers are on their way, which is what it takes to have a
late answer, a replaced request and a submit that waits in one behaviour; one
lost request is one that never comes while the other fields' do.  Five elements
give every kind of adapter but the single-valued ones (which differ in names
only) a place, an `equalto` whose other field comes later, and a field of the
same name in another form.  The two sessions of ContainerHostTwoSessions take
their base from a file, so that their waits and mutexes have room; what they do
to the ISO of each other is in `ExitCorrect` for any sessions.  `CHECK_DEADLOCK`
is off for the scripts because the operator need not start another run.

Fairness: `WF` of each session's `ScriptStep` (PowerShell runs on), of
`GuestUp` (a guest whose disk is intact boots), and of the factory's script.
Nothing is assumed of what runs in the factory VM, which may wait for a network
or restart for ever; `HangsOnlyInVm` says that the script ends unless it stays
on.  Docker: `WF` of each session's `ScriptStep` (a download ends, well or
badly), of `ServiceStarts` and of `ServiceStops` (a daemon that does not hang
starts and stops when asked).  `WaitDocker` giving up although the daemon would
have answered within the minute is left to `Answers`: a service that runs and
does not hang answers.
The form: a request that is not lost is answered.  That is weak fairness of
`Answer`, written out with `OnItsWay` as the condition for it to be enabled.
No fairness for starting runs, faults, closing windows, updates coming out, or
anything the user does.

Four runs of ContainerHost, one of ImageFactory and one of UnobtrusiveParse
are expected to find a violation; each is a place where the code does not do
what its own text says.

| Run | What happens |
|---|---|
| ContainerHostBaseMarker | a marker without a brand, written by a run that got no VHD or another one, makes "the latest" of a download that broke off |
| ContainerHostWimMarker | one session removes and remakes the WIM VHD that another has just marked |
| ContainerHostMutexLeak | no boot VHD: `Dismount-VHD -Path $null` throws past `ReleaseMutex` |
| ContainerHostReady | the question whether the installation failed is asked of a broken session, and no answer passes for a no |
| ImageFactoryStale | a script that dies after the merge, or with the image attached, leaves an old image that the next full run does not replace |
| UnobtrusiveInserted | a field inserted into a form that has its validator is parsed and never checked |

Seen while modelling, without a run of their own:

* New-ContainerHost.ps1:393-398: a `.wim` that a killed run left in `%TEMP%`, half
  of one or another image's, is moved onto the WIM VHD in place of the one just
  saved, passes `Test-Path` (401) and gets the marker.  What the properties say
  of the WIM VHD is therefore that it was filled, not with what.
* New-ContainerHost.ps1:722: after a kill in `Cache-HostFiles` the WIM VHD may
  still be attached; no child can be made of it, and the script installs in a VM
  without a WIM disk (`InstallFindsImage` makes that exception).
* Factory.ps1:808: a `Merge-VHD` that is cut off leaves a torn base, which no
  later run replaces (`Grows` makes that exception).
* Factory.ps1:457, 468: updates that `Get-WUInstall` finds and `Get-WUList` did
  not, because it failed or they came out in between, are installed without a
  marker and thrown away with the update disk (`unlisted` counts them).
* Factory.ps1:284: a VM that did not start is off, hence done, and its image is
  published without sysprep (`PublishedSealed` of ImageFactory is false then).
* Update-ContainerHost.ps1:368-372: a run killed, or thrown out, between the
  registration and `daemon.json` leaves a service without settings; every later
  run finds the service, takes the update's branch and never writes them, so
  TLS stays off.  On a host without the `config` directory that is what the
  first run does (`UndisturbedEndsWell` names it).
* Update-ContainerHost.ps1:58: two overlapping runs, one of them installing: the
  update stops the service and then finds docker.exe in use by the other's
  `docker version` or `docker images`.  The download throws, the update ends with
  an error and the service stays down, while the installing run may end well (the
  second half of `TogetherUp`).
* jquery.validate.unobtrusive.js:365, 369, 423: without additional-methods.js,
  which the site does not load, `extension`, `creditcard` and `fileextensions`
  become rules without a method, and the validator throws in the submit
  handler.
* The same file: :107, a reset after `destroy` throws, because the handler
  outlives the validator; :178-181, the comment on `skipAttach` says the
  opposite of the code; :299-306 and :325-331, the names of attributes a caller
  gives to `addMinMax`, and the default `val` of `addSingleVal`, are not used;
  :370, `maxlength` with a minimum as well gives a rule named "undefined";
  :349-356, `nonalphamin` rejects an empty optional field.
* jquery.validate.js:1108: when the check at the last answer finds an error,
  `formSubmitted` stays set, through a reset too; a later answer then sends the
  form although nobody has pressed the button again.  The values are acceptable
  all the same (`SubmittedConfirmed`).

## Proofs

`ContainerHostProofs` proves, for any sessions, VMs, versions, requests and
bounds, from the named assumptions on the constants:

* `TypeCorrect`: `TypeOK` is inductive; one lemma per part of the script.
* `LockCorrect`: `LockInv` is inductive given `TypeOK`.  It says more than
  exclusion, since exclusion is not inductive: whoever is in the critical
  section owns the mutex, and whoever owns one is there or has leaked it.
  Steps that neither enter nor leave fall under one lemma (`LockFrame`), the
  five that do are `LockMoves`, the ways a session ends are `LockDrops`.
* `Exclusion`: follows from `LockInv`.

`ContainerHostVmProofs` is about the VMs.  `DiskCorrect`, `BuiltCorrect` and
`StableCorrect` hold under `DistinctVms`: no two sessions are given the same VM
name.  Without it they are false, since the name check and `New-VM` are far
apart.  The invariant (`DiskInv`) has to say where a session stands: from the
name check to `New-VM` the name has no VM, after an edit that did not throw the
disk is edited, after the dismount it is detached.  `Inside` treats the steps
of that stretch, `Outside` all that touch no disk.

`LifecycleCorrect`, under the same assumption, is the refinement of VmLifecycle,
one lemma per kind of abstract step; it is what the other theorems of the module
amount to for somebody who sees only the VMs.  Besides their invariants it needs
`BlankInv` (there is a disk to edit whenever the script edits one) and
`InstalledInv`: a session that installs owns the running VM, and a name that was
announced has an installation that ended well, or a guest that dropped a
session.

`ContainerHostFileProofs` is about what the sessions share on the disk.
`ExitCorrect` has no assumption on the requests.  `CleanExit` is not inductive
as it stands: a session in `dismountBoot` that has no boot VHD object leaves
its finally block without the dismount.  The invariant therefore asks for an
owner that knows its disk; each of the three lemmas `BootMoves`, `WimMoves` and
`IsoMoves` shows that one step of the script attaches only to itself and gives
up ownership only by detaching.

`MarkerCorrect` and `ImageCorrect` hold under `DistinctWims`: no two sessions
build the same WIM VHD, in any of their runs.  Without it they are false
(ContainerHostWimMarker).  The base VHDs, the ISO, the mutexes and `%TEMP%` may
be shared all the same, and a session meets the WIM VHDs of its own earlier
runs, killed ones included.  `WimInv` says that a session works on the VHD while
it has no marker, that the VHD is filled before the marker is written, that no
session is past it without one, and that every VM's WIM disk is a child of a VHD
with a marker.  `ImageCorrect` says so of the VM in which the installation
starts, and that it has the disk at all unless a process was killed, for which
it takes `DistinctVms` as well.

`ImageFactoryProofs`, for any products, levels and bounds: `FactoryTypeCorrect`,
and `BaseGrows` from an invariant of what the disks of a product are to each
other (base and update disk carry no sealing script, no update disk without a
base, and none behind it) and of where the script works on them (no VM
meanwhile, and no update disk beside a base that is booted).  A merge then only
replaces the base by a disk that is whole and not behind it, unless it is cut
off, which `BaseOnlyGrows` allows for.  `StoreCorrect` is
the refinement to ImageStore.  Its invariant (`ChildInv`) is that a whole
sysprep disk, also one that a killed run left, has all the updates of its base:
a merge makes the children of the old base useless, and a VM or a mount changes
a base in place only while there is no sysprep disk; one lemma per kind of step.

`ImageFactoryRunProofs` adds `SealedCorrect`, `UpdatedCorrect` and
`KeptCorrect`, what a factory that is not cut short, by a kill or by `New-VM`,
publishes.  `Quiet` is the
invariant: nothing stays attached, there is a VM exactly while the script waits
for it, no sysprep disk is left over, the update disk carries the marker when
it is ahead of its base, unless a pass has installed what its list did not show,
and an image is behind its base only between the merge
and the publishing.

`UnobtrusiveFormProofs`, for any fields, values, rules, servers and bounds:
`FormTypeCorrect`, `CountCorrect`, `VerdictCorrect`, `SubmitCorrect`,
`ErrorsLive` and `ChecksShowErrors`.  The invariant is that the page is
`Coherent`: the count is the cardinality of the pending names; a request belongs
to a pending name and to the data kept for it, or to data a reset has removed; a
verdict kept for a name that does not wait is the server's.  Each operator of
the validator keeps a page coherent, and `CheckCoherent` adds what a check has
found out about every field without an error, which is what a sending needs.
The errors have an invariant of their own (`Marked`), on the same operators.

`UnobtrusiveParseProofs`, for any page, with any forms, elements, names,
attributes and adapters of its own: `ParseTypeCorrect`, `CompleteCorrect`,
`CoverCorrect` and `WithinCorrect`.  They are about loops, so their lemmas are
inductions over the position in the list of adapters (`RulesFollow`,
`RulesWithin`) and in the document (`ParsedTypes`, `ParsedKept`,
`ParsedWithin`).  `Upwards` is that induction as a statement about a set of
positions, which follows from the well-foundedness of the naturals: a set that
holds 0 and the successor of each member has no least non-member.  `AdaptedDef`
and `ParsedDef` unfold the recursive functions once.

* `CompleteCorrect` rests on `AdaptKeeps`, which says of every adapter that what
  it makes of an element on top of other rules is what it makes of it alone,
  beside the others.
* `CoverCorrect` holds under `OneFieldPerName`: the validated elements of a form
  have different names.  Else the rules of the last one replace the others'
  (jquery.validate.unobtrusive.js:191).  The MVC helpers keep to that: of the
  buttons of a radio group, and of a check box and its hidden companion, they
  mark the first only.
* `WithinCorrect` holds under `ModelFields`: the other field of an `equalto`, and
  the additional fields of a `remote`, are given as `*.` and the name of a
  property, as the MVC attributes give them; the latter have a field in the form
  (a name nobody has is sent without a value); and no adapter of the page makes
  the rules `equalTo` and `remote` from something else.

Both hypotheses hold of the page in MCUnobtrusiveParse.

`DockerServiceProofs`, for any sessions and bounds: `DockerTypeCorrect` (with
the daemon's program being whole), `EndsWell`, `Repairs` and `TogetherCorrect`.
The first needs `CopyInv`: whoever copies an executable is alone with it, and
the service is down while the daemon's is copied.  `EndsWell` and `Repairs` need
`RunInv`: where an undisturbed run stands tells the state of the service and
which executables are renewed, and no other run is inside.  A step of one run
keeps this for the others because they are disturbed (`BesideKeeps`), so each
action is looked at for its own run only.  `TogetherCorrect` is about runs that
do disturb each other: `UpInv` says that as long as there was no fault, a
service that is down has a run inside that will start it, or a run that has ended
with an error, and that half an executable has the run inside that copies it.

Only model-checked: liveness (`HangsOnlyAt`, `HangsOnlyInVm`, `RunEnds`,
`SubmitSettles`), which is out of TLAPS's reach.  All safety properties of the
passing runs are proved; those that need an assumption that the run's instance
does not make by itself name it.

## Not modelled

Each with its reason in `PROJECT.json`.  Out of scope for good: read-only
reports, scripts that write one file or a few settings, API headers, and
documentation.

## Plan

1. Export-ContainerHost (`ExportHost`), composed with ContainerHost: both edit
   VHDs in the same directory under different mutexes.  Property: an export
   never publishes a VM whose install failed, nor a half-written disk.
2. xHyper-VBackup (`VmBackup`): jobs as an abstract "starts, then ends well or
   badly" specification; its polling loop waits in one job state only and takes
   the others for success.
3. Wait-Service, over the states of a Windows service that DockerService has.
4. Convert-WindowsImage (`ConvertImage`): clean-up on every error path, refined
   to the two-outcome conversion that ContainerHost and ImageFactory assume.
5. The networking clean-up, HyperVLogs, the WHP exit loop, Docker TLS.
6. Proofs: the mutex of ContainerHost as a refinement of an abstract lock with
   owners that die; an abstract specification of a service that is updated while
   others use it.
7. The overwritten parent of stopped VMs, and a docker service registered
   without its settings (hazards no property covers yet).
