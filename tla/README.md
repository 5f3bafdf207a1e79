# A TLA+ model of the SR-IOV DRA driver

The DRA driver for SR-IOV virtual functions runs as one process per node. The
kubelet asks it to *prepare* the resource claims of a pod before the pod starts
and to *unprepare* them when it ends; in between, the container runtime tells it
(through NRI) about pod sandboxes, and policies in the cluster decide which
devices it offers to the scheduler. This directory models that process and the
world it talks to, checks the model with TLC on small instances, and proves the
most important facts for all instances with TLAPS.

Paths below are relative to `src/`.

## 1. Inventory

| Component | Code | State it keeps | Operations |
|---|---|---|---|
| DRA hooks | `pkg/driver/dra_hook.go` | none of its own; `ifNameIndex` per call | `PrepareResourceClaims` (with rollback), `UnprepareResourceClaims` |
| Device-state manager | `pkg/devicestate/state.go`, `deviceinfo.go` | `allocatable` devices with attributes, `policyAttrKeys` (the advertised set) | `PrepareDevicesForClaim`, `Unprepare`, `UpdatePolicyDevices`, `GetAdvertisedDevices` |
| Pod manager | `pkg/podmanager/podmanager.go` | pod UID -> claim UID -> prepared devices, in memory and in a checkpoint file | `Set`, `Get`, `GetByClaim`, `GetDevicesByPodUID`, `DeleteClaim`, `UpdatePreparedDeviceNetworkData` |
| Host driver management | `pkg/host/host.go` | sysfs: driver link and `driver_override` of each device | `BindDeviceDriver`, `RestoreDeviceDriver` |
| CDI handler | `pkg/cdi/cdi.go` | one spec file per claim, one per pod | create, delete |
| Claim status | `pkg/types/statusretry.go`, `claimstatus.go` | `status.devices` of the ResourceClaim, on the API server | `UpdateClaimStatusWithRetry`, `MergeDeviceStatuses` |
| NRI plugin | `pkg/nri/nri.go` | connection to the runtime, channel of network data | `RunPodSandbox`, `StopPodSandbox`, the runner goroutine, `Stop`, onClose |
| CNI runtime | `pkg/cni` | attached interfaces, in the kernel | `AttachNetwork`, `DetachNetwork`, `ExecPlugin` |
| Policy controller | `pkg/controller/resourcepolicycontroller.go` | work queue | `Reconcile` |
| Driver start, publication | `pkg/driver/driver.go` | the published pool, request metadata files | `Start`, `PublishResources`, `UpdateRequestMetadata`, `Shutdown` |
| VfConfig resolution | `pkg/devicestate/statehelpers.go`, `pkg/api/virtualfunction` | none (pure) | `getMapOfOpaqueDeviceConfigForDevice`, `Override` |
| Device discovery, host inspection | `pkg/devicestate/discovery.go`, `pkg/host/host.go` | none; the result is kept in `allocatable` until the process ends | `DiscoverSriovDevices` and the queries it makes; VFIO and RDMA queries of prepare |
| Process wiring | `cmd/dra-driver-sriov/main.go` | the main context | `RunPlugin`: start of the parts in order, shutdown |
| Health service, flags, API types | `health.go`, `pkg/flags`, `pkg/api` | none that changes | probes, declarations |

How they interact. The kubelet plugin helper serialises prepare and unprepare
calls. A prepare call walks over the pod's claims and their devices: bind the
driver (host), write device-info files (MULTUS mode), write the claim's CDI file,
store the entry (pod manager, checkpoint), write the claim's status; after all
claims it writes the pod's CDI file, and rolls all of them back if that fails.
NRI handlers, the NRI runner and the policy controller run beside these calls.
They share the pod manager (one mutex), `allocatable` (no lock), the claim's
status on the API server (optimistic concurrency) and the checkpoint file.

What is hard here: every one of those stores can fail on its own, half way
through a list; the process can die between any two of them; the kubelet retries
until it gets a success and forgets what it knew when it restarts; a claim is
used by one pod after another and can be replaced by a claim of the same name;
the status is written by several writers at once; policies change while a
reconcile reads them. The properties that make the parts correct:

* a device that nobody uses is back on the driver it had, and the record of that
  driver is right at all times (hooks, pod manager, host);
* what the kubelet was told is prepared is there, and stays until the pod ends;
* retries end in success once the faults end;
* the status of a claim is about this claim, loses nothing of other drivers and
  ends with the newest network data;
* the published pool is what the policies call for, whatever the history;
* a sandbox that was allowed to start has all its networks, and its metadata; one
  that ended has none left; pods start and end again after any fault;
* a device gets what the configs that apply to it set, that of highest precedence
  first, and device nodes that fit the driver it is bound to.

`PROJECT.json` lists the hazards one by one, each at its line.

## 2. Modules

    DriverOutcomes            what one bind or restore may do (operators)
     |-- DriverBinding        bind and restore as atomic steps (abstract)
     |-- HostDriver           the same, one step per sysfs access  ==> DriverBinding
     |     `-- HostDriverProofs
     `-- ClaimLifecycle       prepare and unprepare (+ PodManager)
           |-- MCLifecycle        instances
           `-- ClaimLifecycleProofs     its type
                 `-- LifecycleRecordProofs     original drivers, interface names
                       `-- LifecycleUsableProofs     what a running pod may count on
    ClaimStatus               the writers of status.devices
     `-- ClaimStatusProofs
    Discovery                 DiscoverSriovDevices (operators)
     `-- PolicyAdvertisement  discovery, controller, advertised set, published pool
           |-- MCPolicy           instances
           `-- PolicyAdvertisementProofs
    PodManager                also extended by
     `-- PodNetwork           NRI plugin, CNI runtime, process, kubelet
           |-- MCNetwork          instance
           `-- PodNetworkProofs
    VfConfig                  configs of an allocation (operators)
     `-- DeviceConfig         what prepare makes of a device
           |-- MCDeviceConfig     instance
           `-- DeviceConfigProofs

**ClaimLifecycle** is the core. `call` is the one call in progress: the claim
and device it is at (`ci`, `di`), the prepared devices so far (`work`) and a
`phase`, the next access to a store. Each phase is one action, with its failure
as a disjunct or an action of its own, so that a crash can come between any two.
`driver`, `claimSpecs`, `podSpecs` and `deviceInfo` are the host and the files;
`preparedClaims` and `checkpoint` come from **PodManager**; `pod` and
`kubeletPrepared` are the kubelet's side. `stranded` is a history variable: the
devices of which the only record of the native driver was lost (a crash before
the checkpoint, a bind or rollback that failed half way). `Request[c][d]`,
`Results[c]` and `Uses[p]` stand for the driver that the resolved VfConfig of the
claim asks for each device, the allocation, and the claims in the order of the
call.

| Action | Code |
|---|---|
| `RefuseClaim`, `AlreadyPrepared`, `PrepareDevicesForClaim` | the first half of `prepareResourceClaim` |
| `RejectDevice`, `BindDevice`, `FailDevice`, `UndoDevice`, `FinishDevice` | `applyConfigOnDevice`, from its early errors to `restoreDriverOnError` and the PreparedDevice |
| `AbortDevice`, `Aborted`, `AbortDeviceInfo` | the rollbacks in `prepareDevices` and `PrepareDevicesForClaim` |
| `SyncDeviceInfo`, `CreateClaimSpecFile`, `StoreClaim` | the rest of the claim: device-info, CDI, `Set`; after a failed `Set`, `Unprepare` |
| `CreateGlobalPodSpecFile`, `NothingPrepared` | the end of `PrepareResourceClaims`, with `rollbackPreparedClaims` |
| `LookupClaim`, `UnprepareDeviceInfo`, `UnprepareDevice`, `UnpreparedDevices`, `DeleteSpecFiles`, `ForgetClaim` | `unprepareResourceClaim` and `Unprepare`, for the kubelet and for rollbacks |
| `RecordNetworkData` | the NRI runner's checkpoint write, beside any call |
| `Crash`, `Reboot`, `KubeletRestart`, `Reserve`, `StartPrepare`, `Terminate`, `StartUnprepare`, `Answer`, `AnswerError` | process, node, kubelet and scheduler |

**HostDriver** has one step per sysfs access of `BindDeviceDriver` and
`RestoreDeviceDriver`, each of which may fail and end the call.
**DriverBinding** has each call as one step with the outcomes of
**DriverOutcomes**; ClaimLifecycle uses the same outcomes. HostDriver is shown
to implement DriverBinding under the mapping "the binding before the call, while
a call is in progress".

**ClaimStatus** models one claim object with its resourceVersion, the retry loop
of `UpdateClaimStatusWithRetry` with its two callers (`writer`), the channel
(`queue`), other drivers, and deletion and re-creation under the same name. The
device list is a function from keys to entries, which is what listType=map makes
of it. `missed` is a history variable: a write was given up or skipped, which
the code allows (status writes are best effort).

**PolicyAdvertisement** models `Reconcile` as three reads and an update, so that
objects change in between, `getPolicyDeviceMap` as operators, and
`UpdatePolicyDevices` with its change detection as it is. `unpublished`
remembers that a republish failed and none has succeeded since. The process
ends (`Exit`) and starts (`Start`, `StartWithFailingQuery`); a start discovers
the devices anew with **Discovery**, whose operators are the host queries over a
PCI inventory, each with what it falls back to. `failed` is the query that
failed in the discovery the process runs on; one that discovery does not survive
makes the start fail.

**PodNetwork** composes the pod manager with the NRI plugin, the CNI runtime and
the process. `process` is how far `RunPlugin` has come, `nri` the connection,
`handler` the one event under way, device by device (`todo`) and metadata file by
metadata file (`keys`), `queue` the channel; `attached` are CNI ADDs without a
DEL, `metadata` whose network data a file has. `sandbox` and `pod` are the
runtime's and the kubelet's side. Preparing a pod is one step: ClaimLifecycle has
its inside.

| Action | Code |
|---|---|
| `StartDriver`, `StartFails`, `StartNRI` | `RunPlugin` to `driver.Start`, what may fail, the NRI plugin last |
| `OnClose`, `CancelMainCtx`, `Stop`, `Shutdown`, `Crash` | the ways the process ends |
| `RunPodSandbox`, `AttachNetwork`, `AttachFails`, `UpdateRequestMetadata`, `UpdateMetadataFails`, `Send`, `SendPanics` | `RunPodSandbox` from its early returns to the send on a full or closed channel |
| `StopPodSandbox`, `StopWithoutNamespace`, `DetachNetwork`, `DetachFails`, `DetachSkipped`, `Detached` | `StopPodSandbox` and `ExecPlugin` |
| `UpdateNetworkDeviceData` | the runner, with its writes to an entry that may be gone |
| `Prepare`, `PrepareFails`, `Rollback`, `Unprepare`, `UnprepareFails` | the hooks, as far as they change the pod manager and the metadata |
| the others | kubelet and runtime |

Four history variables name what the code gives up: `bypassed` (sandboxes the
plugin never saw start, or saw without their entry), `leaked` (sandboxes whose end
it never saw, or could not finish), `forgotten` (pods whose entry was dropped by a
rollback or lost in a restart), `overwritten` (metadata that a repeated prepare
set back).

**DeviceConfig** applies **VfConfig**, the resolution of configs, to claims that
take the same devices one after the other: driver, device nodes, interface name
and original driver of each prepared device, beside restarts that discover anew.
A claim that asks for the "default" driver leaves a device alone that is on any
driver but a DPDK one, as `BindDefaultDriver` does. `missed` are the devices whose
RDMA device was not there at the last discovery. `Overridden` are the parameters
that `Override` takes over; a config may set two more.

Definitions named as a *bug variant* stand beside some operations. They are not
part of any specification; they show, one per property, a plausible mistake that
the property would catch.

## 3. Runs

| Run | Shows |
|---|---|
| `lifecycle_faults` | Three pods with one claim each; `c1` has two devices, asks for a driver of its own for each and is used by two pods in turn, `c2` shares one of the devices. Up to three faults of every kind (13 kinds). `TypeOK`, `NativeWhenFree`, `OriginalDriverOnRecord`, `InterfaceNamesDistinct` hold. |
| `lifecycle_claims` | A pod with two claims, the first of which leaves one of its devices on its driver, and a second pod that reuses one; MULTUS mode; up to two faults. `PreparedIsUsable`, `RunningPodUndisturbed` and both liveness properties hold. Left out are the faults after which they do not: checkpoint write, pod CDI file, reboot (section 5). |
| `host_driver` | Three network drivers (one not installed), the DPDK drivers, four failing accesses. |
| `claim_status` | Two devices of this driver, one of another, three sandboxes, two claims of one name, three attempts, a channel of two, one fault. |
| `policy` | Two PFs with a VF each and a device of another class, two policies, two DeviceAttributes objects, two node labels; four changes and two faults, a query of discovery that fails among them (one that hides a VF, one that changes an attribute, one that fails the start); every config selects attributes. |
| `pod_network` | A pod with two claims, one with one claim, one without a network namespace; fourteen kinds of faults; a channel of one. Three of "a pod is scheduled" and "a fault happens", in any mix: two pods and a fault, or one pod and two faults. |
| `device_config` | Three devices of two requests, after boot on their vendor's driver, on vfio-pci, and on a driver that is neither; lists of up to four configs out of ten, those with errors included; two restarts. `ConfigPrecedence` orders configs of equal reach, those that name requests and those that name none each among themselves, and looks at the parameters in `Overridden`; `NodesMatchDriver` and `RdmaComesBack` are about the device afterwards. |
| `two_claims`, `checkpoint`, `names`, `policy_empty`, `policy_node` | Disagreements between code and what its comments or docs say (section 5). Each is expected to end in a violation. |

Bounds. Faults are bounded by `MaxFaults`: two suffice for "an operation fails,
and the recovery from it fails"; three add a crash or a lost answer. Two devices
in one claim are needed for a rollback over a list, two claims for a retry that
finds one done, two pods for the reuse of a claim, a third for a device that
changes claims. Three attempts let a conflict be followed by an error and a
success. Four changes let a policy come, change, go and meet a change of
attributes. The channel bounds 2 and 1 (100 in the code) let it be full with the
runner busy. Sandboxes are not bounded: each needs a pod or a fault. Four configs
let class and claim each have one for all requests and one for some. The real step count of the backoff and the channel size change
nothing in the argument; the theorems hold for every value.

Deadlock is not checked where the system may come to rest: when all pods are
gone, or all bounded changes are used up. In `host_driver` it is checked.

Fairness. `WF(CallStep)`: a call that has been started runs to its end, since
every access returns. `SF(StartPrepare)`, `SF(StartUnprepare)`: the kubelet's
pod workers retry a pod's call for ever; strong, because other pods' calls come
in between and the helper serialises them. `WF(RetryStep)`, `WF(RunnerStep)`:
the loops are goroutines that nothing blocks for ever. `WF(RunPodSandbox)`: a
blocked channel send goes on when there is room. `WF(ReconcileStep)`: the
controller's worker takes requests as long as there are any. `WF(Start)`,
`WF(ProcessStep)`: the DaemonSet's container is started again, and RunPlugin goes
on. `WF(HandlerStep)`, `WF(UpdateNetworkDeviceData)`: CNI calls return (they run
under the event's context) and the runner takes from the channel.
`WF(RuntimeStep(p))`, `WF(KubeletStep(p))`, for each pod: runtime and kubelet go
on with a pod whatever others do. Weak fairness is enough here: the handler that
one pod waits for is busy with another pod only finitely often. `Terminate`
has none: pods may run for ever. No fairness is
assumed of faults, users, the scheduler, other drivers or the informers' resync.

## 4. Theorems

Every safety property that a passing run checks is also proved, for any numbers of
pods, claims, devices, policies, configs, faults and retries and any capacity of
the channel. The proofs rest on the named assumptions on the constants:

| Assumption | Says |
|---|---|
| `DriverAssumption` | the default driver is an installed network driver; network and DPDK drivers differ |
| `HostAssumption` of HostDriver, of Discovery | `MaxFaults` is a number; the shape of the PCI inventory |
| `LifecycleAssumption` | types; calls and allocations are not empty; an allocation names a device once |
| `StatusAssumption` | types; this driver's devices are not other drivers' |
| `NetworkAssumption` | types; there are pods, each with claims of its own, each claim with devices |
| `PolicyAssumption` | policy attributes are not reserved ones (`UpdatePolicyDevices` skips these), filters are on attributes of discovery |
| `ConfigAssumption` | types; an allocation names a device once; devices have a driver after boot; probing without override never binds vfio-pci; requests have names |

Some theorems have a hypothesis on the constants besides, stated in the theorem:
without it the property is false of the code, and section 5 or the list below says
why. Each hypothesis holds of the instance whose run checks the property.

* `ClaimLifecycleProofs!TypeCorrect`: `Spec => []TypeOK`. TypeOK alone is not
  inductive: that `ci` and `di` stay inside their lists depends on the phase
  (in `bind`, `di` is one more than the length of `work`; an undo runs over
  `work`, which is never longer than the allocation; after the last device the
  phase changes), and on the stored entries being no longer than the allocation.
  `LifecycleInv` says this per phase and entry; `LifecycleInvariant` proves it,
  by one lemma per group of variables and one step per action.
* `LifecycleRecordProofs`: `NativeDriverWhenFree` and `OriginalDriverKept`, with
  every kind of fault. The invariant `RecordInv` accounts for every device: it is
  on its native driver, or `stranded`, or a live pod is its `Holder`, that is,
  either the pod's entry or the call in progress has it (`OnTheWay`: which
  positions of the allocation a call has bound, phase by phase, also half way
  through a rollback). Entries, checkpoint and the call's `work` have the native
  driver as original; an unprepare that forgets a claim has put all its devices
  back (`BackOK`); live pods share no device.
  Hypotheses: `OneClaim`, every pod has one claim (with two, `DeleteClaim` drops
  the other one's record: run `two_claims`), and `NativeBound`, every device had a
  driver (one without is recorded as `""`, for which `RestoreDeviceDriver` binds the
  default driver). `NamesDistinct` needs `OneClaim` alone (run `names`).
* `LifecycleUsableProofs`: `RunningPodsKeepTheirDrivers` and
  `PreparedStaysUsable`, for pods with any number of claims. `UsableInv` says that
  checkpoint and memory agree, that a claim has no entry while it is prepared and
  keeps it until it has been unprepared, that a prepare without error has entries
  for the claims it has passed, and that only terminating pods are unprepared;
  `GoodInv` adds how far the files and drivers of the claim in hand have come, and
  that every entry of a pod that has not ended is good for use. Hypotheses:
  `Quiet`, no checkpoint write and no write of the pod's CDI file fails and the
  node is not rebooted. After a failed checkpoint write an entry stays for devices
  that were put back (run `checkpoint`); after a failed pod CDI file, a repeated
  prepare rolls back a running pod's claims; after a reboot the checkpoint has
  entries for devices that are on their native drivers. The second theorem also
  needs `DisjointClaims`: the scheduler does not allocate one device to two claims
  of a pod.
* `HostDriverProofs`: `OverrideIsHarmless`, `RoundTripHolds` and
  `HostImplementsBinding`, the refinement `Spec => Atomic!Spec`. The invariant
  `HostInv` adds to the property `StepInv`, where the driver and the override
  are at each step of a call, and `RecordInv`, what the call and the claim have
  on record of the native driver. The refinement also needs `StartInv`, which
  relates each step to the binding at the start of the call; each returning
  step then maps to an outcome of DriverOutcomes, each other to a stutter.
* `ClaimStatusProofs`: `StatusStaysWithClaim`, `ForeignEntriesSurvive`,
  `NetworkDataStaysInOrder` and `StatusIsComplete`. `StatusInv` says what a
  writer's copy has to do with the object: its resourceVersion is never ahead; if
  it is equal to the object's, so are the foreign entries; its own entries and
  what it will reapply are of its claim. The third theorem needs `OrderInv`
  besides: queued sandboxes are in order and later than what is written or being
  written, and the prepare loop carries no network data. The fourth needs
  `CompleteInv`: unless something was given up, the network data of an attached
  pod is the last item queued, or what the runner's loop reapplies, or in the
  claim. That an older update can overwrite a newer prepare does no harm: the
  runner looks for entries, whoever wrote them.
* `PodNetworkProofs`: `StartedSandboxesAreAttached`, `StoppedSandboxesAreDetached`
  and `MetadataIsCurrent`. `NetworkInv` ties the event under way to the sandbox
  the runtime holds for it: what is not in `handler.todo` any more is attached (or
  detached), what is not in `handler.keys` is written, and it ties the entries of
  the pod manager, the checkpoint and the queue to the sandboxes that need them.
  Every sandbox has a number of its own, so that a late event or update is never
  taken for a later sandbox's.
* `PolicyAdvertisementProofs`: `DiscoveryIsKept`, `OnlyBareDevicesStay` and
  `PoolIsUpToDate`. The update is incremental; `PolicyInv` says what the updates
  before have left: a policy's attribute is set on a device exactly if
  `policyAttrKeys` has its key, and what a reconcile has read is current unless
  another one is pending. `OnlyBareDevicesStay` holds for all policies: the pool is
  right but for devices that have left it without an attribute to remove.
  `PoolIsUpToDate` has the hypothesis `SetsAttributes`, every config selects some
  attribute, which excludes just that case (run `policy_empty`).
* `DeviceConfigProofs`: `NodesMatchTheDriver`, `RdmaComesBackWithVendorDriver`,
  and `PrecedenceWithinReach`: `ConfigPrecedence` for lists of configs of any
  length and order. It says of driver, interface name and network that claim goes
  before class and later before earlier among configs of equal reach, and that a
  value that was set is missing only because a config of the other reach left it
  out. It does not say that configs for all requests reach every device, nor that
  the other two parameters are kept: the code does neither (findings 7 and 8).
  The code folds `Override` over the list. The induction over the list is by least counterexample: a set of positions at which a claim fails
  has a least one (`NatLessThanWellFounded`), and the step before it shows that it
  does not fail there.

The inductive invariants were also run through TLC on the instances of section 3
(the MC module extending the proof module for once, the invariant in its cfg); no
run of the project repeats this, since they are proved.

What stays with TLC: the liveness properties `ReservedPodsStart`,
`TerminatingPodsGo`, `RestoreSucceeds`, `PodsStart` (twice), `PodsEnd`,
`PluginComesBack` and `PoolConverges`, since fairness and ENABLED are outside the
prover.

## 5. Where code and documentation disagree

Each is a run that ends in a counterexample, or an entry under "findings".

1. `two_claims`: `DeleteClaim` drops the whole pod, so the second claim of a pod
   is never unprepared. No fault is needed.
2. `checkpoint`: a failed checkpoint write in `Set` leaves the entry behind; the
   retry answers "already prepared" for devices that were put back. A failed
   write of the pod's CDI file followed by a failing rollback, and a node reboot
   with the checkpoint intact, end in the same state.
3. `names`: interface names are counted from zero again in a retry.
4. `policy_empty`: a device without policy attributes is not noticed to leave
   the advertised set.
5. `policy_node`: node label changes are filtered out.

Without a run of their own, but in the model as the code has them:

6. A crash between bind and checkpoint makes the claim's driver the original one
   (ClaimLifecycle, `stranded`).
7. `VfConfig.Override` drops `addVhostMount` and `netAttachDefNamespace`, which the
   repository's README documents. `ConfigPrecedence` is about the other three
   parameters.
8. A config that names a request hides all configs that name none from it,
   although these apply "to all requests in the claim". What only they set is
   missing from the device; the second half of `ConfigPrecedence` allows just this.
9. The comment of `AttachNetwork` promises that a device already attached is
   skipped and that earlier results come with an error; neither is so.

Also met, as exceptions of properties: a failed republish is not repaired by the
retry (`unpublished`), a status write lost in a crash is not repeated
(`missed`), a device whose own driver is `igb_uio` or `uio_pci_generic` cannot
be restored (`RestoreSucceeds` excepts it); a plugin file that stays busy makes a
DEL succeed without being run (`leaked`); stopping a pod without a network
namespace is an error for ever (`PodsStart`, `PodsEnd` except such pods); a
prepare repeated after a kubelet restart sets the metadata of a running pod back
to what the runner has stored (`overwritten`); a restart while a device is on
vfio-pci takes its RDMA devices from later claims (`missed`); a device that is on
vfio-pci already gets its VFIO nodes only when the config names that driver, though
the comment at `pkg/devicestate/state.go:291` speaks of a device that is bound to
it (`NodesMatchDriver` excepts such devices).

## 6. Not modelled

* Contents of CDI files, environment variables, metadata attributes, CNI
  arguments and results: formatting.
* In ClaimLifecycle an `ifName` given in VfConfig: names there are the generated
  ones, DeviceConfig has both kinds. That given names are distinct is nobody's
  promise.
* In PodNetwork claims shared by two pods at once, which prepare refuses, and the
  inside of a prepare. In DeviceConfig two claims at a time.
* Failing VFIO and RDMA queries one by one: that something fails after the bind is
  the fault `post` of ClaimLifecycle; in Discovery each query fails on its own.
* Health service (a read-only probe), flags, API types, the options of the
  controller manager and of the kubelet plugin: no state.
* `EnsureVhostModulesLoaded` and the vhost mounts: no config reaches them (finding
  7).
* The data race between `UpdatePolicyDevices` and prepare on the attribute maps.

## 7. Plan

Done: DriverOutcomes, HostDriver and its refinement, PodManager, ClaimLifecycle,
ClaimStatus, Discovery and PolicyAdvertisement, PodNetwork, VfConfig and
DeviceConfig, and the proofs of section 4: all safety properties of the runs.

Next, in this order:

1. What holds for pods with several claims of the original drivers, where
   `NativeWhenFree` does not: for instance that an entry's record is the native
   driver as long as the entry is there.
2. What is left of `PreparedIsUsable` under each of the faults that `Quiet`
   excludes: after a reboot, that only drivers are amiss; after a failed write of
   the pod's CDI file, that pods which were never prepared again are not touched.
3. The step from which the liveness properties follow that is a safety property:
   a call in progress comes nearer to its end with every step (a measure over
   phase, `ci` and `di`), so that it takes boundedly many.
