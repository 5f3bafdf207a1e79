---------------------------- MODULE ClaimLifecycle ----------------------------
(***************************************************************************)
(* Preparing and unpreparing resource claims: pkg/driver/dra_hook.go, the  *)
(* device-state manager it calls (pkg/devicestate/state.go, deviceinfo.go) *)
(* and the CDI files it writes (pkg/cdi/cdi.go), over the pod manager and  *)
(* the host's driver bindings.                                             *)
(*                                                                         *)
(* The kubelet plugin helper serialises the calls, so there is at most one *)
(* call, a record that says how far it has come.  Every step of it is one  *)
(* access to a store outside the process (sysfs, CDI directory,            *)
(* device-info directory, checkpoint), which may fail, and the process may *)
(* die between any two steps.  The kubelet retries a call until it         *)
(* succeeds.                                                               *)
(***************************************************************************)
EXTENDS PodManager, DriverOutcomes, Naturals, Sequences, FiniteSets

CONSTANTS Devices,
          Uses,        \* Uses[p]: the claims of pod p, in the order of the call
          Results,     \* Results[c]: the devices allocated to claim c, in order
          Request,     \* Request[c][d]: config.Driver for device d of claim c
          Native,      \* Native[d]: the driver of device d before any claim
          MultusMode,  \* configuration mode MULTUS; STANDALONE otherwise
          FaultKinds,  \* the kinds of fault that may happen
          MaxFaults    \* and how many of them in one behaviour

VARIABLES driver,           \* driver[d]: the driver device d is bound to
          claimSpecs,       \* claims that have a CDI spec file
          podSpecs,         \* pods that have a CDI spec file
          deviceInfo,       \* devices that have a device-info file
          pod,              \* pod[p]: where pod p stands
          kubeletPrepared,  \* claims the kubelet holds for prepared
          call,             \* the call in progress
          faults,           \* faults so far
          stranded          \* devices whose native driver is no longer on record

hostVars == <<driver, stranded>>
fileVars == <<claimSpecs, podSpecs, deviceInfo>>
kubeletVars == <<pod, kubeletPrepared>>
vars == <<podManagerVars, hostVars, fileVars, kubeletVars, call, faults>>

AllFaults == {"api", "apply", "bind", "post", "restore", "info", "cdi",
              "checkpoint", "podspec", "lost", "kubelet", "crash", "reboot"}

ToSet(s) == {s[i] : i \in 1..Len(s)}
ClaimsOf(p) == ToSet(Uses[p])
DevicesOf(c) == ToSet(Results[c])

ASSUME LifecycleAssumption ==
    /\ Pods # {}
    /\ Uses \in [Pods -> Seq(Claims)] /\ \A p \in Pods : Uses[p] # <<>>
    /\ Results \in [Claims -> Seq(Devices)] /\ \A c \in Claims : Results[c] # <<>>
    /\ \A c \in Claims : \A i, j \in 1..Len(Results[c]) :
           Results[c][i] = Results[c][j] => i = j
    /\ Request \in [Claims -> [Devices -> Requests]]
    /\ Native \in [Devices -> Bindings]
    /\ MultusMode \in BOOLEAN
    /\ FaultKinds \subseteq AllFaults
    /\ MaxFaults \in Nat

(***************************************************************************)
(* Faults                                                                  *)
(***************************************************************************)

Fault(kind) ==
    /\ kind \in FaultKinds
    /\ faults < MaxFaults
    /\ faults' = faults + 1

NoFault == UNCHANGED faults

FaultIf(b, kind) == IF b THEN Fault(kind) ELSE NoFault

(***************************************************************************)
(* Calls                                                                   *)
(***************************************************************************)

PodStates == {"new", "reserved", "running", "terminating", "gone"}

Phases == {"idle", "claim", "bind", "finish", "undo", "abort", "abortInfo",
           "info", "spec", "set", "lookup", "cleanInfo", "restore", "unspec",
           "delete", "podspec", "return"}

\* What the model keeps of a PreparedDevice: OriginalDriver, the number in
\* IfName and whether the Multus resource name and device ID were there.
PreparedDevice == [orig : Bindings, ifName : Nat, info : BOOLEAN]

Calls == [phase  : Phases,               \* the next step
          op     : {"none", "prepare", "unprepare", "rollback"},
          pod    : Pods,
          from   : Pods,                 \* the pod of the entry being undone
          ci     : Nat,                  \* the claim, in Uses[pod]
          di     : Nat,                  \* the device, in Results[claim]
          work   : Seq(PreparedDevice),  \* the claim's prepared devices
          orig   : Bindings,             \* originalDriver of device di
          ifNameIndex : Nat,
          err    : BOOLEAN,              \* an error of this claim
          failed : BOOLEAN]              \* an error of some claim

Idle == [phase |-> "idle", op |-> "none", pod |-> CHOOSE p \in Pods : TRUE,
         from |-> CHOOSE p \in Pods : TRUE, ci |-> 1, di |-> 1, work |-> <<>>,
         orig |-> NoDriver, ifNameIndex |-> 0, err |-> FALSE, failed |-> FALSE]

Start(op, p) == [Idle EXCEPT !.op = op, !.pod = p,
                             !.phase = IF op = "prepare" THEN "claim" ELSE "lookup"]

\* The claim and the device that the call is at, and the driver asked for it.
Claim  == Uses[call.pod][call.ci]
Device == Results[Claim][call.di]
Asked  == Request[Claim][Device]

\* Bug variant of NextClaim: one claim too many.
NextClaimOffByOne(r) ==
    [r EXCEPT !.di = 1, !.work = <<>>, !.err = FALSE, !.ci = @ + 1,
              !.phase = IF r.op = "prepare" THEN "claim" ELSE "lookup"]

\* The loops over the claims of a call: the next one, or the code after the loop.
NextClaim(r) ==
    LET s == [r EXCEPT !.di = 1, !.work = <<>>, !.orig = NoDriver, !.err = FALSE]
    IN  IF r.ci < Len(Uses[r.pod])
        THEN [s EXCEPT !.ci = @ + 1,
                       !.phase = IF r.op = "prepare" THEN "claim" ELSE "lookup"]
        ELSE [s EXCEPT !.phase = IF r.op = "prepare" THEN "podspec" ELSE "return"]

\* Bug variants of FailClaim: the error is dropped; the whole call is rolled back.
FailClaimSilently(r) == NextClaim(r)
FailClaimRollback(r) ==
    IF r.op = "prepare" THEN [Start("rollback", r.pod) EXCEPT !.failed = TRUE]
                        ELSE NextClaim([r EXCEPT !.failed = TRUE])

\* The claim's result is an error; the loop goes on.
FailClaim(r) == NextClaim([r EXCEPT !.failed = TRUE])

\* Undo the devices prepared so far, from the first.
Abort(r) == [r EXCEPT !.phase = "abort", !.di = 1, !.orig = NoDriver]

Calling(phase) == call.phase = phase
-------------------------------------------------------------------------------
(***************************************************************************)
(* The kubelet, the scheduler and the API server                           *)
(***************************************************************************)

Live(p) == pod[p] \in {"reserved", "running", "terminating"}

\* The scheduler places a pod: its claims are allocated and reserved for it.
\* A device goes to one claim at a time and a claim to one pod at a time.
Reserve(p) ==
    /\ pod[p] = "new"
    /\ \A q \in Pods \ {p} : Live(q) =>
           \A c \in ClaimsOf(p), b \in ClaimsOf(q) : DevicesOf(c) \cap DevicesOf(b) = {}
    /\ pod' = [pod EXCEPT ![p] = "reserved"]
    /\ UNCHANGED <<podManagerVars, hostVars, fileVars, kubeletPrepared, call, faults>>

\* The kubelet calls with all claims of the pod until the call has succeeded.
StartPrepare(p) ==
    /\ Calling("idle")
    /\ pod[p] \in {"reserved", "running"}
    /\ ~(ClaimsOf(p) \subseteq kubeletPrepared)
    /\ call' = Start("prepare", p)
    /\ UNCHANGED <<podManagerVars, hostVars, fileVars, kubeletVars, faults>>

\* The pod is deleted, or ends.
Terminate(p) ==
    /\ pod[p] \in {"reserved", "running"}
    /\ pod' = [pod EXCEPT ![p] = "terminating"]
    /\ UNCHANGED <<podManagerVars, hostVars, fileVars, kubeletPrepared, call, faults>>

StartUnprepare(p) ==
    /\ Calling("idle")
    /\ pod[p] = "terminating"
    /\ call' = Start("unprepare", p)
    /\ UNCHANGED <<podManagerVars, hostVars, fileVars, kubeletVars, faults>>

\* A successful answer starts the pod, or lets it go: the API server then
\* releases its claims.
Answer ==
    /\ Calling("return") /\ ~call.failed
    /\ \/ /\ call.op = "prepare"
          /\ pod' = IF pod[call.pod] = "reserved"
                    THEN [pod EXCEPT ![call.pod] = "running"] ELSE pod
          /\ kubeletPrepared' = kubeletPrepared \cup ClaimsOf(call.pod)
       \/ /\ call.op = "unprepare"
          /\ pod' = [pod EXCEPT ![call.pod] = "gone"]
          /\ kubeletPrepared' = kubeletPrepared \ ClaimsOf(call.pod)
    /\ call' = Idle
    /\ UNCHANGED <<podManagerVars, hostVars, fileVars, faults>>

\* An error, or an answer that does not reach the kubelet.
AnswerError ==
    /\ Calling("return")
    /\ FaultIf(~call.failed, "lost")
    /\ call' = Idle
    /\ UNCHANGED <<podManagerVars, hostVars, fileVars, kubeletVars>>

\* The kubelet keeps "prepared" in memory only and calls again for the pods
\* it finds running.
KubeletRestart ==
    /\ kubeletPrepared # {}
    /\ Fault("kubelet")
    /\ kubeletPrepared' = {}
    /\ UNCHANGED <<podManagerVars, hostVars, fileVars, pod, call>>
-------------------------------------------------------------------------------
(***************************************************************************)
(* Preparing the claims of a call                                          *)
(***************************************************************************)

\* prepareResourceClaim gives up at once: the claim is not allocated, or not
\* reserved for exactly one pod.
RefuseClaim ==
    /\ Calling("claim")
    /\ Fault("api")
    /\ call' = FailClaim(call)
    /\ UNCHANGED <<podManagerVars, hostVars, fileVars, kubeletVars>>

\* Bug variant of AlreadyPrepared: preparing a claim twice is an error.
AlreadyPreparedIsError ==
    /\ Calling("claim")
    /\ Get(call.pod, Claim)
    /\ call' = FailClaim(call)
    /\ UNCHANGED <<podManagerVars, hostVars, fileVars, kubeletVars, faults>>

\* The pod manager has the claim: its devices are returned as they are.
AlreadyPrepared ==
    /\ Calling("claim")
    /\ Get(call.pod, Claim)
    /\ call' = NextClaim(call)
    /\ UNCHANGED <<podManagerVars, hostVars, fileVars, kubeletVars, faults>>

\* Bug variant of PrepareDevicesForClaim: a prepared claim is prepared again.
PrepareDevicesAgain ==
    /\ Calling("claim")
    /\ call' = [call EXCEPT !.phase = "bind"]
    /\ UNCHANGED <<podManagerVars, hostVars, fileVars, kubeletVars, faults>>

PrepareDevicesForClaim ==
    /\ Calling("claim")
    /\ ~Get(call.pod, Claim)
    /\ call' = [call EXCEPT !.phase = "bind"]
    /\ UNCHANGED <<podManagerVars, hostVars, fileVars, kubeletVars, faults>>

\* An error before the device is touched: configuration that does not decode,
\* unknown device, network attachment definition not found.
RejectDevice ==
    /\ Calling("bind")
    /\ Fault("apply")
    /\ call' = Abort(call)
    /\ UNCHANGED <<podManagerVars, hostVars, fileVars, kubeletVars>>

\* An error of BindDeviceDriver is returned as it is: what the call did to the
\* device stays, and originalDriver is dropped.
BindDevice ==
    /\ Calling("bind")
    /\ \E o \in BindDeviceDriver(driver[Device], Asked) :
           /\ FaultIf(o.fault, "bind")
           /\ driver' = [driver EXCEPT ![Device] = o.to]
           /\ call' = IF o.ok
                      THEN [call EXCEPT !.phase = "finish",
                                        !.orig = IF Asked = NoDriver THEN NoDriver
                                                 ELSE driver[Device]]
                      ELSE Abort(call)
           /\ stranded' = IF o.ok \/ o.to = Native[Device] THEN stranded
                          ELSE stranded \cup {Device}
    /\ UNCHANGED <<podManagerVars, fileVars, kubeletVars>>

\* Bug variant of FinishDevice: the interface index is not advanced.
FinishDeviceSameIndex ==
    /\ Calling("finish")
    /\ LET device == [orig |-> call.orig, info |-> FALSE, ifName |-> call.ifNameIndex]
           last == call.di = Len(Results[Claim])
       IN  call' = [call EXCEPT !.work = Append(@, device), !.orig = NoDriver,
                                !.di = IF last THEN 1 ELSE @ + 1,
                                !.phase = IF last THEN "info" ELSE "bind"]
    /\ UNCHANGED <<podManagerVars, hostVars, fileVars, kubeletVars, faults>>

\* The rest of applyConfigOnDevice.  The Multus attributes are read from the
\* device as the policies have it at this moment.
FinishDevice ==
    /\ Calling("finish")
    /\ \E info \in IF MultusMode THEN BOOLEAN ELSE {FALSE} :
           LET device == [orig |-> call.orig, info |-> info,
                          ifName |-> IF MultusMode THEN 0 ELSE call.ifNameIndex]
               last == call.di = Len(Results[Claim])
           IN  call' = [call EXCEPT !.work = Append(@, device),
                                    !.orig = NoDriver,
                                    !.ifNameIndex = IF MultusMode THEN @ ELSE @ + 1,
                                    !.di = IF last THEN 1 ELSE @ + 1,
                                    !.phase = IF last THEN "info" ELSE "bind"]
    /\ UNCHANGED <<podManagerVars, hostVars, fileVars, kubeletVars, faults>>

\* Kernel modules, VFIO files or RDMA devices are not what the device needs.
FailDevice ==
    /\ Calling("finish")
    /\ Fault("post")
    /\ call' = IF Asked = NoDriver THEN Abort(call) ELSE [call EXCEPT !.phase = "undo"]
    /\ UNCHANGED <<podManagerVars, hostVars, fileVars, kubeletVars>>

\* restoreDriverOnError
UndoDevice ==
    /\ Calling("undo")
    /\ \E o \in RestoreDeviceDriver(driver[Device], call.orig) :
           /\ FaultIf(o.fault, "restore")
           /\ driver' = [driver EXCEPT ![Device] = o.to]
           /\ stranded' = IF o.ok THEN stranded ELSE stranded \cup {Device}
    /\ call' = Abort(call)
    /\ UNCHANGED <<podManagerVars, fileVars, kubeletVars>>

\* unprepareDevices: a device that no driver was asked for is passed over.
Undone == call.di > Len(call.work)
Reverted == IF Asked = NoDriver THEN {Done(driver[Device])}
            ELSE RestoreDeviceDriver(driver[Device], call.work[call.di].orig)

\* The devices from this one on that a driver was asked for.
Remaining == {d \in {Results[Claim][i] : i \in call.di..Len(call.work)} :
                  Request[Claim][d] # NoDriver}

\* unprepareDevices on what was prepared of a claim that failed: it stops at
\* the first device it cannot restore.
AbortDevice ==
    /\ Calling("abort") /\ ~Undone
    /\ \E o \in Reverted :
           /\ FaultIf(o.fault, "restore")
           /\ driver' = [driver EXCEPT ![Device] = o.to]
           /\ call' = IF o.ok THEN [call EXCEPT !.di = @ + 1] ELSE FailClaim(call)
           /\ stranded' = IF o.ok THEN stranded ELSE stranded \cup Remaining
    /\ UNCHANGED <<podManagerVars, fileVars, kubeletVars>>

Aborted ==
    /\ Calling("abort") /\ Undone
    /\ call' = FailClaim(call)
    /\ UNCHANGED <<podManagerVars, hostVars, fileVars, kubeletVars, faults>>

\* The devices of the claim that have a device-info file of their own.
InfoDevices == {Results[Claim][i] : i \in {j \in 1..Len(call.work) : call.work[j].info}}

\* Every file is cleaned and then saved; the devices that fail are reported
\* together, after the others are done.
SyncDeviceInfo ==
    /\ Calling("info")
    /\ \/ /\ deviceInfo' = deviceInfo \cup InfoDevices
          /\ call' = [call EXCEPT !.phase = "spec"]
          /\ NoFault
       \/ /\ \E bad \in SUBSET InfoDevices \ {{}} : \E cleaned \in SUBSET bad :
                 deviceInfo' = (deviceInfo \ cleaned) \cup (InfoDevices \ bad)
          /\ call' = [call EXCEPT !.phase = "abortInfo"]
          /\ Fault("info")
    /\ UNCHANGED <<podManagerVars, hostVars, claimSpecs, podSpecs, kubeletVars>>

\* cleanDeviceInfoFilesForPreparedDevicesIfNeeded goes on past a failure.
CleanDeviceInfo(ok) ==
    IF ok
    THEN /\ deviceInfo' = deviceInfo \ InfoDevices
         /\ NoFault
    ELSE /\ \E kept \in SUBSET InfoDevices \ {{}} :
                deviceInfo' = deviceInfo \ (InfoDevices \ kept)
         /\ Fault("info")

AbortDeviceInfo ==
    /\ Calling("abortInfo")
    /\ \E ok \in BOOLEAN : CleanDeviceInfo(ok)
    /\ call' = Abort(call)
    /\ UNCHANGED <<podManagerVars, hostVars, claimSpecs, podSpecs, kubeletVars>>

CreateClaimSpecFile ==
    /\ Calling("spec")
    /\ \/ /\ claimSpecs' = claimSpecs \cup {Claim}
          /\ call' = [call EXCEPT !.phase = "set"]
          /\ NoFault
       \/ /\ UNCHANGED claimSpecs
          /\ call' = [call EXCEPT !.phase = "abortInfo"]
          /\ Fault("cdi")
    /\ UNCHANGED <<podManagerVars, hostVars, podSpecs, deviceInfo, kubeletVars>>

\* The status write that follows a successful Set is best effort and is the
\* subject of ClaimStatus.tla.  A failed Set leaves the entry in memory.
StoreClaim ==
    /\ Calling("set")
    /\ \/ /\ Set(call.pod, Claim, call.work, TRUE)
          /\ call' = NextClaim(call)
          /\ NoFault
       \/ /\ Set(call.pod, Claim, call.work, FALSE)
          /\ call' = [call EXCEPT !.phase = "cleanInfo", !.from = call.pod]
          /\ Fault("checkpoint")
    /\ UNCHANGED <<hostVars, fileVars, kubeletVars>>

\* After the claims: the spec file of the pod, from all devices the pod
\* manager has for it.  A failure rolls every claim of the call back.
CreateGlobalPodSpecFile ==
    /\ Calling("podspec")
    /\ HasDevices(call.pod)
    /\ \/ /\ podSpecs' = podSpecs \cup {call.pod}
          /\ call' = [call EXCEPT !.phase = "return"]
          /\ NoFault
       \/ /\ UNCHANGED podSpecs
          /\ call' = [Start("rollback", call.pod) EXCEPT !.failed = TRUE]
          /\ Fault("podspec")
    /\ UNCHANGED <<podManagerVars, hostVars, claimSpecs, deviceInfo, kubeletVars>>

NothingPrepared ==
    /\ Calling("podspec")
    /\ ~HasDevices(call.pod)
    /\ call' = [call EXCEPT !.phase = "return", !.failed = TRUE]
    /\ UNCHANGED <<podManagerVars, hostVars, fileVars, kubeletVars, faults>>
-------------------------------------------------------------------------------
(***************************************************************************)
(* Unpreparing: for the kubelet, in a rollback, and after a failed Set     *)
(***************************************************************************)

\* Bug variant of LookupClaim: an unknown claim is an error.
LookupClaimStrict ==
    /\ Calling("lookup")
    /\ IF PodsWithClaim(Claim) = {}
       THEN call' = FailClaim(call)
       ELSE \E p \in PodsWithClaim(Claim) :
                call' = [call EXCEPT !.phase = "cleanInfo", !.from = p,
                                     !.work = preparedClaims[p][Claim]]
    /\ UNCHANGED <<podManagerVars, hostVars, fileVars, kubeletVars, faults>>

\* unprepareResourceClaim: a claim the pod manager does not know is done.
LookupClaim ==
    /\ Calling("lookup")
    /\ IF PodsWithClaim(Claim) = {}
       THEN call' = NextClaim(call)
       ELSE \E p \in PodsWithClaim(Claim) :
                call' = [call EXCEPT !.phase = "cleanInfo", !.from = p,
                                     !.work = preparedClaims[p][Claim]]
    /\ UNCHANGED <<podManagerVars, hostVars, fileVars, kubeletVars, faults>>

\* Unprepare: the four parts are tried whatever became of the ones before.
UnprepareDeviceInfo ==
    /\ Calling("cleanInfo")
    /\ \E ok \in BOOLEAN :
           /\ CleanDeviceInfo(ok)
           /\ call' = [call EXCEPT !.phase = "restore", !.di = 1, !.err = ~ok]
    /\ UNCHANGED <<podManagerVars, hostVars, claimSpecs, podSpecs, kubeletVars>>

\* Bug variant of UnprepareDevice: a device that cannot be restored is skipped.
UnprepareDeviceLenient ==
    /\ Calling("restore") /\ ~Undone
    /\ \E o \in Reverted :
           /\ FaultIf(o.fault, "restore")
           /\ driver' = [driver EXCEPT ![Device] = o.to]
    /\ call' = [call EXCEPT !.di = @ + 1]
    /\ UNCHANGED <<podManagerVars, stranded, fileVars, kubeletVars>>

UnprepareDevice ==
    /\ Calling("restore") /\ ~Undone
    /\ \E o \in Reverted :
           /\ FaultIf(o.fault, "restore")
           /\ driver' = [driver EXCEPT ![Device] = o.to]
           /\ call' = IF o.ok THEN [call EXCEPT !.di = @ + 1]
                      ELSE [call EXCEPT !.phase = "unspec", !.err = TRUE, !.di = 1]
    /\ UNCHANGED <<podManagerVars, stranded, fileVars, kubeletVars>>

UnpreparedDevices ==
    /\ Calling("restore") /\ Undone
    /\ call' = [call EXCEPT !.phase = "unspec", !.di = 1]
    /\ UNCHANGED <<podManagerVars, hostVars, fileVars, kubeletVars, faults>>

\* The claim's spec file and that of the pod the devices were prepared for.
DeleteSpecFiles ==
    /\ Calling("unspec")
    /\ \E keepClaim, keepPod \in BOOLEAN :
           /\ claimSpecs' = IF keepClaim THEN claimSpecs ELSE claimSpecs \ {Claim}
           /\ podSpecs' = IF keepPod THEN podSpecs ELSE podSpecs \ {call.from}
           /\ FaultIf(keepClaim \/ keepPod, "cdi")
           /\ call' = IF call.op = "prepare" \/ call.err \/ keepClaim \/ keepPod
                      THEN FailClaim(call)
                      ELSE [call EXCEPT !.phase = "delete"]
    /\ UNCHANGED <<podManagerVars, hostVars, deviceInfo, kubeletVars>>

ForgetClaim ==
    /\ Calling("delete")
    /\ \/ /\ DeleteClaim(Claim, TRUE)
          /\ call' = NextClaim(call)
          /\ NoFault
       \/ /\ DeleteClaim(Claim, FALSE)
          /\ call' = FailClaim(call)
          /\ Fault("checkpoint")
    /\ UNCHANGED <<hostVars, fileVars, kubeletVars>>
-------------------------------------------------------------------------------
(***************************************************************************)
(* The process around the call                                             *)
(***************************************************************************)

\* The NRI runner records network data of a pod that has been started, at any
\* later time and beside any call: the checkpoint is written once more.
RecordNetworkData ==
    /\ ~MultusMode
    /\ \E p \in Pods : pod[p] \in {"running", "terminating", "gone"}
    /\ \/ UpdatePreparedDeviceNetworkData(TRUE) /\ NoFault
       \/ UpdatePreparedDeviceNetworkData(FALSE) /\ Fault("checkpoint")
    /\ UNCHANGED <<hostVars, fileVars, kubeletVars, call>>

\* Device d is held by an entry of a live pod.
HeldIn(map, d) == \E p \in Pods : Live(p) /\ \E c \in ClaimsOf(p) :
                      d \in DevicesOf(c) /\ map[p][c] # NoEntry

\* The process dies and comes back: the call is lost and memory is what the
\* checkpoint says.
Crash ==
    /\ Fault("crash")
    /\ Load
    /\ call' = Idle
    /\ stranded' = stranded \cup
           {d \in Devices : driver[d] # Native[d] /\ ~HeldIn(checkpoint, d)}
    /\ UNCHANGED <<driver, fileVars, kubeletVars>>

\* The node restarts: only the checkpoint survives.  /var/run is empty, the
\* devices have their native drivers and the kubelet prepares its pods anew.
Reboot ==
    /\ Fault("reboot")
    /\ Load
    /\ call' = Idle
    /\ driver' = Native
    /\ claimSpecs' = {} /\ podSpecs' = {} /\ deviceInfo' = {}
    /\ kubeletPrepared' = {}
    /\ UNCHANGED <<stranded, pod>>

Init ==
    /\ PodManagerInit
    /\ driver = Native
    /\ stranded = {}
    /\ claimSpecs = {} /\ podSpecs = {} /\ deviceInfo = {}
    /\ pod = [p \in Pods |-> "new"]
    /\ kubeletPrepared = {}
    /\ call = Idle
    /\ faults = 0

CallStep ==
    \/ RefuseClaim \/ AlreadyPrepared \/ PrepareDevicesForClaim
    \/ RejectDevice \/ BindDevice \/ FinishDevice \/ FailDevice \/ UndoDevice
    \/ AbortDevice \/ Aborted \/ SyncDeviceInfo \/ AbortDeviceInfo
    \/ CreateClaimSpecFile \/ StoreClaim \/ CreateGlobalPodSpecFile \/ NothingPrepared
    \/ LookupClaim \/ UnprepareDeviceInfo \/ UnprepareDevice \/ UnpreparedDevices
    \/ DeleteSpecFiles \/ ForgetClaim
    \/ Answer \/ AnswerError

Next ==
    \/ \E p \in Pods : Reserve(p) \/ StartPrepare(p) \/ Terminate(p) \/ StartUnprepare(p)
    \/ CallStep
    \/ KubeletRestart \/ RecordNetworkData \/ Crash \/ Reboot

\* A call runs to its end; the kubelet calls again for a pod that needs it,
\* however often the calls for other pods come in between.
Fairness ==
    /\ WF_vars(CallStep)
    /\ \A p \in Pods : SF_vars(StartPrepare(p)) /\ SF_vars(StartUnprepare(p))

Spec == Init /\ [][Next]_vars /\ Fairness
-------------------------------------------------------------------------------
TypeOK ==
    /\ preparedClaims \in [Pods -> [Claims -> Seq(PreparedDevice)]]
    /\ checkpoint \in [Pods -> [Claims -> Seq(PreparedDevice)]]
    /\ driver \in [Devices -> Bindings]
    /\ stranded \subseteq Devices
    /\ claimSpecs \subseteq Claims /\ podSpecs \subseteq Pods
    /\ deviceInfo \subseteq Devices
    /\ pod \in [Pods -> PodStates]
    /\ kubeletPrepared \subseteq Claims
    /\ call \in Calls
    /\ call.ci \in 1..Len(Uses[call.pod])
    /\ call.di \in 1..(Len(Results[Claim]) + 1)
    /\ faults \in 0..MaxFaults

\* A virtual function that no live pod has is on its native driver, whatever
\* failed and was retried on the way: unprepareDevices, prepareDevices and
\* restoreDriverOnError put it back before anybody forgets it.  Excepted are the
\* devices whose only record of that driver was lost: a crash before the
\* checkpoint is written, a bind or a rollback that fails half way.
NativeWhenFree ==
    \A d \in Devices \ stranded :
        (\A p \in Pods : Live(p) => \A c \in ClaimsOf(p) : d \notin DevicesOf(c))
            => driver[d] = Native[d]

\* What BindDeviceDriver recorded as OriginalDriver, in memory and in the
\* checkpoint, is the native driver: no retry, restart or reuse of a claim makes
\* the driver of an earlier claim the "original" one.
OriginalDriverOnRecord ==
    \A p \in Pods, c \in Claims : \A i \in 1..Len(Results[c]) :
        Request[c][Results[c][i]] # NoDriver /\ Results[c][i] \notin stranded =>
            /\ Get(p, c) => preparedClaims[p][c][i].orig = Native[Results[c][i]]
            /\ checkpoint[p][c] # NoEntry =>
                   checkpoint[p][c][i].orig = Native[Results[c][i]]

\* The interface names that one pod gets are distinct: ifNameIndex runs over
\* all devices of all claims of the pod.
InterfaceNamesDistinct ==
    ~MultusMode => \A p \in Pods : \A b, c \in ClaimsOf(p) :
        \A i \in 1..Len(preparedClaims[p][b]), j \in 1..Len(preparedClaims[p][c]) :
            preparedClaims[p][b][i].ifName = preparedClaims[p][c][j].ifName
                => b = c /\ i = j

\* A device is bound to what the claim asked for.
Serves(binding, req) ==
    CASE req = NoDriver  -> TRUE
      [] req = "default" -> binding \in NetDrivers
      [] OTHER           -> binding = req

\* Once the kubelet has been told that the claims of a pod are prepared, and
\* until the pod ends, all that the answer promises is there: the devices on the
\* driver they asked for, the CDI files the answer names, the device-info files,
\* and the entry in the checkpoint that unprepare will need.
PreparedIsUsable ==
    \A p \in Pods : pod[p] = "running" /\ ClaimsOf(p) \subseteq kubeletPrepared =>
        /\ p \in podSpecs
        /\ \A c \in ClaimsOf(p) :
              /\ c \in claimSpecs
              /\ Get(p, c) /\ checkpoint[p][c] = preparedClaims[p][c]
              /\ \A i \in 1..Len(Results[c]) :
                    /\ Serves(driver[Results[c][i]], Request[c][Results[c][i]])
                    /\ preparedClaims[p][c][i].info => Results[c][i] \in deviceInfo

\* No call, for this pod or for another, moves a device of a running pod to
\* another driver: prepareResourceClaim leaves an already prepared claim alone.
RunningPodUndisturbed ==
    [][\A p \in Pods : pod[p] = "running" /\ pod'[p] = "running" =>
          \A c \in ClaimsOf(p) : \A d \in DevicesOf(c) : driver'[d] = driver[d]]_vars

\* Unprepare can be retried until it succeeds: a pod that ends is let go.
TerminatingPodsGo == \A p \in Pods : pod[p] = "terminating" ~> pod[p] = "gone"

\* Prepare can be retried until it succeeds: a pod starts unless it is deleted.
ReservedPodsStart == \A p \in Pods : pod[p] = "reserved" ~> pod[p] # "reserved"
===============================================================================
