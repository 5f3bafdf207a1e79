-------------------------- MODULE ClaimLifecycleProofs ------------------------
(***************************************************************************)
(* Theorems about ClaimLifecycle: for any pods, claims, devices and        *)
(* drivers, and any number of faults of every kind.                        *)
(***************************************************************************)
EXTENDS ClaimLifecycle, TLAPS

\* The number of devices of the claim that the call r is at.
Size(r) == Len(Results[Uses[r.pod][r.ci]])

\* A call is at a claim of its pod and at a device of that claim: work holds the
\* devices before di while the claim is being prepared, and never more devices
\* than the claim has while it is being undone.
CallOK(r) ==
    /\ r \in Calls
    /\ r.ci \in 1..Len(Uses[r.pod])
    /\ Len(r.work) <= Size(r)
    /\ r.di \in 1..(Len(r.work) + 1)
    /\ r.phase \in {"idle", "claim", "lookup"} => r.di = 1 /\ r.work = <<>>
    /\ r.phase \in {"bind", "finish", "undo"} => r.di = Len(r.work) + 1 /\ r.di <= Size(r)

\* An entry of the pod manager, in memory or in the file.
EntriesOK(map) ==
    /\ map \in [Pods -> [Claims -> Seq(PreparedDevice)]]
    /\ \A p \in Pods, c \in Claims : Len(map[p][c]) <= Len(Results[c])

HostOK == driver \in [Devices -> Bindings] /\ stranded \subseteq Devices

FilesOK == claimSpecs \subseteq Claims /\ podSpecs \subseteq Pods /\ deviceInfo \subseteq Devices

KubeletOK == pod \in [Pods -> PodStates] /\ kubeletPrepared \subseteq Claims

LifecycleInv ==
    /\ CallOK(call)
    /\ EntriesOK(preparedClaims) /\ EntriesOK(checkpoint)
    /\ HostOK /\ FilesOK /\ KubeletOK
    /\ faults \in 0..MaxFaults

\* A pod's claim list names claims, and the claims name devices, so indices stay in range.
LEMMA SizeFacts ==
    ASSUME NEW p \in Pods, NEW i \in 1..Len(Uses[p])
    PROVE  /\ Uses[p][i] \in Claims
           /\ Results[Uses[p][i]] \in Seq(Devices)
           /\ Len(Results[Uses[p][i]]) \in Nat \ {0}
<1>1. Uses[p] \in Seq(Claims)
  BY LifecycleAssumption
<1>2. Uses[p][i] \in Claims
  BY <1>1
<1>3. Results[Uses[p][i]] \in Seq(Devices) /\ Results[Uses[p][i]] # <<>>
  BY <1>2, LifecycleAssumption
<1> QED
  BY <1>2, <1>3

\* Every pod uses at least one claim, so a kubelet call has a first claim to handle.
LEMMA PodFacts == ASSUME NEW p \in Pods PROVE 1 \in 1..Len(Uses[p])
<1>1. Uses[p] \in Seq(Claims) /\ Uses[p] # <<>>
  BY LifecycleAssumption
<1> QED
  BY <1>1

\* The result list a call starts with is well typed.
LEMMA EmptyWork == <<>> \in Seq(PreparedDevice) /\ Len(<<>>) = 0
  OBVIOUS

\* A device bound to nothing is a binding the host can have.
LEMMA NoDriverBinding == NoDriver \in Bindings
  BY DEF Bindings

\* The plugin between two calls satisfies the call invariant.
LEMMA IdleOK == CallOK(Idle)
<1>1. (CHOOSE p \in Pods : TRUE) \in Pods
  BY LifecycleAssumption
<1>2. Idle \in Calls
  BY <1>1, EmptyWork, NoDriverBinding DEF Idle, Calls, Phases
<1>3. Idle.pod \in Pods /\ Idle.ci = 1 /\ Idle.di = 1 /\ Idle.work = <<>> /\ Idle.phase = "idle"
  BY <1>1 DEF Idle
<1>4. 1 \in 1..Len(Uses[Idle.pod])
  BY <1>3, PodFacts
<1>5. Size(Idle) \in Nat \ {0}
  BY <1>3, <1>4, SizeFacts DEF Size
<1> QED
  BY <1>2, <1>3, <1>4, <1>5, EmptyWork DEF CallOK

\* A call that has just been accepted satisfies the call invariant.
LEMMA StartOK ==
    ASSUME NEW op \in {"prepare", "unprepare", "rollback"}, NEW p \in Pods,
           NEW f \in BOOLEAN
    PROVE  CallOK([Start(op, p) EXCEPT !.failed = f]) /\ CallOK(Start(op, p))
<1> DEFINE s == Start(op, p)
           t == [s EXCEPT !.failed = f]
<1>1. Idle \in Calls
  BY IdleOK DEF CallOK
<1>2. s = [Idle EXCEPT !.op = op, !.pod = p,
                       !.phase = IF op = "prepare" THEN "claim" ELSE "lookup"]
  BY DEF Start
<1> HIDE DEF s
<1>3. s \in Calls /\ t \in Calls
  BY <1>1, <1>2 DEF Calls, Phases
<1>4. /\ s.pod = p /\ s.ci = 1 /\ s.di = 1 /\ s.work = <<>>
      /\ s.phase \in {"claim", "lookup"}
  BY <1>1, <1>2 DEF Idle, Calls
<1>5. /\ t.pod = p /\ t.ci = 1 /\ t.di = 1 /\ t.work = <<>>
      /\ t.phase \in {"claim", "lookup"}
  BY <1>3, <1>4 DEF Calls
<1>6. 1 \in 1..Len(Uses[p]) /\ Len(Results[Uses[p][1]]) \in Nat \ {0}
  BY PodFacts, SizeFacts
<1> HIDE DEF t
<1>7. CallOK(s)
  BY <1>3, <1>4, <1>6, EmptyWork DEF CallOK, Size
<1>8. CallOK(t)
  BY <1>3, <1>5, <1>6, EmptyWork DEF CallOK, Size
<1> QED
  BY <1>7, <1>8 DEF s, t

\* Any step that leaves claim, device and work alone.
LEMMA MoveOK ==
    ASSUME NEW r, CallOK(r), NEW s \in Calls, s.pod = r.pod, s.ci = r.ci,
           s.work = r.work, s.di = r.di \/ s.di = 1,
           s.phase \notin {"idle", "claim", "lookup", "bind", "finish", "undo"}
    PROVE  CallOK(s)
  BY DEF CallOK, Size, Calls

\* Moving on to the call's next claim, or ending the call, keeps the call invariant.
LEMMA NextClaimOK == ASSUME NEW r, CallOK(r) PROVE CallOK(NextClaim(r))
<1> DEFINE s == [r EXCEPT !.di = 1, !.work = <<>>, !.orig = NoDriver, !.err = FALSE]
           ph1 == IF r.op = "prepare" THEN "claim" ELSE "lookup"
           ph2 == IF r.op = "prepare" THEN "podspec" ELSE "return"
           more == r.ci < Len(Uses[r.pod])
           t1 == [s EXCEPT !.ci = @ + 1, !.phase = ph1]
           t2 == [s EXCEPT !.phase = ph2]
<1>1. r \in Calls /\ r.ci \in 1..Len(Uses[r.pod]) /\ r.pod \in Pods
  BY DEF CallOK, Calls
<1>2. NextClaim(r) = IF more THEN t1 ELSE t2
  BY DEF NextClaim
<1>3. /\ s \in Calls /\ s.di = 1 /\ s.work = <<>> /\ s.pod = r.pod /\ s.ci = r.ci
  BY <1>1, EmptyWork, NoDriverBinding DEF Calls
<1>4. ph1 \in {"claim", "lookup"} /\ ph2 \in {"podspec", "return"}
  OBVIOUS
<1> HIDE DEF s, ph1, ph2
<1>5. CASE more
  <2>1. /\ t1 \in Calls /\ t1.pod = r.pod /\ t1.ci = r.ci + 1 /\ t1.di = 1
        /\ t1.work = <<>> /\ t1.phase = ph1
    <3>1. ph1 \in Phases /\ s.ci + 1 \in Nat /\ s.ci + 1 = r.ci + 1
      BY <1>1, <1>3, <1>4 DEF Phases, Calls
    <3> QED
      BY <1>3, <3>1 DEF Calls
  <2>2. r.ci + 1 \in 1..Len(Uses[r.pod])
    <3>1. Uses[r.pod] \in Seq(Claims)
      BY <1>1, LifecycleAssumption
    <3> QED
      BY <1>1, <1>5, <3>1
  <2>3. Size(t1) \in Nat \ {0}
    BY <1>1, <2>1, <2>2, SizeFacts DEF Size
  <2> HIDE DEF t1
  <2> QED
    BY <1>2, <1>4, <1>5, <2>1, <2>2, <2>3, EmptyWork DEF CallOK
<1>6. CASE ~more
  <2>1. /\ t2 \in Calls /\ t2.pod = r.pod /\ t2.ci = r.ci /\ t2.di = 1
        /\ t2.work = <<>> /\ t2.phase = ph2
    BY <1>1, <1>3, <1>4 DEF Calls, Phases
  <2>2. Size(t2) \in Nat \ {0}
    BY <1>1, <2>1, SizeFacts DEF Size
  <2> HIDE DEF t2
  <2> QED
    BY <1>1, <1>2, <1>4, <1>6, <2>1, <2>2, EmptyWork DEF CallOK
<1> QED
  BY <1>5, <1>6

\* Recording an error for the current claim and moving on keeps the call invariant.
LEMMA FailClaimOK == ASSUME NEW r, CallOK(r) PROVE CallOK(FailClaim(r))
<1> DEFINE s == [r EXCEPT !.failed = TRUE]
<1>1. /\ s \in Calls /\ s.pod = r.pod /\ s.ci = r.ci /\ s.di = r.di
      /\ s.work = r.work /\ s.phase = r.phase
  BY DEF CallOK, Calls
<1>2. FailClaim(r) = NextClaim(s)
  BY DEF FailClaim
<1> HIDE DEF s
<1>3. CallOK(s)
  BY <1>1 DEF CallOK, Size
<1> QED
  BY <1>2, <1>3, NextClaimOK

\* Turning to the rollback of the devices bound so far keeps the call invariant.
LEMMA AbortOK == ASSUME NEW r, CallOK(r) PROVE CallOK(Abort(r))
<1> DEFINE s == Abort(r)
<1>1. /\ s \in Calls /\ s.pod = r.pod /\ s.ci = r.ci /\ s.di = 1
      /\ s.work = r.work /\ s.phase = "abort"
  BY NoDriverBinding DEF CallOK, Calls, Abort, Phases
<1> HIDE DEF s
<1>2. CallOK(s)
  BY <1>1, MoveOK
<1> QED
  BY <1>2 DEF s
-------------------------------------------------------------------------------
\* What the call invariant says of the claim and the device being handled.
LEMMA CallFacts ==
    ASSUME CallOK(call)
    PROVE  /\ call \in Calls /\ call.pod \in Pods /\ Claim \in Claims
           /\ Results[Claim] \in Seq(Devices) /\ Len(Results[Claim]) \in Nat \ {0}
           /\ Size(call) = Len(Results[Claim])
           /\ call.work \in Seq(PreparedDevice) /\ Len(call.work) \in Nat
           /\ call.di \in Nat
           /\ \A i \in 1..Size(call) : Results[Claim][i] \in Devices
           /\ \A i \in 1..Len(call.work) : Results[Claim][i] \in Devices
           /\ \A i \in 1..Len(call.work) : call.work[i] \in PreparedDevice
           /\ \A d \in Devices : Request[Claim][d] \in Requests
<1>1. /\ call \in Calls /\ call.pod \in Pods /\ call.ci \in 1..Len(Uses[call.pod])
      /\ call.work \in Seq(PreparedDevice) /\ Len(call.work) <= Size(call)
      /\ call.di \in Nat
  BY DEF CallOK, Calls
<1>2. /\ Claim \in Claims /\ Results[Claim] \in Seq(Devices)
      /\ Len(Results[Claim]) \in Nat \ {0}
  BY <1>1, SizeFacts DEF Claim
<1>3. Size(call) = Len(Results[Claim])
  BY DEF Size, Claim
<1>4. Len(call.work) \in Nat /\ \A i \in 1..Len(call.work) : call.work[i] \in PreparedDevice
  BY <1>1
<1>5. \A i \in 1..Len(Results[Claim]) : Results[Claim][i] \in Devices
  BY <1>2
<1>6. \A i \in 1..Len(call.work) : i \in 1..Len(Results[Claim])
  BY <1>1, <1>2, <1>3, <1>4
<1>7. \A d \in Devices : Request[Claim][d] \in Requests
  BY <1>2, LifecycleAssumption
<1> QED
  BY <1>1, <1>2, <1>3, <1>4, <1>5, <1>6, <1>7

\* The devices a stored claim record lists are devices of the node.
LEMMA InfoDevicesFacts == ASSUME CallOK(call) PROVE InfoDevices \subseteq Devices
  BY CallFacts DEF InfoDevices

\* In the device loop, the device being handled is a device of the node.
LEMMA DeviceFacts ==
    ASSUME CallOK(call),
           call.phase \in {"bind", "finish", "undo"} \/ call.di <= Len(call.work)
    PROVE  Device \in Devices /\ call.di \in 1..Size(call)
<1>1. call.di \in 1..Size(call)
  BY CallFacts DEF CallOK
<1> QED
  BY <1>1, CallFacts DEF Device

\* Every outcome of the host's bind and restore helpers is a binding the host can have.
LEMMA OutcomeTo ==
    ASSUME NEW b \in Bindings
    PROVE  /\ \A req \in Requests : \A o \in BindDeviceDriver(b, req) : o.to \in Bindings
           /\ \A orig \in Bindings : \A o \in RestoreDeviceDriver(b, orig) :
                 o.to \in Bindings
<1>1. /\ DefaultDriver \in Bindings /\ NoDriver \in Bindings
      /\ Bindings = Drivers \cup {NoDriver} /\ Requests = Drivers \cup {NoDriver, "default"}
  BY DriverAssumption DEF Bindings, Drivers, Requests
<1>2. \A o \in BindDefaultDriver(b) : o.to \in Bindings
  BY <1>1 DEF BindDefaultDriver, Failed, Done
<1>3. ASSUME NEW drv \in Drivers, NEW o \in BindDriverByBusAndDevice(b, drv)
      PROVE  o.to \in Bindings
  <2>1. o.to \in {b, drv, NoDriver}
    <3>1. CASE ~ModuleKnown(drv)
      BY <1>3, <3>1 DEF BindDriverByBusAndDevice
    <3>2. CASE ModuleKnown(drv) /\ b = drv
      BY <1>3, <3>2 DEF BindDriverByBusAndDevice, Failed, Done
    <3>3. CASE ModuleKnown(drv) /\ b # drv /\ drv \in Installed
      BY <1>3, <3>3 DEF BindDriverByBusAndDevice, Failed, Done
    <3>4. CASE ModuleKnown(drv) /\ b # drv /\ drv \notin Installed
      BY <1>3, <3>4 DEF BindDriverByBusAndDevice, Failed, Done
    <3> QED
      BY <3>1, <3>2, <3>3, <3>4
  <2> QED
    BY <1>1, <2>1
<1>4. ASSUME NEW req \in Requests, NEW o \in BindDeviceDriver(b, req) PROVE o.to \in Bindings
  <2>1. CASE req = NoDriver
    BY <1>4, <2>1 DEF BindDeviceDriver, Done, NoDriver
  <2>2. CASE req = "default"
    BY <1>2, <1>4, <2>2 DEF BindDeviceDriver, NoDriver
  <2>3. CASE req # NoDriver /\ req # "default"
    BY <1>1, <1>3, <1>4, <2>3 DEF BindDeviceDriver
  <2> QED
    BY <2>1, <2>2, <2>3
<1>5. ASSUME NEW orig \in Bindings, NEW o \in RestoreDeviceDriver(b, orig)
      PROVE  o.to \in Bindings
  BY <1>1, <1>2, <1>3, <1>5 DEF RestoreDeviceDriver
<1> QED
  BY <1>4, <1>5

\* The invariant holds when the plugin first starts.
LEMMA LifecycleInit == Init => LifecycleInv
<1> SUFFICES ASSUME Init PROVE LifecycleInv
  OBVIOUS
<1>1. EntriesOK([p \in Pods |-> NoClaims])
  <2>1. \A c \in Claims : Results[c] \in Seq(Devices)
    BY LifecycleAssumption
  <2> QED
    BY <2>1, EmptyWork DEF EntriesOK, NoClaims, NoEntry
<1>2. CallOK(call)
  BY IdleOK DEF Init
<1>3. HostOK /\ FilesOK /\ KubeletOK /\ faults \in 0..MaxFaults
  BY LifecycleAssumption DEF Init, HostOK, FilesOK, KubeletOK, PodStates
<1> QED
  BY <1>1, <1>2, <1>3 DEF Init, PodManagerInit, LifecycleInv

\* No step injects more faults than the bound.
LEMMA FaultsNext == ASSUME LifecycleInv, Next PROVE faults' \in 0..MaxFaults
<1>1. faults' = faults \/ \E kind : Fault(kind)
  <2>1. ASSUME NEW p \in Pods,
               Reserve(p) \/ StartPrepare(p) \/ Terminate(p) \/ StartUnprepare(p)
        PROVE  faults' = faults
    BY <2>1 DEF Reserve, StartPrepare, Terminate, StartUnprepare
  <2>2. CASE Answer \/ AnswerError \/ KubeletRestart \/ RecordNetworkData \/ Crash \/ Reboot
    BY <2>2 DEF Answer, AnswerError, KubeletRestart, RecordNetworkData, Crash, Reboot,
                FaultIf, NoFault
  <2>3. CASE RefuseClaim \/ AlreadyPrepared \/ PrepareDevicesForClaim \/ RejectDevice
             \/ BindDevice \/ FinishDevice \/ FailDevice \/ UndoDevice \/ AbortDevice
             \/ Aborted
    BY <2>3 DEF RefuseClaim, AlreadyPrepared, PrepareDevicesForClaim, RejectDevice,
                BindDevice, FinishDevice, FailDevice, UndoDevice, AbortDevice, Aborted,
                FaultIf, NoFault
  <2>4. CASE SyncDeviceInfo \/ AbortDeviceInfo \/ CreateClaimSpecFile \/ StoreClaim
             \/ CreateGlobalPodSpecFile \/ NothingPrepared
    BY <2>4 DEF SyncDeviceInfo, AbortDeviceInfo, CreateClaimSpecFile, StoreClaim,
                CreateGlobalPodSpecFile, NothingPrepared, CleanDeviceInfo, NoFault
  <2>5. CASE LookupClaim \/ UnprepareDeviceInfo \/ UnprepareDevice \/ UnpreparedDevices
             \/ DeleteSpecFiles \/ ForgetClaim
    BY <2>5 DEF LookupClaim, UnprepareDeviceInfo, UnprepareDevice, UnpreparedDevices,
                DeleteSpecFiles, ForgetClaim, CleanDeviceInfo, FaultIf, NoFault
  <2> QED
    BY <2>1, <2>2, <2>3, <2>4, <2>5 DEF Next, CallStep
<1> QED
  BY <1>1, LifecycleAssumption DEF LifecycleInv, Fault
\* Every step keeps what the sysfs bindings and the stranded devices are made of.
LEMMA HostNext == ASSUME LifecycleInv, Next PROVE HostOK'
<1>1. CallOK(call) /\ driver \in [Devices -> Bindings] /\ stranded \subseteq Devices
  BY DEF LifecycleInv, HostOK
<1>2. ASSUME NEW orig \in Bindings, Device \in Devices,
             NEW o \in RestoreDeviceDriver(driver[Device], orig),
             driver' = [driver EXCEPT ![Device] = o.to]
      PROVE  driver' \in [Devices -> Bindings]
  BY <1>1, <1>2, OutcomeTo
<1>3. CASE BindDevice
  <2>1. Device \in Devices
    BY <1>1, <1>3, DeviceFacts DEF BindDevice, Calling
  <2>2. PICK o \in BindDeviceDriver(driver[Device], Asked) :
            /\ driver' = [driver EXCEPT ![Device] = o.to]
            /\ stranded' \in {stranded, stranded \cup {Device}}
    BY <1>3 DEF BindDevice
  <2>3. Asked \in Requests
    BY <1>1, <2>1, CallFacts DEF Asked
  <2> QED
    BY <1>1, <2>1, <2>2, <2>3, OutcomeTo DEF HostOK
<1>4. CASE UndoDevice
  <2>1. Device \in Devices /\ call.orig \in Bindings
    BY <1>1, <1>4, DeviceFacts DEF UndoDevice, Calling, CallOK, Calls
  <2>2. PICK o \in RestoreDeviceDriver(driver[Device], call.orig) :
            /\ driver' = [driver EXCEPT ![Device] = o.to]
            /\ stranded' \in {stranded, stranded \cup {Device}}
    BY <1>4 DEF UndoDevice
  <2> QED
    BY <1>1, <1>2, <2>1, <2>2 DEF HostOK
<1>5. CASE AbortDevice \/ UnprepareDevice
  <2>1. call.di <= Len(call.work)
    BY <1>1, <1>5, CallFacts DEF AbortDevice, UnprepareDevice, Undone
  <2>2. call.di \in 1..Len(call.work)
    BY <1>1, <2>1, CallFacts DEF CallOK
  <2>3. Device \in Devices /\ call.work[call.di] \in PreparedDevice
    BY <1>1, <2>1, <2>2, DeviceFacts, CallFacts
  <2>4. call.work[call.di].orig \in Bindings
    BY <2>3 DEF PreparedDevice
  <2>5. Remaining \subseteq Devices
    BY <1>1, <2>2, CallFacts DEF Remaining
  <2>6. PICK o \in Reverted : driver' = [driver EXCEPT ![Device] = o.to]
    BY <1>5 DEF AbortDevice, UnprepareDevice
  <2>7. stranded' \in {stranded, stranded \cup Remaining}
    BY <1>5 DEF AbortDevice, UnprepareDevice
  <2>8. driver' \in [Devices -> Bindings]
    <3>1. CASE Asked = NoDriver
      <4>1. o.to = driver[Device]
        BY <2>6, <3>1 DEF Reverted, Done
      <4> QED
        BY <1>1, <2>3, <2>6, <4>1
    <3>2. CASE Asked # NoDriver
      BY <1>2, <2>3, <2>4, <2>6, <3>2 DEF Reverted
    <3> QED
      BY <3>1, <3>2
  <2> QED
    BY <1>1, <2>5, <2>7, <2>8 DEF HostOK
<1>6. CASE Crash
  BY <1>1, <1>6 DEF Crash, HostOK
<1>7. CASE Reboot
  BY <1>1, <1>7, LifecycleAssumption DEF Reboot, HostOK
<1>8. CASE UNCHANGED hostVars
  BY <1>1, <1>8 DEF hostVars, HostOK
<1>9. \A p \in Pods : Reserve(p) \/ StartPrepare(p) \/ Terminate(p) \/ StartUnprepare(p)
          => UNCHANGED hostVars
  BY DEF Reserve, StartPrepare, Terminate, StartUnprepare
<1>10. RefuseClaim \/ AlreadyPrepared \/ PrepareDevicesForClaim \/ RejectDevice
          \/ FinishDevice \/ FailDevice \/ Aborted \/ SyncDeviceInfo \/ AbortDeviceInfo
          \/ CreateClaimSpecFile \/ StoreClaim \/ CreateGlobalPodSpecFile
          => UNCHANGED hostVars
  BY DEF RefuseClaim, AlreadyPrepared, PrepareDevicesForClaim, RejectDevice, FinishDevice,
         FailDevice, Aborted, SyncDeviceInfo, AbortDeviceInfo, CreateClaimSpecFile,
         StoreClaim, CreateGlobalPodSpecFile
<1>11. NothingPrepared \/ LookupClaim \/ UnprepareDeviceInfo \/ UnpreparedDevices
          \/ DeleteSpecFiles \/ ForgetClaim \/ Answer \/ AnswerError \/ KubeletRestart
          \/ RecordNetworkData => UNCHANGED hostVars
  BY DEF NothingPrepared, LookupClaim, UnprepareDeviceInfo, UnpreparedDevices,
         DeleteSpecFiles, ForgetClaim, Answer, AnswerError, KubeletRestart,
         RecordNetworkData
<1> QED
  BY <1>3, <1>4, <1>5, <1>6, <1>7, <1>8, <1>9, <1>10, <1>11 DEF Next, CallStep

\* Every step keeps the CDI spec files and the device-info files those of claims, pods and devices of the node.
LEMMA FilesNext == ASSUME LifecycleInv, Next PROVE FilesOK'
<1>1. /\ CallOK(call) /\ FilesOK /\ Claim \in Claims /\ call.pod \in Pods
      /\ InfoDevices \subseteq Devices
  BY CallFacts, InfoDevicesFacts DEF LifecycleInv
<1>2. CASE SyncDeviceInfo
  BY <1>1, <1>2 DEF SyncDeviceInfo, FilesOK
<1>3. CASE AbortDeviceInfo \/ UnprepareDeviceInfo
  <2>1. deviceInfo' \subseteq deviceInfo /\ UNCHANGED <<claimSpecs, podSpecs>>
    BY <1>3 DEF AbortDeviceInfo, UnprepareDeviceInfo, CleanDeviceInfo
  <2> QED
    BY <1>1, <2>1 DEF FilesOK
<1>4. CASE CreateClaimSpecFile
  BY <1>1, <1>4 DEF CreateClaimSpecFile, FilesOK
<1>5. CASE CreateGlobalPodSpecFile
  BY <1>1, <1>5 DEF CreateGlobalPodSpecFile, FilesOK
<1>6. CASE DeleteSpecFiles
  BY <1>1, <1>6 DEF DeleteSpecFiles, FilesOK
<1>7. CASE Reboot
  BY <1>7 DEF Reboot, FilesOK
<1>8. CASE UNCHANGED fileVars
  BY <1>1, <1>8 DEF fileVars, FilesOK
<1>9. \A p \in Pods : Reserve(p) \/ StartPrepare(p) \/ Terminate(p) \/ StartUnprepare(p)
          => UNCHANGED fileVars
  BY DEF Reserve, StartPrepare, Terminate, StartUnprepare
<1>10. RefuseClaim \/ AlreadyPrepared \/ PrepareDevicesForClaim \/ RejectDevice
          \/ BindDevice \/ FinishDevice \/ FailDevice \/ UndoDevice \/ AbortDevice
          \/ Aborted \/ StoreClaim => UNCHANGED fileVars
  BY DEF RefuseClaim, AlreadyPrepared, PrepareDevicesForClaim, RejectDevice, BindDevice,
         FinishDevice, FailDevice, UndoDevice, AbortDevice, Aborted, StoreClaim
<1>11. NothingPrepared \/ LookupClaim \/ UnprepareDevice \/ UnpreparedDevices
          \/ ForgetClaim \/ Answer \/ AnswerError \/ KubeletRestart
          \/ RecordNetworkData \/ Crash => UNCHANGED fileVars
  BY DEF NothingPrepared, LookupClaim, UnprepareDevice, UnpreparedDevices, ForgetClaim,
         Answer, AnswerError, KubeletRestart, RecordNetworkData, Crash
<1> QED
  BY <1>2, <1>3, <1>4, <1>5, <1>6, <1>7, <1>8, <1>9, <1>10, <1>11 DEF Next, CallStep

\* Every step keeps the kubelet's view of the pods well typed.
LEMMA KubeletNext == ASSUME LifecycleInv, Next PROVE KubeletOK'
<1>1. KubeletOK /\ CallOK(call)
  BY DEF LifecycleInv
<1>2. ASSUME NEW p \in Pods, Reserve(p) \/ Terminate(p) PROVE KubeletOK'
  BY <1>1, <1>2 DEF Reserve, Terminate, KubeletOK, PodStates
<1>3. CASE Answer
  <2>1. call.pod \in Pods /\ ClaimsOf(call.pod) \subseteq Claims
    <3>1. call.pod \in Pods
      BY <1>1, CallFacts
    <3>2. Uses[call.pod] \in Seq(Claims)
      BY <3>1, LifecycleAssumption
    <3> QED
      BY <3>1, <3>2 DEF ClaimsOf, ToSet
  <2> QED
    BY <1>1, <1>3, <2>1 DEF Answer, KubeletOK, PodStates
<1>4. CASE KubeletRestart \/ Reboot
  BY <1>1, <1>4 DEF KubeletRestart, Reboot, KubeletOK
<1>5. CASE UNCHANGED kubeletVars
  BY <1>1, <1>5 DEF kubeletVars, KubeletOK
<1>6. \A p \in Pods : StartPrepare(p) \/ StartUnprepare(p) => UNCHANGED kubeletVars
  BY DEF StartPrepare, StartUnprepare
<1>7. RefuseClaim \/ AlreadyPrepared \/ PrepareDevicesForClaim \/ RejectDevice
          \/ BindDevice \/ FinishDevice \/ FailDevice \/ UndoDevice \/ AbortDevice
          \/ Aborted \/ SyncDeviceInfo \/ AbortDeviceInfo \/ CreateClaimSpecFile
          => UNCHANGED kubeletVars
  BY DEF RefuseClaim, AlreadyPrepared, PrepareDevicesForClaim, RejectDevice, BindDevice,
         FinishDevice, FailDevice, UndoDevice, AbortDevice, Aborted, SyncDeviceInfo,
         AbortDeviceInfo, CreateClaimSpecFile
<1>8. StoreClaim \/ CreateGlobalPodSpecFile \/ NothingPrepared \/ LookupClaim
          \/ UnprepareDeviceInfo \/ UnprepareDevice \/ UnpreparedDevices \/ DeleteSpecFiles
          \/ ForgetClaim \/ AnswerError \/ RecordNetworkData \/ Crash
          => UNCHANGED kubeletVars
  BY DEF StoreClaim, CreateGlobalPodSpecFile, NothingPrepared, LookupClaim,
         UnprepareDeviceInfo, UnprepareDevice, UnpreparedDevices, DeleteSpecFiles,
         ForgetClaim, AnswerError, RecordNetworkData, Crash
<1> QED
  BY <1>2, <1>3, <1>4, <1>5, <1>6, <1>7, <1>8 DEF Next, CallStep

\* Every step keeps the prepared-claim records well formed, in memory and in the checkpoint.
LEMMA EntriesNext ==
    ASSUME LifecycleInv, Next PROVE EntriesOK(preparedClaims') /\ EntriesOK(checkpoint')
<1>1. EntriesOK(preparedClaims) /\ EntriesOK(checkpoint) /\ CallOK(call)
  BY DEF LifecycleInv
<1>2. ASSUME EntriesOK(preparedClaims'), NEW ok \in BOOLEAN, syncToCheckpoint(ok)
      PROVE  EntriesOK(checkpoint')
  BY <1>1, <1>2 DEF syncToCheckpoint
<1>3. CASE StoreClaim
  <2>1. PICK ok \in BOOLEAN : Set(call.pod, Claim, call.work, ok)
    BY <1>3 DEF StoreClaim
  <2>2. /\ call.pod \in Pods /\ Claim \in Claims /\ call.work \in Seq(PreparedDevice)
        /\ Len(call.work) <= Len(Results[Claim])
    BY <1>1, CallFacts DEF CallOK
  <2>3. preparedClaims' = [preparedClaims EXCEPT ![call.pod] =
                               [preparedClaims[call.pod] EXCEPT ![Claim] = call.work]]
    BY <1>1, <2>1, <2>2 DEF Set, EntriesOK
  <2>4. preparedClaims' \in [Pods -> [Claims -> Seq(PreparedDevice)]]
    BY <1>1, <2>2, <2>3 DEF EntriesOK
  <2>5. ASSUME NEW p \in Pods, NEW c \in Claims
        PROVE  Len(preparedClaims'[p][c]) <= Len(Results[c])
    <3>1. CASE p = call.pod /\ c = Claim
      BY <1>1, <2>2, <2>3, <3>1 DEF EntriesOK
    <3>2. CASE ~(p = call.pod /\ c = Claim)
      <4>1. preparedClaims'[p][c] = preparedClaims[p][c]
        BY <1>1, <2>3, <3>2 DEF EntriesOK
      <4> QED
        BY <1>1, <4>1 DEF EntriesOK
    <3> QED
      BY <3>1, <3>2
  <2>6. EntriesOK(preparedClaims')
    BY <2>4, <2>5 DEF EntriesOK
  <2> QED
    BY <1>2, <2>1, <2>6 DEF Set
<1>4. CASE ForgetClaim
  <2>1. PICK ok \in BOOLEAN : DeleteClaim(Claim, ok)
    BY <1>4 DEF ForgetClaim
  <2>2. PICK p \in Pods : preparedClaims' = [preparedClaims EXCEPT ![p] = NoClaims]
    BY <2>1 DEF DeleteClaim, PodsWithClaim
  <2>3. /\ NoClaims \in [Claims -> Seq(PreparedDevice)]
        /\ \A c \in Claims : NoClaims[c] = <<>> /\ Len(Results[c]) \in Nat
    <3>1. \A c \in Claims : Results[c] \in Seq(Devices)
      BY LifecycleAssumption
    <3> QED
      BY <3>1, EmptyWork DEF NoClaims, NoEntry
  <2>4. preparedClaims' \in [Pods -> [Claims -> Seq(PreparedDevice)]]
    BY <1>1, <2>2, <2>3 DEF EntriesOK
  <2>5. ASSUME NEW q \in Pods, NEW c \in Claims
        PROVE  Len(preparedClaims'[q][c]) <= Len(Results[c])
    <3>1. CASE q = p
      <4>1. preparedClaims'[q][c] = <<>>
        BY <1>1, <2>2, <2>3, <3>1 DEF EntriesOK
      <4> QED
        BY <2>3, <4>1, EmptyWork
    <3>2. CASE q # p
      <4>1. preparedClaims'[q] = preparedClaims[q]
        BY <1>1, <2>2, <3>2 DEF EntriesOK
      <4> QED
        BY <1>1, <4>1 DEF EntriesOK
    <3> QED
      BY <3>1, <3>2
  <2>6. EntriesOK(preparedClaims')
    BY <2>4, <2>5 DEF EntriesOK
  <2>7. syncToCheckpoint(ok)
    BY <2>1 DEF DeleteClaim
  <2> QED
    BY <1>2, <2>6, <2>7
<1>5. CASE RecordNetworkData
  <2>1. PICK ok \in BOOLEAN : UpdatePreparedDeviceNetworkData(ok)
    BY <1>5 DEF RecordNetworkData
  <2> QED
    BY <1>1, <1>2, <2>1 DEF UpdatePreparedDeviceNetworkData
<1>6. CASE Crash \/ Reboot
  BY <1>1, <1>6 DEF Crash, Reboot, Load
<1>7. CASE UNCHANGED podManagerVars
  BY <1>1, <1>7 DEF podManagerVars
<1>8. \A p \in Pods : Reserve(p) \/ StartPrepare(p) \/ Terminate(p) \/ StartUnprepare(p)
          => UNCHANGED podManagerVars
  BY DEF Reserve, StartPrepare, Terminate, StartUnprepare
<1>9. RefuseClaim \/ AlreadyPrepared \/ PrepareDevicesForClaim \/ RejectDevice
          \/ BindDevice \/ FinishDevice \/ FailDevice \/ UndoDevice \/ AbortDevice
          \/ Aborted \/ SyncDeviceInfo \/ AbortDeviceInfo \/ CreateClaimSpecFile
          => UNCHANGED podManagerVars
  BY DEF RefuseClaim, AlreadyPrepared, PrepareDevicesForClaim, RejectDevice, BindDevice,
         FinishDevice, FailDevice, UndoDevice, AbortDevice, Aborted, SyncDeviceInfo,
         AbortDeviceInfo, CreateClaimSpecFile
<1>10. CreateGlobalPodSpecFile \/ NothingPrepared \/ LookupClaim
          \/ UnprepareDeviceInfo \/ UnprepareDevice \/ UnpreparedDevices \/ DeleteSpecFiles
          \/ Answer \/ AnswerError \/ KubeletRestart => UNCHANGED podManagerVars
  BY DEF CreateGlobalPodSpecFile, NothingPrepared, LookupClaim,
         UnprepareDeviceInfo, UnprepareDevice, UnpreparedDevices, DeleteSpecFiles,
         Answer, AnswerError, KubeletRestart
<1> QED
  BY <1>3, <1>4, <1>5, <1>6, <1>7, <1>8, <1>9, <1>10 DEF Next, CallStep
\* Appending a prepared device to the result keeps the call invariant.
LEMMA FinishDeviceOK == ASSUME LifecycleInv, FinishDevice PROVE CallOK(call')
<1>1. /\ CallOK(call) /\ call \in Calls /\ call.phase = "finish"
      /\ call.di = Len(call.work) + 1 /\ call.di <= Size(call)
  BY DEF LifecycleInv, CallOK, FinishDevice, Calling
<1>2. PICK info \in BOOLEAN :
          LET device == [orig |-> call.orig, info |-> info,
                         ifName |-> IF MultusMode THEN 0 ELSE call.ifNameIndex]
              last == call.di = Len(Results[Claim])
          IN  call' = [call EXCEPT !.work = Append(@, device),
                                   !.orig = NoDriver,
                                   !.ifNameIndex = IF MultusMode THEN @ ELSE @ + 1,
                                   !.di = IF last THEN 1 ELSE @ + 1,
                                   !.phase = IF last THEN "info" ELSE "bind"]
  BY DEF FinishDevice
<1> DEFINE device == [orig |-> call.orig, info |-> info,
                      ifName |-> IF MultusMode THEN 0 ELSE call.ifNameIndex]
           last == call.di = Len(Results[Claim])
           w == Append(call.work, device)
           n == IF MultusMode THEN call.ifNameIndex ELSE call.ifNameIndex + 1
           d == IF last THEN 1 ELSE call.di + 1
           ph == IF last THEN "info" ELSE "bind"
<1>3. call' = [call EXCEPT !.work = w, !.orig = NoDriver, !.ifNameIndex = n, !.di = d,
                           !.phase = ph]
  BY <1>1, <1>2 DEF Calls
<1>4. device \in PreparedDevice /\ n \in Nat
  BY <1>1 DEF PreparedDevice, Calls
<1> HIDE DEF device
<1>5. w \in Seq(PreparedDevice) /\ Len(w) = Len(call.work) + 1 /\ d \in Nat /\ ph \in Phases
  BY <1>1, <1>4, CallFacts DEF Phases
<1> HIDE DEF n, w
<1>6. d = (IF last THEN 1 ELSE Len(w) + 1) /\ ph = (IF last THEN "info" ELSE "bind")
  BY <1>1, <1>5
<1>7. last => Len(w) = Size(call)
  BY <1>1, <1>5, CallFacts
<1>8. ~last => Len(w) + 1 <= Size(call)
  BY <1>1, <1>5, CallFacts
<1> HIDE DEF d, ph, last
<1>9. /\ call' \in Calls /\ call'.pod = call.pod /\ call'.ci = call.ci /\ call'.work = w
      /\ call'.di = d /\ call'.phase = ph
  BY <1>1, <1>3, <1>4, <1>5, NoDriverBinding DEF Calls
<1>10. Size(call') = Size(call) /\ Size(call) \in Nat /\ Len(w) \in Nat
  BY <1>1, <1>5, <1>9, CallFacts DEF Size
<1> QED
  BY <1>1, <1>5, <1>6, <1>7, <1>8, <1>9, <1>10 DEF CallOK

\* Every step keeps the call invariant: one case per action of the plugin.
LEMMA CallNext == ASSUME LifecycleInv, Next PROVE CallOK(call')
<1>1. /\ CallOK(call) /\ call \in Calls /\ call.pod \in Pods /\ Claim \in Claims
  BY CallFacts DEF LifecycleInv
<1>2. ASSUME NEW p \in Pods, StartPrepare(p) \/ StartUnprepare(p) PROVE CallOK(call')
  BY <1>2, StartOK DEF StartPrepare, StartUnprepare
<1>3. CASE Answer \/ AnswerError \/ Crash \/ Reboot
  BY <1>3, IdleOK DEF Answer, AnswerError, Crash, Reboot
<1>4. CASE RefuseClaim \/ AlreadyPrepared \/ Aborted
  BY <1>1, <1>4, NextClaimOK, FailClaimOK DEF RefuseClaim, AlreadyPrepared, Aborted
<1>5. CASE RejectDevice \/ UndoDevice \/ AbortDeviceInfo
  BY <1>1, <1>5, AbortOK DEF RejectDevice, UndoDevice, AbortDeviceInfo
<1>6. CASE PrepareDevicesForClaim
  <2>1. call' = [call EXCEPT !.phase = "bind"] /\ call.phase = "claim"
    BY <1>6 DEF PrepareDevicesForClaim, Calling
  <2>2. /\ call' \in Calls /\ call'.pod = call.pod /\ call'.ci = call.ci
        /\ call'.di = call.di /\ call'.work = call.work /\ call'.phase = "bind"
    BY <1>1, <2>1 DEF Calls, Phases
  <2>3. call.di = 1 /\ call.work = <<>> /\ Size(call) \in Nat \ {0}
    BY <1>1, <2>1, CallFacts DEF CallOK
  <2> QED
    BY <1>1, <2>2, <2>3, EmptyWork DEF CallOK, Size
<1>7. CASE BindDevice
  <2>1. CASE call' = Abort(call)
    BY <1>1, <2>1, AbortOK
  <2>2. CASE call' # Abort(call)
    <3> DEFINE orig == IF Asked = NoDriver THEN NoDriver ELSE driver[Device]
    <3>1. call' = [call EXCEPT !.phase = "finish", !.orig = orig] /\ call.phase = "bind"
      BY <1>7, <2>2 DEF BindDevice, Calling
    <3>2. orig \in Bindings
      BY <1>1, <3>1, DeviceFacts, NoDriverBinding DEF LifecycleInv, HostOK
    <3> HIDE DEF orig
    <3>3. /\ call' \in Calls /\ call'.pod = call.pod /\ call'.ci = call.ci
          /\ call'.di = call.di /\ call'.work = call.work /\ call'.phase = "finish"
      BY <1>1, <3>1, <3>2 DEF Calls, Phases
    <3> QED
      BY <1>1, <3>1, <3>3 DEF CallOK, Size
  <2> QED
    BY <2>1, <2>2
<1>8. CASE FinishDevice
  BY <1>8, FinishDeviceOK
<1>9. CASE FailDevice
  <2>1. CASE call' = Abort(call)
    BY <1>1, <2>1, AbortOK
  <2>2. CASE call' # Abort(call)
    <3>1. call' = [call EXCEPT !.phase = "undo"] /\ call.phase = "finish"
      BY <1>9, <2>2 DEF FailDevice, Calling
    <3>2. /\ call' \in Calls /\ call'.pod = call.pod /\ call'.ci = call.ci
          /\ call'.di = call.di /\ call'.work = call.work /\ call'.phase = "undo"
      BY <1>1, <3>1 DEF Calls, Phases
    <3> QED
      BY <1>1, <3>1, <3>2 DEF CallOK, Size
  <2> QED
    BY <2>1, <2>2
<1>10. CASE AbortDevice \/ UnprepareDevice
  <2>1. /\ call.di \in 1..Len(call.work) /\ call.phase \in {"abort", "restore"}
        /\ \/ call' = [call EXCEPT !.di = @ + 1]
           \/ call' = FailClaim(call)
           \/ call' = [call EXCEPT !.phase = "unspec", !.err = TRUE, !.di = 1]
    BY <1>1, <1>10, CallFacts DEF AbortDevice, UnprepareDevice, Undone, Calling, CallOK
  <2>2. CASE call' = [call EXCEPT !.di = @ + 1]
    <3>1. /\ call' \in Calls /\ call'.pod = call.pod /\ call'.ci = call.ci
          /\ call'.di = call.di + 1 /\ call'.work = call.work /\ call'.phase = call.phase
      BY <1>1, <2>2 DEF Calls
    <3> QED
      BY <1>1, <2>1, <3>1 DEF CallOK, Size
  <2>3. CASE call' = FailClaim(call)
    BY <1>1, <2>3, FailClaimOK
  <2>4. CASE call' = [call EXCEPT !.phase = "unspec", !.err = TRUE, !.di = 1]
    <3>1. /\ call' \in Calls /\ call'.pod = call.pod /\ call'.ci = call.ci
          /\ call'.di = 1 /\ call'.work = call.work /\ call'.phase = "unspec"
      BY <1>1, <2>4 DEF Calls, Phases
    <3> QED
      BY <1>1, <3>1, MoveOK
  <2> QED
    BY <2>1, <2>2, <2>3, <2>4
<1>11. ASSUME NEW ph \in {"spec", "abortInfo", "set", "delete", "return"},
              call' = [call EXCEPT !.phase = ph]
       PROVE  CallOK(call')
  <2>1. /\ call' \in Calls /\ call'.pod = call.pod /\ call'.ci = call.ci
        /\ call'.di = call.di /\ call'.work = call.work /\ call'.phase = ph
    BY <1>1, <1>11 DEF Calls, Phases
  <2> QED
    BY <1>1, <2>1, MoveOK
<1>12. CASE SyncDeviceInfo \/ CreateClaimSpecFile
  BY <1>11, <1>12 DEF SyncDeviceInfo, CreateClaimSpecFile
<1>13. CASE StoreClaim
  <2>1. CASE call' = NextClaim(call)
    BY <1>1, <2>1, NextClaimOK
  <2>2. CASE call' = [call EXCEPT !.phase = "cleanInfo", !.from = call.pod]
    <3>1. /\ call' \in Calls /\ call'.pod = call.pod /\ call'.ci = call.ci
          /\ call'.di = call.di /\ call'.work = call.work /\ call'.phase = "cleanInfo"
      BY <1>1, <2>2 DEF Calls, Phases
    <3> QED
      BY <1>1, <3>1, MoveOK
  <2> QED
    BY <1>13, <2>1, <2>2 DEF StoreClaim
<1>14. CASE CreateGlobalPodSpecFile
  BY <1>1, <1>11, <1>14, StartOK DEF CreateGlobalPodSpecFile
<1>15. CASE NothingPrepared
  <2>1. call' = [call EXCEPT !.phase = "return", !.failed = TRUE]
    BY <1>15 DEF NothingPrepared
  <2>2. /\ call' \in Calls /\ call'.pod = call.pod /\ call'.ci = call.ci
        /\ call'.di = call.di /\ call'.work = call.work /\ call'.phase = "return"
    BY <1>1, <2>1 DEF Calls, Phases
  <2> QED
    BY <1>1, <2>2, MoveOK
<1>16. CASE LookupClaim
  <2>1. CASE call' = NextClaim(call)
    BY <1>1, <2>1, NextClaimOK
  <2>2. CASE call' # NextClaim(call)
    <3>1. call.phase = "lookup"
      BY <1>16 DEF LookupClaim, Calling
    <3>2. PICK p \in Pods : call' = [call EXCEPT !.phase = "cleanInfo", !.from = p,
                                                 !.work = preparedClaims[p][Claim]]
      BY <1>16, <2>2 DEF LookupClaim, PodsWithClaim
    <3>3. /\ preparedClaims[p][Claim] \in Seq(PreparedDevice)
          /\ Len(preparedClaims[p][Claim]) <= Len(Results[Claim])
      BY <1>1 DEF LifecycleInv, EntriesOK
    <3>4. /\ call' \in Calls /\ call'.pod = call.pod /\ call'.ci = call.ci
          /\ call'.di = call.di /\ call'.work = preparedClaims[p][Claim]
          /\ call'.phase = "cleanInfo"
      BY <1>1, <3>2, <3>3 DEF Calls, Phases
    <3>5. call.di = 1 /\ Len(preparedClaims[p][Claim]) \in Nat
      BY <1>1, <3>1, <3>3 DEF CallOK
    <3>6. Size(call') = Len(Results[Claim])
      BY <3>4 DEF Size, Claim
    <3> QED
      BY <1>1, <3>3, <3>4, <3>5, <3>6 DEF CallOK
  <2> QED
    BY <2>1, <2>2
<1>17. CASE UnprepareDeviceInfo \/ UnpreparedDevices
  <2>1. \E ph \in {"restore", "unspec"}, e \in BOOLEAN :
            call' = [call EXCEPT !.phase = ph, !.di = 1, !.err = e]
    <3>1. CASE UnprepareDeviceInfo
      BY <3>1 DEF UnprepareDeviceInfo
    <3>2. CASE UnpreparedDevices
      <4>1. call' = [call EXCEPT !.phase = "unspec", !.di = 1, !.err = call.err]
        BY <1>1, <3>2 DEF UnpreparedDevices, Calls
      <4>2. call.err \in BOOLEAN
        BY <1>1 DEF Calls
      <4> QED
        BY <4>1, <4>2
    <3> QED
      BY <1>17, <3>1, <3>2
  <2>2. PICK ph \in {"restore", "unspec"}, e \in BOOLEAN :
            call' = [call EXCEPT !.phase = ph, !.di = 1, !.err = e]
    BY <2>1
  <2>3. /\ call' \in Calls /\ call'.pod = call.pod /\ call'.ci = call.ci
        /\ call'.di = 1 /\ call'.work = call.work /\ call'.phase = ph
    BY <1>1, <2>2 DEF Calls, Phases
  <2> QED
    BY <1>1, <2>3, MoveOK
<1>18. CASE DeleteSpecFiles
  BY <1>1, <1>11, <1>18, FailClaimOK DEF DeleteSpecFiles
<1>19. CASE ForgetClaim
  BY <1>1, <1>19, NextClaimOK, FailClaimOK DEF ForgetClaim
<1>20. ASSUME NEW p \in Pods, Reserve(p) \/ Terminate(p) PROVE CallOK(call')
  BY <1>1, <1>20 DEF Reserve, Terminate
<1>21. CASE KubeletRestart \/ RecordNetworkData
  BY <1>1, <1>21 DEF KubeletRestart, RecordNetworkData
<1> QED
  BY <1>2, <1>3, <1>4, <1>5, <1>6, <1>7, <1>8, <1>9, <1>10, <1>12, <1>13, <1>14, <1>15,
     <1>16, <1>17, <1>18, <1>19, <1>20, <1>21
     DEF Next, CallStep

\* The invariant is inductive.
LEMMA LifecycleNext == LifecycleInv /\ [Next]_vars => LifecycleInv'
<1> SUFFICES ASSUME LifecycleInv, [Next]_vars PROVE LifecycleInv'
  OBVIOUS
<1>1. CASE Next
  BY <1>1, CallNext, EntriesNext, HostNext, FilesNext, KubeletNext, FaultsNext
     DEF LifecycleInv
<1>2. CASE UNCHANGED vars
  BY <1>2 DEF vars, podManagerVars, hostVars, fileVars, kubeletVars, LifecycleInv, HostOK,
              FilesOK, KubeletOK
<1> QED
  BY <1>1, <1>2

\* The inductive invariant: a call never runs past the claims of its pod or the
\* devices of a claim, and no entry has more devices than were allocated.
THEOREM LifecycleInvariant == Spec => []LifecycleInv
  BY LifecycleInit, LifecycleNext, PTL DEF Spec

\* Whatever fails, is lost or restarts, a call of PrepareResourceClaims or
\* UnprepareResourceClaims stays within its claims and within their devices.
THEOREM TypeCorrect == Spec => []TypeOK
<1>1. LifecycleInv => TypeOK
  <2> SUFFICES ASSUME LifecycleInv PROVE TypeOK
    OBVIOUS
  <2>1. call.ci \in 1..Len(Uses[call.pod]) /\ call.di \in 1..(Len(Results[Claim]) + 1)
    BY CallFacts DEF LifecycleInv, CallOK
  <2> QED
    BY <2>1 DEF LifecycleInv, EntriesOK, HostOK, FilesOK, KubeletOK, CallOK, TypeOK
<1> QED
  BY <1>1, LifecycleInvariant, PTL
===============================================================================
