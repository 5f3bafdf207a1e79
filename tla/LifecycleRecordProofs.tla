------------------------- MODULE LifecycleRecordProofs ------------------------
(***************************************************************************)
(* Theorems about the drivers of ClaimLifecycle, for pods with one claim:  *)
(* a device that no live pod has is on its native driver, what is recorded *)
(* as original driver is the native one, and the interface names of a pod  *)
(* are distinct.  For pods with several claims none of this is so:         *)
(* DeleteClaim forgets the whole pod, and ifNameIndex starts again with    *)
(* every call.                                                             *)
(***************************************************************************)
EXTENDS ClaimLifecycleProofs

\* The hypotheses: every pod has one claim, and every device had a driver.
OneClaim == \A p \in Pods : Len(Uses[p]) = 1
NativeBound == \A d \in Devices : Native[d] # NoDriver

\* The claim of a pod.
ClaimOf(p) == Uses[p][1]

\* The devices prepared so far have their native drivers on record.
OnRecord(c, work, lost) ==
    \A i \in 1..Len(work) :
        Request[c][Results[c][i]] # NoDriver /\ Results[c][i] \notin lost =>
            work[i].orig = Native[Results[c][i]]

\* An entry is of the claim of its pod and has all its devices.
RecordsOK(map, lost) ==
    \A p \in Pods, c \in Claims : map[p][c] # NoEntry =>
        /\ c = ClaimOf(p)
        /\ Len(map[p][c]) = Len(Results[c])
        /\ OnRecord(c, map[p][c], lost)

LiveStates == {"reserved", "running", "terminating"}

\* A device is with one live pod.
Exclusive(stateOf) ==
    \A p, q \in Pods :
        p # q /\ stateOf[p] \in LiveStates /\ stateOf[q] \in LiveStates =>
            DevicesOf(ClaimOf(p)) \cap DevicesOf(ClaimOf(q)) = {}

\* The claim is being prepared and has no entry yet.
Preparing == {"bind", "finish", "undo", "abort", "abortInfo", "info", "spec", "set"}

\* What a call is for, and when it has all devices of the claim in hand.
PhaseOK(r) ==
    /\ r.phase \in Preparing \cup {"claim", "podspec"} => r.op = "prepare"
    /\ r.phase \in {"lookup", "delete"} => r.op \in {"unprepare", "rollback"}
    /\ r.phase = "idle" => r.op = "none"
    /\ r.phase \in {"cleanInfo", "restore", "unspec"} => r.op # "none"
    /\ r.op = "rollback" => r.failed = TRUE
    /\ r.phase \in {"abortInfo", "info", "spec", "set", "cleanInfo", "restore"} =>
          Len(r.work) = Len(Results[ClaimOf(r.pod)])
    /\ r.phase = "undo" => Request[ClaimOf(r.pod)][Results[ClaimOf(r.pod)][r.di]] # NoDriver
    /\ r.phase = "delete" => r.err = FALSE

\* What a call has in hand of the original drivers.
HandOK(r, lost) ==
    /\ OnRecord(ClaimOf(r.pod), r.work, lost)
    /\ r.phase \in {"finish", "undo"} =>
          LET d == Results[ClaimOf(r.pod)][r.di]
          IN  Request[ClaimOf(r.pod)][d] # NoDriver /\ d \notin lost => r.orig = Native[d]

\* A call has device d of its claim on the way to the driver asked for.
OnTheWay(r, d) ==
    \E i \in 1..Len(Results[ClaimOf(r.pod)]) :
        /\ d = Results[ClaimOf(r.pod)][i]
        /\ \/ r.phase \in Preparing \ {"abort"} /\ i <= Len(r.work)
           \/ r.phase \in {"finish", "undo"} /\ i = r.di
           \/ r.phase = "abort" /\ r.di <= i /\ i <= Len(r.work)

\* Device d is on its native driver, or that driver is no longer on record.
HomeIn(d, drivers, lost) == d \in lost \/ drivers[d] = Native[d]
Home(d) == HomeIn(d, driver, stranded)

AllHome(c, drivers, lost) ==
    \A i \in 1..Len(Results[c]) : HomeIn(Results[c][i], drivers, lost)

\* A live pod has the device, and its entry or the call says so.
Holder(p, d) ==
    /\ Live(p) /\ d \in DevicesOf(ClaimOf(p)) /\ Request[ClaimOf(p)][d] # NoDriver
    /\ Get(p, ClaimOf(p)) \/ (call.pod = p /\ OnTheWay(call, d))

AwayInv == \A d \in Devices : Home(d) \/ \E p \in Pods : Holder(p, d)

LiveInv == call.phase # "idle" => Live(call.pod)

FreshInv == call.phase \in Preparing => ~Get(call.pod, ClaimOf(call.pod))

\* What an unprepare has put back when it forgets the claim and answers.
BackOK(r, drivers, lost) ==
    /\ r.phase = "restore" =>
          \A i \in 1..(r.di - 1) : HomeIn(Results[ClaimOf(r.pod)][i], drivers, lost)
    /\ r.phase \in {"unspec", "delete"} /\ r.err = FALSE =>
          AllHome(ClaimOf(r.pod), drivers, lost)
    /\ r.phase = "return" /\ r.op = "unprepare" /\ r.failed = FALSE =>
          AllHome(ClaimOf(r.pod), drivers, lost)

RecordInv ==
    /\ RecordsOK(preparedClaims, stranded) /\ RecordsOK(checkpoint, stranded)
    /\ Exclusive(pod)
    /\ PhaseOK(call) /\ HandOK(call, stranded)
    /\ LiveInv /\ FreshInv /\ BackOK(call, driver, stranded) /\ AwayInv
-------------------------------------------------------------------------------
(***************************************************************************)
(* What a step does to the call                                            *)
(***************************************************************************)

\* s is r in phase ph.
InPhase(r, s, ph) ==
    /\ s.pod = r.pod /\ s.op = r.op /\ s.work = r.work /\ s.di = r.di
    /\ s.orig = r.orig /\ s.err = r.err /\ s.failed = r.failed
    /\ s.ifNameIndex = r.ifNameIndex /\ s.phase = ph

\* s is r after its only claim.
ClaimDone(r, s) ==
    /\ s.pod = r.pod /\ s.op = r.op /\ s.work = <<>> /\ s.di = 1 /\ s.err = FALSE
    /\ s.failed = r.failed
    /\ s.phase = IF r.op = "prepare" THEN "podspec" ELSE "return"

\* s is r after its only claim, which failed.
ClaimFailed(r, s) ==
    /\ s.pod = r.pod /\ s.op = r.op /\ s.work = <<>> /\ s.di = 1 /\ s.err = FALSE
    /\ s.failed = TRUE
    /\ s.phase = IF r.op = "prepare" THEN "podspec" ELSE "return"

\* s is r at the start of its rollback.
Undoing(r, s) ==
    /\ s.pod = r.pod /\ s.op = r.op /\ s.work = r.work /\ s.di = 1
    /\ s.err = r.err /\ s.failed = r.failed /\ s.phase = "abort"

\* s is a call that has just begun.
Begun(s, op, p) ==
    /\ s.pod = p /\ s.op = op /\ s.work = <<>> /\ s.di = 1
    /\ s.phase = IF op = "prepare" THEN "claim" ELSE "lookup"

NoCall(s) == s.phase = "idle" /\ s.op = "none" /\ s.work = <<>>

\* The claim of a pod is a claim, with devices.
LEMMA ClaimFacts ==
    ASSUME NEW p \in Pods
    PROVE  /\ ClaimOf(p) \in Claims /\ Results[ClaimOf(p)] \in Seq(Devices)
           /\ Len(Results[ClaimOf(p)]) \in Nat \ {0}
           /\ \A i \in 1..Len(Results[ClaimOf(p)]) : Results[ClaimOf(p)][i] \in Devices
           /\ \A i, j \in 1..Len(Results[ClaimOf(p)]) :
                 Results[ClaimOf(p)][i] = Results[ClaimOf(p)][j] => i = j
<1>1. /\ ClaimOf(p) \in Claims /\ Results[ClaimOf(p)] \in Seq(Devices)
      /\ Len(Results[ClaimOf(p)]) \in Nat \ {0}
  BY PodFacts, SizeFacts DEF ClaimOf
<1>2. \A c \in Claims : \A i, j \in 1..Len(Results[c]) : Results[c][i] = Results[c][j] => i = j
  BY LifecycleAssumption
<1> QED
  BY <1>1, <1>2

\* The call is at the claim of its pod.
LEMMA CallClaim ==
    ASSUME OneClaim, CallOK(call)
    PROVE  /\ call.pod \in Pods /\ call.ci = 1 /\ Claim = ClaimOf(call.pod)
           /\ Len(call.work) \in Nat /\ call.di \in 1..(Len(call.work) + 1)
           /\ Len(call.work) <= Len(Results[Claim])
<1>1. call.pod \in Pods /\ call.ci \in 1..Len(Uses[call.pod])
  BY DEF CallOK, Calls
<1>2. call.ci = 1
  <2>1. Len(Uses[call.pod]) = 1
    BY <1>1 DEF OneClaim
  <2> QED
    BY <1>1, <2>1
<1>3. Claim = ClaimOf(call.pod)
  BY <1>2 DEF Claim, ClaimOf
<1>4. Size(call) = Len(Results[Claim]) /\ Len(call.work) \in Nat
  BY CallFacts
<1>5. call.di \in 1..(Len(call.work) + 1) /\ Len(call.work) <= Size(call)
  BY DEF CallOK
<1> QED
  BY <1>1, <1>2, <1>3, <1>4, <1>5

\* NextClaim ends the loop over the claims, which has one.
LEMMA NextClaimIs == ASSUME OneClaim, NEW r, CallOK(r) PROVE ClaimDone(r, NextClaim(r))
<1>1. r \in Calls /\ r.pod \in Pods /\ r.ci \in 1..Len(Uses[r.pod]) /\ Len(Uses[r.pod]) = 1
  BY DEF CallOK, Calls, OneClaim
<1>2. ~(r.ci < Len(Uses[r.pod]))
  BY <1>1
<1> DEFINE s == [r EXCEPT !.di = 1, !.work = <<>>, !.orig = NoDriver, !.err = FALSE]
           ph == IF r.op = "prepare" THEN "podspec" ELSE "return"
<1>3. NextClaim(r) = [s EXCEPT !.phase = ph]
  BY <1>2 DEF NextClaim
<1> HIDE DEF ph
<1>4. /\ s \in Calls /\ s.pod = r.pod /\ s.op = r.op /\ s.work = <<>> /\ s.di = 1
      /\ s.err = FALSE /\ s.failed = r.failed
  BY <1>1, EmptyWork, NoDriverBinding DEF Calls
<1> HIDE DEF s
<1> QED
  BY <1>3, <1>4 DEF ClaimDone, Calls, ph

\* The same after an error.
LEMMA FailClaimIs == ASSUME OneClaim, NEW r, CallOK(r) PROVE ClaimFailed(r, FailClaim(r))
<1> DEFINE s == [r EXCEPT !.failed = TRUE]
<1>1. /\ s \in Calls /\ s.pod = r.pod /\ s.ci = r.ci /\ s.di = r.di /\ s.op = r.op
      /\ s.work = r.work /\ s.phase = r.phase /\ s.failed = TRUE
  BY DEF CallOK, Calls
<1>2. FailClaim(r) = NextClaim(s)
  BY DEF FailClaim
<1> HIDE DEF s
<1>3. CallOK(s)
  BY <1>1 DEF CallOK, Size
<1>4. ClaimDone(s, FailClaim(r))
  BY <1>2, <1>3, NextClaimIs
<1> QED
  BY <1>1, <1>4 DEF ClaimDone, ClaimFailed

\* A rollback keeps what was prepared.
LEMMA AbortIs == ASSUME NEW r, CallOK(r) PROVE Undoing(r, Abort(r))
  BY DEF CallOK, Calls, Abort, Undoing

\* A new call.
LEMMA StartIs ==
    ASSUME NEW op, NEW p
    PROVE  /\ Begun(Start(op, p), op, p) /\ Start(op, p).failed = FALSE
           /\ Begun([Start(op, p) EXCEPT !.failed = TRUE], op, p)
           /\ [Start(op, p) EXCEPT !.failed = TRUE].failed = TRUE
  BY DEF Start, Idle, Begun

\* No call.
LEMMA IdleIs == NoCall(Idle)
  BY DEF NoCall, Idle

\* A change of the phase alone.
LEMMA PhaseIs ==
    ASSUME NEW r \in Calls, NEW ph
    PROVE  InPhase(r, [r EXCEPT !.phase = ph], ph)
  BY DEF InPhase, Calls
-------------------------------------------------------------------------------
(***************************************************************************)
(* Drivers and records                                                     *)
(***************************************************************************)

\* The two kinds of outcomes.
LEMMA OutcomeFields ==
    ASSUME NEW b
    PROVE  /\ Done(b).ok = TRUE /\ Done(b).to = b
           /\ Failed(b).ok = FALSE /\ Failed(b).to = b
           /\ [ok |-> FALSE, to |-> b, fault |-> FALSE].ok = FALSE
           /\ [ok |-> FALSE, to |-> b, fault |-> FALSE].to = b
  BY Zenon DEF Done, Failed

\* A bind that succeeds leaves the driver asked for, and a device that is on that
\* driver stays there.
LEMMA BindOutcome ==
    ASSUME NEW cur, NEW drv, NEW o \in BindDriverByBusAndDevice(cur, drv)
    PROVE  /\ o.ok = FALSE \/ (o.ok = TRUE /\ o.to = drv)
           /\ cur = drv => o.to = drv
<1>1. CASE ~ModuleKnown(drv)
  <2>1. o = [ok |-> FALSE, to |-> cur, fault |-> FALSE]
    BY <1>1 DEF BindDriverByBusAndDevice
  <2> QED
    BY <2>1, OutcomeFields
<1>2. CASE ModuleKnown(drv) /\ cur = drv
  <2>1. o = Failed(cur) \/ o = Done(cur)
    BY <1>2 DEF BindDriverByBusAndDevice
  <2>2. CASE o = Failed(cur)
    BY <1>2, <2>2, OutcomeFields, Zenon
  <2>3. CASE o = Done(cur)
    BY <1>2, <2>3, OutcomeFields, Zenon
  <2> QED
    BY <2>1, <2>2, <2>3
<1>3. CASE ModuleKnown(drv) /\ cur # drv /\ drv \in Installed
  <2>1. o \in {Failed(cur), Failed(NoDriver), Failed(drv), Done(drv)}
    BY <1>3 DEF BindDriverByBusAndDevice
  <2>2. CASE o = Done(drv)
    BY <1>3, <2>2, OutcomeFields
  <2>3. CASE o # Done(drv)
    <3>1. \E b : o = Failed(b)
      BY <2>1, <2>3
    <3>2. o.ok = FALSE
      BY <3>1, OutcomeFields
    <3> QED
      BY <1>3, <3>2
  <2> QED
    BY <2>2, <2>3
<1>4. CASE ModuleKnown(drv) /\ cur # drv /\ drv \notin Installed
  <2>1. \/ o = Failed(cur) \/ o = Failed(NoDriver)
        \/ o = [ok |-> FALSE, to |-> NoDriver, fault |-> FALSE]
    BY <1>4 DEF BindDriverByBusAndDevice
  <2>2. /\ Failed(cur).ok = FALSE /\ Failed(NoDriver).ok = FALSE
        /\ [ok |-> FALSE, to |-> NoDriver, fault |-> FALSE].ok = FALSE
    BY OutcomeFields
  <2>3. o.ok = FALSE
    BY <2>1, <2>2, Zenon
  <2> QED
    BY <1>4, <2>3
<1> QED
  BY <1>1, <1>2, <1>3, <1>4

\* The same of a restore.
LEMMA RestoreOutcome ==
    ASSUME NEW cur, NEW orig, orig # NoDriver, NEW o \in RestoreDeviceDriver(cur, orig)
    PROVE  /\ o.ok = FALSE \/ (o.ok = TRUE /\ o.to = orig)
           /\ cur = orig => o.to = orig
<1>1. o \in BindDriverByBusAndDevice(cur, orig)
  BY DEF RestoreDeviceDriver
<1> QED
  BY <1>1, BindOutcome

\* Binding, or restoring, succeeds or not; no driver asked for is no change.
LEMMA OutcomeOk ==
    ASSUME NEW b
    PROVE  /\ \A req : \A o \in BindDeviceDriver(b, req) : o.ok = TRUE \/ o.ok = FALSE
           /\ \A orig : \A o \in RestoreDeviceDriver(b, orig) : o.ok = TRUE \/ o.ok = FALSE
           /\ \A o \in BindDeviceDriver(b, NoDriver) : o.ok = TRUE /\ o.to = b
<1>1. \A o \in BindDefaultDriver(b) : o.ok = TRUE \/ o.ok = FALSE
  <2> SUFFICES ASSUME NEW o \in BindDefaultDriver(b) PROVE o.ok = TRUE \/ o.ok = FALSE
    OBVIOUS
  <2>1. CASE b \in NetDrivers
    <3>1. o = Failed(b) \/ o = Done(b)
      BY <2>1 DEF BindDefaultDriver
    <3>2. Failed(b).ok = FALSE /\ Done(b).ok = TRUE
      BY OutcomeFields
    <3> QED
      BY <3>1, <3>2, Zenon
  <2>2. CASE b \notin NetDrivers
    <3>1. o = Failed(b) \/ o = Failed(NoDriver) \/ o = Done(DefaultDriver)
      BY <2>2 DEF BindDefaultDriver
    <3>2. Failed(b).ok = FALSE /\ Failed(NoDriver).ok = FALSE /\ Done(DefaultDriver).ok = TRUE
      BY OutcomeFields
    <3> QED
      BY <3>1, <3>2, Zenon
  <2> QED
    BY <2>1, <2>2
<1>2. ASSUME NEW req, NEW o \in BindDeviceDriver(b, req) PROVE o.ok = TRUE \/ o.ok = FALSE
  <2>1. CASE req = NoDriver
    <3>1. o = Done(b)
      BY <1>2, <2>1 DEF BindDeviceDriver, NoDriver
    <3> QED
      BY <3>1, OutcomeFields
  <2>2. CASE req = "default"
    <3>1. o \in BindDefaultDriver(b)
      BY <1>2, <2>2 DEF BindDeviceDriver, NoDriver
    <3> QED
      BY <1>1, <3>1
  <2>3. CASE req # NoDriver /\ req # "default"
    <3>1. o \in BindDriverByBusAndDevice(b, req)
      BY <1>2, <2>3 DEF BindDeviceDriver
    <3> QED
      BY <3>1, BindOutcome
  <2> QED
    BY <2>1, <2>2, <2>3
<1>3. ASSUME NEW orig, NEW o \in RestoreDeviceDriver(b, orig)
      PROVE  o.ok = TRUE \/ o.ok = FALSE
  <2>1. CASE orig = NoDriver
    <3>1. o \in BindDefaultDriver(b)
      BY <1>3, <2>1 DEF RestoreDeviceDriver
    <3> QED
      BY <1>1, <3>1
  <2>2. CASE orig # NoDriver
    BY <1>3, <2>2, RestoreOutcome
  <2> QED
    BY <2>1, <2>2
<1>4. ASSUME NEW o \in BindDeviceDriver(b, NoDriver) PROVE o.ok = TRUE /\ o.to = b
  <2>1. o = Done(b)
    BY <1>4 DEF BindDeviceDriver, NoDriver
  <2> QED
    BY <2>1, OutcomeFields
<1> QED
  BY <1>2, <1>3, <1>4

\* The steps that change the pod manager.
LEMMA EntriesUnchanged ==
    ASSUME Next
    PROVE  \/ StoreClaim \/ ForgetClaim \/ RecordNetworkData \/ Crash \/ Reboot
           \/ UNCHANGED podManagerVars
<1>1. \A p \in Pods : Reserve(p) \/ StartPrepare(p) \/ Terminate(p) \/ StartUnprepare(p)
          => UNCHANGED podManagerVars
  BY DEF Reserve, StartPrepare, Terminate, StartUnprepare
<1>2. RefuseClaim \/ AlreadyPrepared \/ PrepareDevicesForClaim \/ RejectDevice
          \/ BindDevice \/ FinishDevice \/ FailDevice \/ UndoDevice \/ AbortDevice
          \/ Aborted \/ SyncDeviceInfo \/ AbortDeviceInfo \/ CreateClaimSpecFile
          => UNCHANGED podManagerVars
  BY DEF RefuseClaim, AlreadyPrepared, PrepareDevicesForClaim, RejectDevice, BindDevice,
         FinishDevice, FailDevice, UndoDevice, AbortDevice, Aborted, SyncDeviceInfo,
         AbortDeviceInfo, CreateClaimSpecFile
<1>3. CreateGlobalPodSpecFile \/ NothingPrepared \/ LookupClaim
          \/ UnprepareDeviceInfo \/ UnprepareDevice \/ UnpreparedDevices
          \/ DeleteSpecFiles \/ Answer \/ AnswerError \/ KubeletRestart
          => UNCHANGED podManagerVars
  BY DEF CreateGlobalPodSpecFile, NothingPrepared, LookupClaim, UnprepareDeviceInfo,
         UnprepareDevice, UnpreparedDevices, DeleteSpecFiles, Answer, AnswerError,
         KubeletRestart
<1> QED
  BY <1>1, <1>2, <1>3 DEF Next, CallStep

\* The steps that change where a pod stands.
LEMMA PodUnchanged ==
    ASSUME Next
    PROVE  \/ \E p \in Pods : Reserve(p) \/ Terminate(p)
           \/ Answer
           \/ UNCHANGED pod
<1>1. \A p \in Pods : StartPrepare(p) \/ StartUnprepare(p) => UNCHANGED pod
  BY DEF StartPrepare, StartUnprepare, kubeletVars
<1>2. RefuseClaim \/ AlreadyPrepared \/ PrepareDevicesForClaim \/ RejectDevice
          \/ BindDevice \/ FinishDevice \/ FailDevice \/ UndoDevice \/ AbortDevice
          \/ Aborted \/ SyncDeviceInfo \/ AbortDeviceInfo \/ CreateClaimSpecFile
          => UNCHANGED pod
  BY DEF RefuseClaim, AlreadyPrepared, PrepareDevicesForClaim, RejectDevice, BindDevice,
         FinishDevice, FailDevice, UndoDevice, AbortDevice, Aborted, SyncDeviceInfo,
         AbortDeviceInfo, CreateClaimSpecFile, kubeletVars
<1>3. StoreClaim \/ CreateGlobalPodSpecFile \/ NothingPrepared \/ LookupClaim
          \/ UnprepareDeviceInfo \/ UnprepareDevice \/ UnpreparedDevices
          \/ DeleteSpecFiles \/ ForgetClaim \/ AnswerError \/ KubeletRestart
          \/ RecordNetworkData \/ Crash \/ Reboot
          => UNCHANGED pod
  BY DEF StoreClaim, CreateGlobalPodSpecFile, NothingPrepared, LookupClaim,
         UnprepareDeviceInfo, UnprepareDevice, UnpreparedDevices, DeleteSpecFiles,
         ForgetClaim, AnswerError, KubeletRestart, RecordNetworkData, Crash, Reboot,
         kubeletVars
<1> QED
  BY <1>1, <1>2, <1>3 DEF Next, CallStep

\* The steps that change a driver, or strand a device.
LEMMA HostUnchanged ==
    ASSUME Next
    PROVE  \/ BindDevice \/ UndoDevice \/ AbortDevice \/ UnprepareDevice \/ Crash \/ Reboot
           \/ UNCHANGED hostVars
<1>1. \A p \in Pods : Reserve(p) \/ StartPrepare(p) \/ Terminate(p) \/ StartUnprepare(p)
          => UNCHANGED hostVars
  BY DEF Reserve, StartPrepare, Terminate, StartUnprepare
<1>2. RefuseClaim \/ AlreadyPrepared \/ PrepareDevicesForClaim \/ RejectDevice
          \/ FinishDevice \/ FailDevice \/ Aborted \/ SyncDeviceInfo \/ AbortDeviceInfo
          \/ CreateClaimSpecFile
          => UNCHANGED hostVars
  BY DEF RefuseClaim, AlreadyPrepared, PrepareDevicesForClaim, RejectDevice,
         FinishDevice, FailDevice, Aborted, SyncDeviceInfo, AbortDeviceInfo,
         CreateClaimSpecFile
<1>3. StoreClaim \/ CreateGlobalPodSpecFile \/ NothingPrepared \/ LookupClaim
          \/ UnprepareDeviceInfo \/ UnpreparedDevices \/ DeleteSpecFiles \/ ForgetClaim
          \/ Answer \/ AnswerError \/ KubeletRestart \/ RecordNetworkData
          => UNCHANGED hostVars
  BY DEF StoreClaim, CreateGlobalPodSpecFile, NothingPrepared, LookupClaim,
         UnprepareDeviceInfo, UnpreparedDevices, DeleteSpecFiles, ForgetClaim, Answer,
         AnswerError, KubeletRestart, RecordNetworkData
<1> QED
  BY <1>1, <1>2, <1>3 DEF Next, CallStep

\* No step takes a device from the stranded ones.
LEMMA StrandedGrows == ASSUME Next PROVE stranded \subseteq stranded'
<1>1. CASE BindDevice
  BY <1>1 DEF BindDevice
<1>2. CASE UndoDevice
  BY <1>2 DEF UndoDevice
<1>3. CASE AbortDevice
  BY <1>3 DEF AbortDevice
<1>4. CASE UnprepareDevice \/ Crash \/ Reboot
  BY <1>4 DEF UnprepareDevice, Crash, Reboot
<1>5. CASE UNCHANGED hostVars
  BY <1>5 DEF hostVars
<1> QED
  BY <1>1, <1>2, <1>3, <1>4, <1>5, HostUnchanged

\* What is on record stays on record when more devices are stranded.
LEMMA RecordsStay ==
    ASSUME NEW lost, NEW more, lost \subseteq more
    PROVE  /\ \A c, work : OnRecord(c, work, lost) => OnRecord(c, work, more)
           /\ \A map : RecordsOK(map, lost) => RecordsOK(map, more)
           /\ \A r : HandOK(r, lost) => HandOK(r, more)
<1>1. \A c, work : OnRecord(c, work, lost) => OnRecord(c, work, more)
  BY DEF OnRecord
<1>2. \A map : RecordsOK(map, lost) => RecordsOK(map, more)
  BY <1>1 DEF RecordsOK
<1>3. \A r : HandOK(r, lost) => HandOK(r, more)
  BY <1>1 DEF HandOK
<1> QED
  BY <1>1, <1>2, <1>3

\* The entries of the pod manager, in memory and in the file, keep the native
\* drivers of their devices.
LEMMA RecordsNext ==
    ASSUME OneClaim, LifecycleInv, RecordInv, Next
    PROVE  RecordsOK(preparedClaims', stranded') /\ RecordsOK(checkpoint', stranded')
<1>1. /\ RecordsOK(preparedClaims, stranded') /\ RecordsOK(checkpoint, stranded')
      /\ HandOK(call, stranded')
  <2>1. stranded \subseteq stranded'
    BY StrandedGrows
  <2> QED
    BY <2>1, RecordsStay DEF RecordInv
<1>2. /\ CallOK(call) /\ EntriesOK(preparedClaims) /\ EntriesOK(checkpoint)
  BY DEF LifecycleInv
<1>3. ASSUME NEW ok \in BOOLEAN, syncToCheckpoint(ok), RecordsOK(preparedClaims', stranded')
      PROVE  RecordsOK(preparedClaims', stranded') /\ RecordsOK(checkpoint', stranded')
  BY <1>1, <1>3 DEF syncToCheckpoint
<1>4. CASE StoreClaim
  <2>1. PICK ok \in BOOLEAN : Set(call.pod, Claim, call.work, ok)
    BY <1>4 DEF StoreClaim
  <2>2. /\ preparedClaims' = [preparedClaims EXCEPT ![call.pod][Claim] = call.work]
        /\ syncToCheckpoint(ok)
    BY <2>1 DEF Set
  <2>3. /\ Claim = ClaimOf(call.pod) /\ Len(call.work) = Len(Results[Claim])
        /\ OnRecord(Claim, call.work, stranded')
    BY <1>1, <1>2, <1>4, CallClaim DEF RecordInv, PhaseOK, HandOK, StoreClaim, Calling
  <2>4. ASSUME NEW p \in Pods, NEW c \in Claims, preparedClaims'[p][c] # NoEntry
        PROVE  /\ c = ClaimOf(p) /\ Len(preparedClaims'[p][c]) = Len(Results[c])
               /\ OnRecord(c, preparedClaims'[p][c], stranded')
    <3>1. CASE p = call.pod /\ c = Claim
      <4>1. preparedClaims'[p][c] = call.work
        BY <1>2, <2>2, <3>1 DEF EntriesOK
      <4> QED
        BY <2>3, <3>1, <4>1
    <3>2. CASE ~(p = call.pod /\ c = Claim)
      <4>1. preparedClaims'[p][c] = preparedClaims[p][c]
        BY <1>2, <2>2, <3>2 DEF EntriesOK
      <4> QED
        BY <1>1, <2>4, <4>1 DEF RecordsOK
    <3> QED
      BY <3>1, <3>2
  <2>5. RecordsOK(preparedClaims', stranded')
    BY <2>4 DEF RecordsOK
  <2> QED
    BY <1>3, <2>2, <2>5
<1>5. CASE ForgetClaim
  <2>1. PICK ok \in BOOLEAN : DeleteClaim(Claim, ok)
    BY <1>5 DEF ForgetClaim
  <2>2. PICK q \in Pods : preparedClaims' = [preparedClaims EXCEPT ![q] = NoClaims]
    BY <2>1 DEF DeleteClaim, PodsWithClaim
  <2>3. ASSUME NEW p \in Pods, NEW c \in Claims, preparedClaims'[p][c] # NoEntry
        PROVE  preparedClaims'[p][c] = preparedClaims[p][c]
    BY <1>2, <2>2, <2>3 DEF EntriesOK, NoClaims
  <2>4. RecordsOK(preparedClaims', stranded')
    BY <1>1, <2>3 DEF RecordsOK
  <2>5. syncToCheckpoint(ok)
    BY <2>1 DEF DeleteClaim
  <2> QED
    BY <1>3, <2>4, <2>5
<1>6. CASE RecordNetworkData
  <2>1. PICK ok \in BOOLEAN : UpdatePreparedDeviceNetworkData(ok)
    BY <1>6 DEF RecordNetworkData
  <2> QED
    BY <1>1, <1>3, <2>1 DEF UpdatePreparedDeviceNetworkData
<1>7. CASE Crash \/ Reboot
  BY <1>1, <1>7 DEF Crash, Reboot, Load
<1>8. CASE UNCHANGED podManagerVars
  BY <1>1, <1>8 DEF podManagerVars
<1> QED
  BY <1>4, <1>5, <1>6, <1>7, <1>8, EntriesUnchanged

\* A device goes to one live pod: Reserve sees to it, and no other step makes a
\* pod live.
LEMMA ExclusiveNext ==
    ASSUME OneClaim, LifecycleInv, RecordInv, Next
    PROVE  Exclusive(pod')
<1>1. Exclusive(pod) /\ pod \in [Pods -> PodStates]
  BY DEF RecordInv, LifecycleInv, KubeletOK
<1>2. ASSUME \A p \in Pods : pod'[p] \in LiveStates => pod[p] \in LiveStates
      PROVE  Exclusive(pod')
  BY <1>1, <1>2 DEF Exclusive
<1>3. ASSUME NEW p \in Pods, Reserve(p) PROVE Exclusive(pod')
  <2>1. \A q \in Pods \ {p} : pod[q] \in LiveStates =>
            DevicesOf(ClaimOf(p)) \cap DevicesOf(ClaimOf(q)) = {}
    <3>1. \A q \in Pods : ClaimOf(q) \in ClaimsOf(q)
      BY PodFacts DEF ClaimOf, ClaimsOf, ToSet
    <3> QED
      BY <1>3, <3>1 DEF Reserve, Live, LiveStates
  <2>2. \A q \in Pods \ {p} : pod'[q] = pod[q]
    BY <1>1, <1>3 DEF Reserve
  <2> QED
    BY <1>1, <2>1, <2>2 DEF Exclusive
<1>4. ASSUME NEW p \in Pods, Terminate(p) PROVE Exclusive(pod')
  BY <1>1, <1>2, <1>4 DEF Terminate, LiveStates
<1>5. CASE Answer
  <2>1. call.pod \in Pods
    BY CallClaim DEF LifecycleInv
  <2> QED
    BY <1>1, <1>2, <1>5, <2>1 DEF Answer, LiveStates
<1>6. CASE UNCHANGED pod
  BY <1>1, <1>6
<1> QED
  BY <1>3, <1>4, <1>5, <1>6, PodUnchanged
-------------------------------------------------------------------------------
(***************************************************************************)
(* The steps of a call                                                     *)
(***************************************************************************)

\* Calls begin and end.
LEMMA EndShapes ==
    ASSUME CallOK(call)
    PROVE  /\ \A p \in Pods : StartPrepare(p) => Begun(call', "prepare", p) /\ call'.failed = FALSE
           /\ \A p \in Pods :
                 StartUnprepare(p) => Begun(call', "unprepare", p) /\ call'.failed = FALSE
           /\ Answer \/ AnswerError \/ Crash \/ Reboot => NoCall(call')
           /\ \A p \in Pods : Reserve(p) \/ Terminate(p) => call' = call
           /\ KubeletRestart \/ RecordNetworkData => call' = call
<1>1. ASSUME NEW p \in Pods, StartPrepare(p)
      PROVE  Begun(call', "prepare", p) /\ call'.failed = FALSE
  BY <1>1, StartIs DEF StartPrepare
<1>2. ASSUME NEW p \in Pods, StartUnprepare(p)
      PROVE  Begun(call', "unprepare", p) /\ call'.failed = FALSE
  BY <1>2, StartIs DEF StartUnprepare
<1>3. Answer \/ AnswerError \/ Crash \/ Reboot => NoCall(call')
  BY IdleIs DEF Answer, AnswerError, Crash, Reboot
<1>4. \A p \in Pods : Reserve(p) \/ Terminate(p) => call' = call
  BY DEF Reserve, Terminate
<1>5. KubeletRestart \/ RecordNetworkData => call' = call
  BY DEF KubeletRestart, RecordNetworkData
<1> QED
  BY <1>1, <1>2, <1>3, <1>4, <1>5

\* The steps of a prepare that neither bind a driver nor store an entry.
LEMMA PrepareShapes ==
    ASSUME OneClaim, CallOK(call)
    PROVE  /\ RefuseClaim \/ Aborted => ClaimFailed(call, call')
           /\ AlreadyPrepared => ClaimDone(call, call')
           /\ PrepareDevicesForClaim => InPhase(call, call', "bind")
           /\ RejectDevice \/ UndoDevice \/ AbortDeviceInfo => Undoing(call, call')
           /\ FailDevice => IF Asked = NoDriver THEN Undoing(call, call')
                            ELSE InPhase(call, call', "undo")
           /\ SyncDeviceInfo => InPhase(call, call', "spec") \/ InPhase(call, call', "abortInfo")
           /\ CreateClaimSpecFile =>
                 InPhase(call, call', "set") \/ InPhase(call, call', "abortInfo")
           /\ CreateGlobalPodSpecFile =>
                 \/ InPhase(call, call', "return")
                 \/ Begun(call', "rollback", call.pod) /\ call'.failed = TRUE
<1>1. call \in Calls
  BY DEF CallOK
<1>2. RefuseClaim \/ Aborted => ClaimFailed(call, call')
  BY FailClaimIs DEF RefuseClaim, Aborted
<1>3. AlreadyPrepared => ClaimDone(call, call')
  BY NextClaimIs DEF AlreadyPrepared
<1>4. PrepareDevicesForClaim => InPhase(call, call', "bind")
  BY <1>1, PhaseIs DEF PrepareDevicesForClaim
<1>5. RejectDevice \/ UndoDevice \/ AbortDeviceInfo => Undoing(call, call')
  BY AbortIs DEF RejectDevice, UndoDevice, AbortDeviceInfo
<1>6. FailDevice => IF Asked = NoDriver THEN Undoing(call, call')
                    ELSE InPhase(call, call', "undo")
  BY <1>1, AbortIs, PhaseIs DEF FailDevice
<1>7. SyncDeviceInfo => InPhase(call, call', "spec") \/ InPhase(call, call', "abortInfo")
  BY <1>1, PhaseIs DEF SyncDeviceInfo
<1>8. CreateClaimSpecFile => InPhase(call, call', "set") \/ InPhase(call, call', "abortInfo")
  BY <1>1, PhaseIs DEF CreateClaimSpecFile
<1>9. CreateGlobalPodSpecFile =>
          \/ InPhase(call, call', "return")
          \/ Begun(call', "rollback", call.pod) /\ call'.failed = TRUE
  <2>1. ASSUME CreateGlobalPodSpecFile
        PROVE  \/ call' = [call EXCEPT !.phase = "return"]
               \/ call' = [Start("rollback", call.pod) EXCEPT !.failed = TRUE]
    BY <2>1 DEF CreateGlobalPodSpecFile
  <2>2. ASSUME call' = [call EXCEPT !.phase = "return"] PROVE InPhase(call, call', "return")
    BY <1>1, <2>2, PhaseIs
  <2>3. ASSUME call' = [Start("rollback", call.pod) EXCEPT !.failed = TRUE]
        PROVE  Begun(call', "rollback", call.pod) /\ call'.failed = TRUE
    BY <2>3, StartIs
  <2> QED
    BY <2>1, <2>2, <2>3
<1> QED
  BY <1>2, <1>3, <1>4, <1>5, <1>6, <1>7, <1>8, <1>9

\* The steps of an unprepare, and those that change the pod manager.
LEMMA UnprepareShapes ==
    ASSUME OneClaim, CallOK(call)
    PROVE  /\ NothingPrepared =>
                 /\ call'.pod = call.pod /\ call'.op = call.op /\ call'.work = call.work
                 /\ call'.phase = "return" /\ call'.failed = TRUE
           /\ StoreClaim => ClaimDone(call, call') \/ InPhase(call, call', "cleanInfo")
           /\ UnprepareDeviceInfo =>
                 /\ call'.pod = call.pod /\ call'.op = call.op /\ call'.work = call.work
                 /\ call'.failed = call.failed /\ call'.di = 1 /\ call'.phase = "restore"
           /\ UnpreparedDevices =>
                 /\ call'.pod = call.pod /\ call'.op = call.op /\ call'.work = call.work
                 /\ call'.failed = call.failed /\ call'.phase = "unspec" /\ call'.err = call.err
           /\ DeleteSpecFiles =>
                 \/ ClaimFailed(call, call')
                 \/ InPhase(call, call', "delete") /\ call.op # "prepare" /\ call.err = FALSE
           /\ ForgetClaim => ClaimDone(call, call') \/ ClaimFailed(call, call')
<1>1. call \in Calls /\ call.err \in BOOLEAN
  BY DEF CallOK, Calls
<1>2. NothingPrepared =>
          /\ call'.pod = call.pod /\ call'.op = call.op /\ call'.work = call.work
          /\ call'.phase = "return" /\ call'.failed = TRUE
  BY <1>1 DEF NothingPrepared, Calls
<1>3. StoreClaim => ClaimDone(call, call') \/ InPhase(call, call', "cleanInfo")
  <2>1. ASSUME call' = [call EXCEPT !.phase = "cleanInfo", !.from = call.pod]
        PROVE  InPhase(call, call', "cleanInfo")
    BY <1>1, <2>1 DEF InPhase, Calls
  <2> QED
    BY <2>1, NextClaimIs DEF StoreClaim
<1>4. UnprepareDeviceInfo =>
          /\ call'.pod = call.pod /\ call'.op = call.op /\ call'.work = call.work
          /\ call'.failed = call.failed /\ call'.di = 1 /\ call'.phase = "restore"
  BY <1>1 DEF UnprepareDeviceInfo, Calls
<1>5. UnpreparedDevices =>
          /\ call'.pod = call.pod /\ call'.op = call.op /\ call'.work = call.work
          /\ call'.failed = call.failed /\ call'.phase = "unspec" /\ call'.err = call.err
  BY <1>1 DEF UnpreparedDevices, Calls
<1>6. DeleteSpecFiles =>
          \/ ClaimFailed(call, call')
          \/ InPhase(call, call', "delete") /\ call.op # "prepare" /\ call.err = FALSE
  BY <1>1, PhaseIs, FailClaimIs DEF DeleteSpecFiles
<1>7. ForgetClaim => ClaimDone(call, call') \/ ClaimFailed(call, call')
  BY NextClaimIs, FailClaimIs DEF ForgetClaim
<1> QED
  BY <1>2, <1>3, <1>4, <1>5, <1>6, <1>7

\* The claim to unprepare is not known, or its devices are those of an entry.
LEMMA LookupShape ==
    ASSUME OneClaim, CallOK(call), LookupClaim
    PROVE  \/ PodsWithClaim(Claim) = {} /\ ClaimDone(call, call')
           \/ \E p \in PodsWithClaim(Claim) :
                 /\ call'.pod = call.pod /\ call'.op = call.op /\ call'.failed = call.failed
                 /\ call'.work = preparedClaims[p][Claim] /\ call'.phase = "cleanInfo"
<1>1. call \in Calls
  BY DEF CallOK
<1>2. CASE PodsWithClaim(Claim) = {}
  BY <1>2, NextClaimIs DEF LookupClaim
<1>3. CASE PodsWithClaim(Claim) # {}
  <2>1. PICK p \in PodsWithClaim(Claim) :
            call' = [call EXCEPT !.phase = "cleanInfo", !.from = p,
                                 !.work = preparedClaims[p][Claim]]
    BY <1>3 DEF LookupClaim
  <2> QED
    BY <1>1, <2>1 DEF Calls
<1> QED
  BY <1>2, <1>3

\* The device is bound, or the claim is rolled back.
LEMMA BindShape ==
    ASSUME CallOK(call), BindDevice
    PROVE  \E o \in BindDeviceDriver(driver[Device], Asked) :
              /\ driver' = [driver EXCEPT ![Device] = o.to]
              /\ \/ /\ o.ok = TRUE /\ stranded' = stranded
                    /\ call'.pod = call.pod /\ call'.op = call.op /\ call'.work = call.work
                    /\ call'.di = call.di /\ call'.err = call.err
                    /\ call'.failed = call.failed /\ call'.phase = "finish"
                    /\ call'.ifNameIndex = call.ifNameIndex
                    /\ Asked # NoDriver => call'.orig = driver[Device]
                 \/ /\ o.ok = FALSE /\ Undoing(call, call')
                    /\ \/ stranded' = stranded /\ o.to = Native[Device]
                       \/ stranded' = stranded \cup {Device}
<1>1. call \in Calls
  BY DEF CallOK
<1>2. PICK o \in BindDeviceDriver(driver[Device], Asked) :
           /\ driver' = [driver EXCEPT ![Device] = o.to]
           /\ call' = IF o.ok
                      THEN [call EXCEPT !.phase = "finish",
                                        !.orig = IF Asked = NoDriver THEN NoDriver
                                                 ELSE driver[Device]]
                      ELSE Abort(call)
           /\ stranded' = IF o.ok \/ o.to = Native[Device] THEN stranded
                          ELSE stranded \cup {Device}
  BY DEF BindDevice
<1>3. o.ok = TRUE \/ o.ok = FALSE
  BY OutcomeOk
<1>4. CASE o.ok = TRUE
  <2>1. /\ stranded' = stranded
        /\ call' = [call EXCEPT !.phase = "finish",
                                !.orig = IF Asked = NoDriver THEN NoDriver
                                         ELSE driver[Device]]
    BY <1>2, <1>4
  <2>2. /\ call'.pod = call.pod /\ call'.op = call.op /\ call'.work = call.work
        /\ call'.di = call.di /\ call'.err = call.err
        /\ call'.failed = call.failed /\ call'.phase = "finish"
        /\ call'.ifNameIndex = call.ifNameIndex
        /\ Asked # NoDriver => call'.orig = driver[Device]
    BY <1>1, <2>1 DEF Calls
  <2> QED
    BY <1>2, <1>4, <2>1, <2>2
<1>5. CASE o.ok = FALSE
  <2>1. /\ call' = Abort(call)
        /\ \/ stranded' = stranded /\ o.to = Native[Device]
           \/ stranded' = stranded \cup {Device}
    BY <1>2, <1>5
  <2>2. Undoing(call, call')
    BY <2>1, AbortIs
  <2> QED
    BY <1>2, <1>5, <2>1, <2>2
<1> QED
  BY <1>3, <1>4, <1>5

\* The device is put back, or stranded.
LEMMA UndoShape ==
    ASSUME UndoDevice
    PROVE  \E o \in RestoreDeviceDriver(driver[Device], call.orig) :
              /\ driver' = [driver EXCEPT ![Device] = o.to]
              /\ \/ o.ok = TRUE /\ stranded' = stranded
                 \/ o.ok = FALSE /\ stranded' = stranded \cup {Device}
<1>1. PICK o \in RestoreDeviceDriver(driver[Device], call.orig) :
          /\ driver' = [driver EXCEPT ![Device] = o.to]
          /\ stranded' = IF o.ok THEN stranded ELSE stranded \cup {Device}
  BY DEF UndoDevice
<1>2. o.ok = TRUE \/ o.ok = FALSE
  BY OutcomeOk
<1> QED
  BY <1>1, <1>2

\* A device is put back or passed over, or it is not.
LEMMA RevertedOk == \A o \in Reverted : o.ok = TRUE \/ o.ok = FALSE
<1>1. CASE Asked = NoDriver
  BY <1>1, OutcomeFields DEF Reverted
<1>2. CASE Asked # NoDriver
  BY <1>2, OutcomeOk DEF Reverted
<1> QED
  BY <1>1, <1>2

\* The device is put back, or it and the rest of the claim is stranded.
LEMMA AbortShape ==
    ASSUME OneClaim, CallOK(call), AbortDevice
    PROVE  \E o \in Reverted :
              /\ driver' = [driver EXCEPT ![Device] = o.to]
              /\ \/ /\ o.ok = TRUE /\ stranded' = stranded
                    /\ call'.pod = call.pod /\ call'.op = call.op /\ call'.work = call.work
                    /\ call'.di = call.di + 1 /\ call'.err = call.err
                    /\ call'.failed = call.failed /\ call'.phase = "abort"
                 \/ /\ o.ok = FALSE /\ ClaimFailed(call, call')
                    /\ stranded' = stranded \cup Remaining
<1>1. call \in Calls /\ call.phase = "abort"
  BY DEF CallOK, AbortDevice, Calling
<1>2. PICK o \in Reverted :
           /\ driver' = [driver EXCEPT ![Device] = o.to]
           /\ call' = IF o.ok THEN [call EXCEPT !.di = @ + 1] ELSE FailClaim(call)
           /\ stranded' = IF o.ok THEN stranded ELSE
                  stranded \cup Remaining
  BY DEF AbortDevice
<1>3. o.ok = TRUE \/ o.ok = FALSE
  BY RevertedOk
<1>4. CASE o.ok = TRUE
  <2>1. stranded' = stranded /\ call' = [call EXCEPT !.di = @ + 1]
    BY <1>2, <1>4
  <2>2. /\ call'.pod = call.pod /\ call'.op = call.op /\ call'.work = call.work
        /\ call'.di = call.di + 1 /\ call'.err = call.err
        /\ call'.failed = call.failed /\ call'.phase = "abort"
    BY <1>1, <2>1 DEF Calls
  <2> QED
    BY <1>2, <1>4, <2>1, <2>2
<1>5. CASE o.ok = FALSE
  <2>1. /\ call' = FailClaim(call)
        /\ stranded' = stranded \cup Remaining
    BY <1>2, <1>5
  <2>2. ClaimFailed(call, call')
    BY <2>1, FailClaimIs
  <2> QED
    BY <1>2, <1>5, <2>1, <2>2
<1> QED
  BY <1>3, <1>4, <1>5

\* The device is put back, or the claim's unprepare fails and keeps its entry.
LEMMA RestoreShape ==
    ASSUME CallOK(call), UnprepareDevice
    PROVE  \E o \in Reverted :
              /\ driver' = [driver EXCEPT ![Device] = o.to] /\ stranded' = stranded
              /\ call'.pod = call.pod /\ call'.op = call.op /\ call'.work = call.work
              /\ call'.failed = call.failed
              /\ \/ o.ok = TRUE /\ call'.di = call.di + 1 /\ call'.phase = "restore"
                 \/ o.ok = FALSE /\ call'.err = TRUE /\ call'.phase = "unspec"
<1>1. call \in Calls /\ call.phase = "restore"
  BY DEF CallOK, UnprepareDevice, Calling
<1>2. PICK o \in Reverted :
           /\ driver' = [driver EXCEPT ![Device] = o.to]
           /\ call' = IF o.ok THEN [call EXCEPT !.di = @ + 1]
                      ELSE [call EXCEPT !.phase = "unspec", !.err = TRUE, !.di = 1]
  BY DEF UnprepareDevice
<1>3. stranded' = stranded
  BY DEF UnprepareDevice
<1>4. o.ok = TRUE \/ o.ok = FALSE
  BY RevertedOk
<1>5. CASE o.ok = TRUE
  <2>1. call' = [call EXCEPT !.di = @ + 1]
    BY <1>2, <1>5
  <2>2. /\ call'.pod = call.pod /\ call'.op = call.op /\ call'.work = call.work
        /\ call'.failed = call.failed /\ call'.di = call.di + 1 /\ call'.phase = "restore"
    BY <1>1, <2>1 DEF Calls
  <2> QED
    BY <1>2, <1>3, <1>5, <2>2
<1>6. CASE o.ok = FALSE
  <2>1. call' = [call EXCEPT !.phase = "unspec", !.err = TRUE, !.di = 1]
    BY <1>2, <1>6
  <2>2. /\ call'.pod = call.pod /\ call'.op = call.op /\ call'.work = call.work
        /\ call'.failed = call.failed /\ call'.err = TRUE /\ call'.phase = "unspec"
    BY <1>1, <2>1 DEF Calls
  <2> QED
    BY <1>2, <1>3, <1>6, <2>2
<1> QED
  BY <1>4, <1>5, <1>6

\* The device joins the prepared ones.
LEMMA FinishShape ==
    ASSUME CallOK(call), FinishDevice
    PROVE  \E device :
              /\ device.orig = call.orig
              /\ ~MultusMode => device.ifName = call.ifNameIndex
              /\ call'.work = Append(call.work, device)
              /\ ~MultusMode => call'.ifNameIndex = call.ifNameIndex + 1
              /\ call'.pod = call.pod /\ call'.op = call.op
              /\ call'.err = call.err /\ call'.failed = call.failed
              /\ IF call.di = Len(Results[Claim]) THEN call'.phase = "info"
                 ELSE call'.phase = "bind" /\ call'.di = call.di + 1
<1>1. call \in Calls
  BY DEF CallOK
<1>2. PICK info \in BOOLEAN :
          LET device == [orig |-> call.orig, info |-> info,
                         ifName |-> IF MultusMode THEN 0 ELSE call.ifNameIndex]
              last == call.di = Len(Results[Claim])
          IN  call' = [call EXCEPT !.work = Append(@, device),
                                   !.orig = NoDriver,
                                   !.ifNameIndex = IF MultusMode THEN @ ELSE @ + 1,
                                   !.di = IF last THEN 1 ELSE @ + 1,
                                   !.phase = IF last THEN "info" ELSE "bind"]
  BY DEF FinishDevice
<1> DEFINE device == [orig |-> call.orig, info |-> info,
                      ifName |-> IF MultusMode THEN 0 ELSE call.ifNameIndex]
           w == Append(call.work, device)
<1>3. device.orig = call.orig /\ (~MultusMode => device.ifName = call.ifNameIndex)
  OBVIOUS
<1>4. call' = [call EXCEPT !.work = w, !.orig = NoDriver,
                           !.ifNameIndex = IF MultusMode THEN @ ELSE @ + 1,
                           !.di = IF call.di = Len(Results[Claim]) THEN 1 ELSE @ + 1,
                           !.phase = IF call.di = Len(Results[Claim]) THEN "info" ELSE "bind"]
  BY <1>1, <1>2 DEF Calls
<1> HIDE DEF w
<1>5. /\ call'.work = w /\ (~MultusMode => call'.ifNameIndex = call.ifNameIndex + 1)
      /\ call'.pod = call.pod /\ call'.op = call.op
      /\ call'.err = call.err /\ call'.failed = call.failed
      /\ IF call.di = Len(Results[Claim]) THEN call'.phase = "info"
         ELSE call'.phase = "bind" /\ call'.di = call.di + 1
  BY <1>1, <1>4 DEF Calls
<1>6. w = Append(call.work, device)
  BY DEF w
<1> HIDE DEF device
<1> QED
  BY <1>3, <1>5, <1>6
-------------------------------------------------------------------------------
\* Every step leaves the call with what its phase needs.
LEMMA PhaseNext ==
    ASSUME OneClaim, LifecycleInv, RecordInv, Next
    PROVE  PhaseOK(call')
<1>1. CallOK(call) /\ PhaseOK(call) /\ Claim = ClaimOf(call.pod) /\ call.pod \in Pods
  BY CallClaim DEF LifecycleInv, RecordInv
<1>2. ASSUME NEW p \in Pods, StartPrepare(p) \/ StartUnprepare(p) PROVE PhaseOK(call')
  BY <1>1, <1>2, EndShapes DEF Begun, PhaseOK, Preparing
<1>3. CASE Answer \/ AnswerError \/ Crash \/ Reboot
  BY <1>1, <1>3, EndShapes DEF NoCall, PhaseOK, Preparing
<1>4. CASE call' = call
  BY <1>1, <1>4
<1>5. ASSUME ClaimFailed(call, call') PROVE PhaseOK(call')
  BY <1>1, <1>5 DEF ClaimFailed, PhaseOK, Preparing
<1>6. ASSUME ClaimDone(call, call') PROVE PhaseOK(call')
  BY <1>1, <1>6 DEF ClaimDone, PhaseOK, Preparing
<1>7. ASSUME Undoing(call, call'), call.op = "prepare" PROVE PhaseOK(call')
  BY <1>1, <1>7 DEF Undoing, PhaseOK, Preparing
<1>8. CASE RefuseClaim \/ Aborted \/ AlreadyPrepared
  BY <1>1, <1>5, <1>6, <1>8, PrepareShapes
<1>9. CASE PrepareDevicesForClaim
  <2>1. call.phase = "claim" /\ InPhase(call, call', "bind")
    BY <1>1, <1>9, PrepareShapes DEF PrepareDevicesForClaim, Calling
  <2> QED
    BY <1>1, <2>1 DEF InPhase, PhaseOK, Preparing
<1>10. CASE RejectDevice \/ UndoDevice \/ AbortDeviceInfo
  <2>1. call.phase \in Preparing
    BY <1>10 DEF RejectDevice, UndoDevice, AbortDeviceInfo, Calling, Preparing
  <2>2. call.op = "prepare"
    BY <1>1, <2>1 DEF PhaseOK
  <2> QED
    BY <1>1, <1>7, <1>10, <2>2, PrepareShapes
<1>11. CASE BindDevice
  <2>1. call.phase = "bind" /\ call.op = "prepare"
    BY <1>1, <1>11 DEF BindDevice, Calling, PhaseOK, Preparing
  <2>2. CASE Undoing(call, call')
    BY <1>7, <2>1, <2>2
  <2>3. CASE ~Undoing(call, call')
    <3>1. /\ call'.pod = call.pod /\ call'.op = call.op /\ call'.failed = call.failed
          /\ call'.phase = "finish"
      BY <1>1, <1>11, <2>3, BindShape
    <3> QED
      BY <1>1, <2>1, <3>1 DEF PhaseOK, Preparing
  <2> QED
    BY <2>2, <2>3
<1>12. CASE FinishDevice
  <2>1. /\ call.phase = "finish" /\ call.op = "prepare"
        /\ call.di = Len(call.work) + 1 /\ call.work \in Seq(PreparedDevice)
    BY <1>1, <1>12, CallFacts DEF FinishDevice, Calling, PhaseOK, Preparing, CallOK
  <2>2. PICK device :
            /\ call'.work = Append(call.work, device)
            /\ call'.pod = call.pod /\ call'.op = call.op /\ call'.failed = call.failed
            /\ IF call.di = Len(Results[Claim]) THEN call'.phase = "info"
               ELSE call'.phase = "bind" /\ call'.di = call.di + 1
    BY <1>1, <1>12, FinishShape
  <2>3. Len(call'.work) = call.di
    BY <2>1, <2>2
  <2>4. call'.phase = "bind" \/ (call'.phase = "info" /\ Len(call'.work) = Len(Results[Claim]))
    BY <2>2, <2>3
  <2> QED
    BY <1>1, <2>1, <2>2, <2>4 DEF PhaseOK, Preparing
<1>13. CASE FailDevice
  <2>1. call.phase = "finish" /\ call.op = "prepare"
    BY <1>1, <1>13 DEF FailDevice, Calling, PhaseOK, Preparing
  <2>2. Undoing(call, call') \/ (Asked # NoDriver /\ InPhase(call, call', "undo"))
    BY <1>1, <1>13, PrepareShapes
  <2> QED
    BY <1>1, <1>7, <2>1, <2>2 DEF InPhase, PhaseOK, Preparing, Asked, Device
<1>14. CASE AbortDevice
  <2>1. call.op = "prepare"
    BY <1>1, <1>14 DEF AbortDevice, Calling, PhaseOK, Preparing
  <2>2. \/ ClaimFailed(call, call')
        \/ /\ call'.pod = call.pod /\ call'.op = call.op /\ call'.failed = call.failed
           /\ call'.phase = "abort"
    BY <1>1, <1>14, AbortShape
  <2> QED
    BY <1>1, <1>5, <2>1, <2>2 DEF PhaseOK, Preparing
<1>15. CASE SyncDeviceInfo
  <2>1. call.phase = "info"
    BY <1>15 DEF SyncDeviceInfo, Calling
  <2>2. InPhase(call, call', "spec") \/ InPhase(call, call', "abortInfo")
    BY <1>1, <1>15, PrepareShapes
  <2> QED
    BY <1>1, <2>1, <2>2 DEF InPhase, PhaseOK, Preparing
<1>16. CASE CreateClaimSpecFile
  <2>1. call.phase = "spec"
    BY <1>16 DEF CreateClaimSpecFile, Calling
  <2>2. InPhase(call, call', "set") \/ InPhase(call, call', "abortInfo")
    BY <1>1, <1>16, PrepareShapes
  <2> QED
    BY <1>1, <2>1, <2>2 DEF InPhase, PhaseOK, Preparing
<1>17. CASE StoreClaim
  <2>1. call.phase = "set"
    BY <1>17 DEF StoreClaim, Calling
  <2>2. ClaimDone(call, call') \/ InPhase(call, call', "cleanInfo")
    BY <1>1, <1>17, UnprepareShapes
  <2> QED
    BY <1>1, <1>6, <2>1, <2>2 DEF InPhase, PhaseOK, Preparing
<1>18. CASE CreateGlobalPodSpecFile
  <2>1. call.phase = "podspec"
    BY <1>18 DEF CreateGlobalPodSpecFile, Calling
  <2>2. \/ InPhase(call, call', "return")
        \/ Begun(call', "rollback", call.pod) /\ call'.failed = TRUE
    BY <1>1, <1>18, PrepareShapes
  <2> QED
    BY <1>1, <2>1, <2>2 DEF InPhase, Begun, PhaseOK, Preparing
<1>19. CASE NothingPrepared
  <2>1. /\ call'.pod = call.pod /\ call'.op = call.op
        /\ call'.phase = "return" /\ call'.failed = TRUE
    BY <1>1, <1>19, UnprepareShapes
  <2> QED
    BY <2>1 DEF PhaseOK, Preparing
<1>20. CASE LookupClaim
  <2>1. CASE ClaimDone(call, call')
    BY <1>6, <2>1
  <2>2. CASE ~ClaimDone(call, call')
    <3>1. PICK p \in PodsWithClaim(Claim) :
              /\ call'.pod = call.pod /\ call'.op = call.op /\ call'.failed = call.failed
              /\ call'.work = preparedClaims[p][Claim] /\ call'.phase = "cleanInfo"
      BY <1>1, <1>20, <2>2, LookupShape
    <3>2. Len(preparedClaims[p][Claim]) = Len(Results[Claim])
      BY <1>1, <3>1, CallFacts DEF PodsWithClaim, Get, RecordInv, RecordsOK
    <3>3. call.phase = "lookup"
      BY <1>20 DEF LookupClaim, Calling
    <3> QED
      BY <1>1, <3>1, <3>2, <3>3 DEF PhaseOK, Preparing
  <2> QED
    BY <2>1, <2>2
<1>21. CASE UnprepareDeviceInfo
  <2>1. call.phase = "cleanInfo"
    BY <1>21 DEF UnprepareDeviceInfo, Calling
  <2>2. /\ call'.pod = call.pod /\ call'.op = call.op /\ call'.work = call.work
        /\ call'.failed = call.failed /\ call'.phase = "restore"
    BY <1>1, <1>21, UnprepareShapes
  <2> QED
    BY <1>1, <2>1, <2>2 DEF PhaseOK, Preparing
<1>22. CASE UnprepareDevice
  <2>1. call.phase = "restore"
    BY <1>22 DEF UnprepareDevice, Calling
  <2>2. /\ call'.pod = call.pod /\ call'.op = call.op /\ call'.work = call.work
        /\ call'.failed = call.failed /\ call'.phase \in {"restore", "unspec"}
    BY <1>1, <1>22, RestoreShape
  <2> QED
    BY <1>1, <2>1, <2>2 DEF PhaseOK, Preparing
<1>23. CASE UnpreparedDevices
  <2>1. /\ call.phase = "restore"
        /\ call'.pod = call.pod /\ call'.op = call.op
        /\ call'.failed = call.failed /\ call'.phase = "unspec"
    BY <1>1, <1>23, UnprepareShapes DEF UnpreparedDevices, Calling
  <2> QED
    BY <1>1, <2>1 DEF PhaseOK, Preparing
<1>24. CASE DeleteSpecFiles
  <2>1. call.phase = "unspec" /\ call.op \in {"none", "prepare", "unprepare", "rollback"}
    BY <1>1, <1>24 DEF DeleteSpecFiles, Calling, CallOK, Calls
  <2>2. \/ ClaimFailed(call, call')
        \/ InPhase(call, call', "delete") /\ call.op # "prepare" /\ call.err = FALSE
    BY <1>1, <1>24, UnprepareShapes
  <2> QED
    BY <1>1, <1>5, <2>1, <2>2 DEF InPhase, PhaseOK, Preparing
<1>25. CASE ForgetClaim
  BY <1>1, <1>5, <1>6, <1>25, UnprepareShapes
<1>26. ASSUME NEW p \in Pods, Reserve(p) \/ Terminate(p) PROVE call' = call
  BY <1>1, <1>26, EndShapes
<1>27. KubeletRestart \/ RecordNetworkData => call' = call
  BY <1>1, EndShapes
<1> QED
  BY <1>2, <1>3, <1>4, <1>8, <1>9, <1>10, <1>11, <1>12, <1>13, <1>14, <1>15, <1>16, <1>17,
     <1>18, <1>19, <1>20, <1>21, <1>22, <1>23, <1>24, <1>25, <1>26, <1>27
     DEF Next, CallStep

\* Where the call stands: at the claim of its pod, and at one of its devices.
LEMMA AtDevice ==
    ASSUME OneClaim, CallOK(call),
           call.phase \in {"bind", "finish", "undo"} \/ call.di <= Len(call.work)
    PROVE  /\ Device = Results[ClaimOf(call.pod)][call.di] /\ Device \in Devices
           /\ call.di \in 1..Len(Results[ClaimOf(call.pod)])
<1>1. Claim = ClaimOf(call.pod) /\ Size(call) = Len(Results[Claim])
  BY CallClaim, CallFacts
<1>2. Device \in Devices /\ call.di \in 1..Size(call)
  BY DeviceFacts
<1> QED
  BY <1>1, <1>2 DEF Device

\* A device of the call's claim is held by no pod but the call's.
LEMMA HolderIsCaller ==
    ASSUME Exclusive(pod), call.pod \in Pods, Live(call.pod),
           NEW i \in 1..Len(Results[ClaimOf(call.pod)]),
           NEW p \in Pods, Holder(p, Results[ClaimOf(call.pod)][i])
    PROVE  p = call.pod
<1> DEFINE d == Results[ClaimOf(call.pod)][i]
<1>1. d \in DevicesOf(ClaimOf(call.pod)) /\ d \in DevicesOf(ClaimOf(p))
  BY DEF Holder, DevicesOf, ToSet
<1>2. pod[p] \in LiveStates /\ pod[call.pod] \in LiveStates
  BY DEF Holder, Live, LiveStates
<1> QED
  BY <1>1, <1>2 DEF Exclusive

\* Which devices of its claim a call has on the way.
LEMMA OnTheWayAt ==
    ASSUME NEW r, r.pod \in Pods, NEW i \in 1..Len(Results[ClaimOf(r.pod)]),
           OnTheWay(r, Results[ClaimOf(r.pod)][i])
    PROVE  \/ r.phase \in Preparing \ {"abort"} /\ i <= Len(r.work)
           \/ r.phase \in {"finish", "undo"} /\ i = r.di
           \/ r.phase = "abort" /\ r.di <= i /\ i <= Len(r.work)
<1>1. PICK j \in 1..Len(Results[ClaimOf(r.pod)]) :
          /\ Results[ClaimOf(r.pod)][i] = Results[ClaimOf(r.pod)][j]
          /\ \/ r.phase \in Preparing \ {"abort"} /\ j <= Len(r.work)
             \/ r.phase \in {"finish", "undo"} /\ j = r.di
             \/ r.phase = "abort" /\ r.di <= j /\ j <= Len(r.work)
  BY DEF OnTheWay
<1>2. i = j
  BY <1>1, ClaimFacts
<1> QED
  BY <1>1, <1>2

\* A device of the call's claim that is away is in the claim's entry or on the way.
LEMMA AwayDevice ==
    ASSUME Exclusive(pod), AwayInv, call.pod \in Pods, Live(call.pod),
           NEW i \in 1..Len(Results[ClaimOf(call.pod)]),
           ~Home(Results[ClaimOf(call.pod)][i])
    PROVE  /\ Request[ClaimOf(call.pod)][Results[ClaimOf(call.pod)][i]] # NoDriver
           /\ \/ Get(call.pod, ClaimOf(call.pod))
              \/ OnTheWay(call, Results[ClaimOf(call.pod)][i])
<1> DEFINE d == Results[ClaimOf(call.pod)][i]
<1>1. d \in Devices
  BY ClaimFacts
<1>2. PICK p \in Pods : Holder(p, d)
  BY <1>1 DEF AwayInv
<1>3. p = call.pod
  BY <1>2, HolderIsCaller
<1> QED
  BY <1>2, <1>3 DEF Holder

\* A device is on its native driver when a claim takes it.
LEMMA BindFromHome ==
    ASSUME OneClaim, LifecycleInv, RecordInv, call.phase = "bind"
    PROVE  Home(Device)
<1>1. CallOK(call) /\ call.pod \in Pods /\ call.di = Len(call.work) + 1
  BY CallClaim DEF LifecycleInv, CallOK
<1>2. /\ Device = Results[ClaimOf(call.pod)][call.di]
      /\ call.di \in 1..Len(Results[ClaimOf(call.pod)])
  BY <1>1, AtDevice
<1>3. Exclusive(pod) /\ AwayInv /\ Live(call.pod) /\ ~Get(call.pod, ClaimOf(call.pod))
  BY DEF RecordInv, LiveInv, FreshInv, Preparing
<1>4. SUFFICES ASSUME ~Home(Device) PROVE FALSE
  OBVIOUS
<1>5. OnTheWay(call, Results[ClaimOf(call.pod)][call.di])
  BY <1>1, <1>2, <1>3, <1>4, AwayDevice
<1>6. call.di <= Len(call.work)
  BY <1>1, <1>2, <1>5, OnTheWayAt
<1> QED
  BY <1>1, <1>6, CallClaim

\* A call keeps the native drivers of the devices it has in hand.
LEMMA HandNext ==
    ASSUME OneClaim, LifecycleInv, RecordInv, Next
    PROVE  HandOK(call', stranded')
<1>1. CallOK(call) /\ Claim = ClaimOf(call.pod) /\ call.pod \in Pods
  BY CallClaim DEF LifecycleInv
<1>2. HandOK(call, stranded') /\ RecordsOK(preparedClaims, stranded')
  BY StrandedGrows, RecordsStay DEF RecordInv
<1>3. ASSUME call'.phase \notin {"finish", "undo"}, call'.work = <<>>
      PROVE  HandOK(call', stranded')
  BY <1>3, EmptyWork DEF HandOK, OnRecord
<1>4. ASSUME call'.phase \notin {"finish", "undo"}, call'.work = call.work,
             call'.pod = call.pod
      PROVE  HandOK(call', stranded')
  BY <1>2, <1>4 DEF HandOK
<1>5. ASSUME NEW p \in Pods, StartPrepare(p) \/ StartUnprepare(p) PROVE HandOK(call', stranded')
  BY <1>1, <1>3, <1>5, EndShapes DEF Begun
<1>6. CASE Answer \/ AnswerError \/ Crash \/ Reboot
  BY <1>1, <1>3, <1>6, EndShapes DEF NoCall
<1>7. CASE call' = call
  BY <1>2, <1>7
<1>8. ASSUME ClaimFailed(call, call') \/ ClaimDone(call, call') PROVE HandOK(call', stranded')
  BY <1>3, <1>8 DEF ClaimFailed, ClaimDone
<1>9. ASSUME Undoing(call, call') PROVE HandOK(call', stranded')
  BY <1>4, <1>9 DEF Undoing
<1>10. ASSUME NEW ph, ph \notin {"finish", "undo"}, InPhase(call, call', ph)
       PROVE  HandOK(call', stranded')
  BY <1>4, <1>10 DEF InPhase
<1>11. CASE RefuseClaim \/ Aborted \/ AlreadyPrepared
  BY <1>1, <1>8, <1>11, PrepareShapes
<1>12. CASE PrepareDevicesForClaim \/ SyncDeviceInfo \/ CreateClaimSpecFile
  BY <1>1, <1>10, <1>12, PrepareShapes
<1>13. CASE RejectDevice \/ UndoDevice \/ AbortDeviceInfo
  BY <1>1, <1>9, <1>13, PrepareShapes
<1>14. CASE BindDevice
  <2>1. CASE Undoing(call, call')
    BY <1>9, <2>1
  <2>2. CASE ~Undoing(call, call')
    <3>1. /\ stranded' = stranded
          /\ call'.pod = call.pod /\ call'.work = call.work
          /\ call'.di = call.di /\ call'.phase = "finish"
          /\ Asked # NoDriver => call'.orig = driver[Device]
      BY <1>1, <1>14, <2>2, BindShape
    <3>2. call.phase = "bind"
      BY <1>14 DEF BindDevice, Calling
    <3>3. Home(Device) /\ Device = Results[ClaimOf(call.pod)][call.di]
      BY <1>1, <3>2, BindFromHome, AtDevice
    <3> QED
      BY <1>1, <1>2, <3>1, <3>3 DEF HandOK, Home, HomeIn, Asked
  <2> QED
    BY <2>1, <2>2
<1>15. CASE FinishDevice
  <2>1. /\ call.phase = "finish" /\ call.di = Len(call.work) + 1
        /\ call.work \in Seq(PreparedDevice)
    BY <1>1, <1>15, CallFacts DEF FinishDevice, Calling, CallOK
  <2>2. PICK device :
            /\ device.orig = call.orig /\ call'.work = Append(call.work, device)
            /\ call'.pod = call.pod /\ call'.phase \in {"bind", "info"}
    BY <1>1, <1>15, FinishShape
  <2>3. OnRecord(ClaimOf(call.pod), call'.work, stranded')
    <3> DEFINE c == ClaimOf(call.pod)
    <3>1. SUFFICES ASSUME NEW i \in 1..Len(call'.work),
                          Request[c][Results[c][i]] # NoDriver, Results[c][i] \notin stranded'
                   PROVE  call'.work[i].orig = Native[Results[c][i]]
      BY DEF OnRecord
    <3>2. CASE i <= Len(call.work)
      <4>1. call'.work[i] = call.work[i] /\ i \in 1..Len(call.work)
        BY <2>1, <2>2, <3>2
      <4> QED
        BY <1>2, <3>1, <4>1 DEF HandOK, OnRecord
    <3>3. CASE i > Len(call.work)
      <4>1. i = call.di /\ call'.work[i] = device
        BY <2>1, <2>2, <3>3
      <4>2. call.orig = Native[Results[c][call.di]]
        BY <1>2, <2>1, <3>1, <4>1 DEF HandOK
      <4> QED
        BY <2>2, <4>1, <4>2
    <3> QED
      BY <2>1, <2>2, <3>2, <3>3
  <2> QED
    BY <2>2, <2>3 DEF HandOK
<1>16. CASE FailDevice
  <2>1. Undoing(call, call') \/ InPhase(call, call', "undo")
    BY <1>1, <1>16, PrepareShapes
  <2>2. call.phase = "finish"
    BY <1>16 DEF FailDevice, Calling
  <2>3. ASSUME InPhase(call, call', "undo") PROVE HandOK(call', stranded')
    BY <1>2, <2>2, <2>3 DEF InPhase, HandOK
  <2> QED
    BY <1>9, <2>1, <2>3
<1>17. CASE AbortDevice
  <2>1. \/ ClaimFailed(call, call')
        \/ call'.pod = call.pod /\ call'.work = call.work /\ call'.phase = "abort"
    BY <1>1, <1>17, AbortShape
  <2> QED
    BY <1>4, <1>8, <2>1
<1>18. CASE StoreClaim
  <2>1. ClaimDone(call, call') \/ InPhase(call, call', "cleanInfo")
    BY <1>1, <1>18, UnprepareShapes
  <2> QED
    BY <1>8, <1>10, <2>1
<1>19. CASE CreateGlobalPodSpecFile
  <2>1. \/ InPhase(call, call', "return")
        \/ Begun(call', "rollback", call.pod) /\ call'.failed = TRUE
    BY <1>1, <1>19, PrepareShapes
  <2>2. ASSUME Begun(call', "rollback", call.pod) PROVE HandOK(call', stranded')
    BY <1>3, <2>2 DEF Begun
  <2> QED
    BY <1>10, <2>1, <2>2
<1>20. CASE NothingPrepared \/ UnprepareDeviceInfo \/ UnpreparedDevices
  <2>1. /\ call'.pod = call.pod /\ call'.work = call.work
        /\ call'.phase \in {"return", "restore", "unspec"}
    BY <1>1, <1>20, UnprepareShapes
  <2> QED
    BY <1>4, <2>1
<1>21. CASE LookupClaim
  <2>1. CASE ClaimDone(call, call')
    BY <1>8, <2>1
  <2>2. CASE ~ClaimDone(call, call')
    <3>1. PICK p \in PodsWithClaim(Claim) :
              /\ call'.pod = call.pod
              /\ call'.work = preparedClaims[p][Claim] /\ call'.phase = "cleanInfo"
      BY <1>1, <1>21, <2>2, LookupShape
    <3>2. OnRecord(Claim, preparedClaims[p][Claim], stranded')
      BY <1>1, <1>2, <3>1, CallFacts DEF PodsWithClaim, Get, RecordsOK
    <3> QED
      BY <1>1, <3>1, <3>2 DEF HandOK
  <2> QED
    BY <2>1, <2>2
<1>22. CASE UnprepareDevice
  <2>1. /\ call'.pod = call.pod /\ call'.work = call.work
        /\ call'.phase \in {"restore", "unspec"}
    BY <1>1, <1>22, RestoreShape
  <2> QED
    BY <1>4, <2>1
<1>23. CASE DeleteSpecFiles
  <2>1. ClaimFailed(call, call') \/ InPhase(call, call', "delete")
    BY <1>1, <1>23, UnprepareShapes
  <2> QED
    BY <1>8, <1>10, <2>1
<1>24. CASE ForgetClaim
  BY <1>1, <1>8, <1>24, UnprepareShapes
<1>25. ASSUME NEW p \in Pods, Reserve(p) \/ Terminate(p) PROVE call' = call
  BY <1>1, <1>25, EndShapes
<1>26. KubeletRestart \/ RecordNetworkData => call' = call
  BY <1>1, EndShapes
<1> QED
  BY <1>5, <1>6, <1>7, <1>11, <1>12, <1>13, <1>14, <1>15, <1>16, <1>17, <1>18, <1>19,
     <1>20, <1>21, <1>22, <1>23, <1>24, <1>25, <1>26
     DEF Next, CallStep

\* A step of a call is for the call's pod, or ends the call.
LEMMA CallPod ==
    ASSUME OneClaim, CallOK(call), CallStep
    PROVE  NoCall(call') \/ (call'.pod = call.pod /\ call.phase # "idle")
<1>1. CASE Answer \/ AnswerError
  BY <1>1, EndShapes
<1>2. CASE RefuseClaim \/ Aborted \/ AlreadyPrepared \/ PrepareDevicesForClaim
  <2>1. call.phase # "idle"
    BY <1>2 DEF RefuseClaim, Aborted, AlreadyPrepared, PrepareDevicesForClaim, Calling
  <2>2. \/ ClaimFailed(call, call') \/ ClaimDone(call, call') \/ InPhase(call, call', "bind")
    BY <1>2, PrepareShapes
  <2> QED
    BY <2>1, <2>2 DEF ClaimFailed, ClaimDone, InPhase
<1>3. CASE RejectDevice \/ UndoDevice \/ AbortDeviceInfo
  <2>1. call.phase # "idle" /\ Undoing(call, call')
    BY <1>3, PrepareShapes DEF RejectDevice, UndoDevice, AbortDeviceInfo, Calling
  <2> QED
    BY <2>1 DEF Undoing
<1>4. CASE FailDevice
  <2>1. call.phase # "idle" /\ (Undoing(call, call') \/ InPhase(call, call', "undo"))
    BY <1>4, PrepareShapes DEF FailDevice, Calling
  <2> QED
    BY <2>1 DEF Undoing, InPhase
<1>5. CASE SyncDeviceInfo \/ CreateClaimSpecFile
  <2>1. /\ call.phase # "idle"
        /\ \/ InPhase(call, call', "spec") \/ InPhase(call, call', "abortInfo")
           \/ InPhase(call, call', "set")
    BY <1>5, PrepareShapes DEF SyncDeviceInfo, CreateClaimSpecFile, Calling
  <2> QED
    BY <2>1 DEF InPhase
<1>6. CASE CreateGlobalPodSpecFile
  <2>1. /\ call.phase # "idle"
        /\ InPhase(call, call', "return") \/ Begun(call', "rollback", call.pod)
    BY <1>6, PrepareShapes DEF CreateGlobalPodSpecFile, Calling
  <2> QED
    BY <2>1 DEF InPhase, Begun
<1>7. CASE NothingPrepared \/ UnprepareDeviceInfo \/ UnpreparedDevices
  BY <1>7, UnprepareShapes DEF NothingPrepared, UnprepareDeviceInfo, UnpreparedDevices, Calling
<1>8. CASE StoreClaim \/ DeleteSpecFiles \/ ForgetClaim
  <2>1. /\ call.phase # "idle"
        /\ \/ ClaimDone(call, call') \/ ClaimFailed(call, call')
           \/ InPhase(call, call', "cleanInfo") \/ InPhase(call, call', "delete")
    BY <1>8, UnprepareShapes DEF StoreClaim, DeleteSpecFiles, ForgetClaim, Calling
  <2> QED
    BY <2>1 DEF ClaimDone, ClaimFailed, InPhase
<1>9. CASE LookupClaim
  <2>1. call.phase # "idle" /\ (ClaimDone(call, call') \/ call'.pod = call.pod)
    BY <1>9, LookupShape DEF LookupClaim, Calling
  <2> QED
    BY <2>1 DEF ClaimDone
<1>10. CASE BindDevice
  <2>1. call.phase # "idle" /\ (Undoing(call, call') \/ call'.pod = call.pod)
    BY <1>10, BindShape DEF BindDevice, Calling
  <2> QED
    BY <2>1 DEF Undoing
<1>11. CASE AbortDevice
  <2>1. call.phase # "idle" /\ (ClaimFailed(call, call') \/ call'.pod = call.pod)
    BY <1>11, AbortShape DEF AbortDevice, Calling
  <2> QED
    BY <2>1 DEF ClaimFailed
<1>12. CASE UnprepareDevice
  BY <1>12, RestoreShape DEF UnprepareDevice, Calling
<1>13. CASE FinishDevice
  BY <1>13, FinishShape DEF FinishDevice, Calling
<1> QED
  BY <1>1, <1>2, <1>3, <1>4, <1>5, <1>6, <1>7, <1>8, <1>9, <1>10, <1>11, <1>12, <1>13
     DEF CallStep

\* A pod stays live until its unprepare is answered.
LEMMA LiveStays ==
    ASSUME LifecycleInv, Next, NEW p \in Pods, Live(p)
    PROVE  Live(p)' \/ (Answer /\ call.op = "unprepare" /\ p = call.pod)
<1>1. pod \in [Pods -> PodStates] /\ call.pod \in Pods
  BY CallFacts DEF LifecycleInv, KubeletOK
<1>2. ASSUME NEW q \in Pods, Reserve(q) \/ Terminate(q) PROVE Live(p)'
  BY <1>1, <1>2 DEF Reserve, Terminate, Live
<1>3. CASE Answer
  <2>1. CASE call.op = "prepare"
    BY <1>1, <1>3, <2>1 DEF Answer, Live
  <2>2. CASE call.op # "prepare"
    BY <1>1, <1>3, <2>2 DEF Answer, Live
  <2> QED
    BY <2>1, <2>2
<1>4. CASE UNCHANGED pod
  BY <1>4 DEF Live
<1> QED
  BY <1>2, <1>3, <1>4, PodUnchanged

\* A call is for a live pod.
LEMMA LiveNext ==
    ASSUME OneClaim, LifecycleInv, RecordInv, Next
    PROVE  LiveInv'
<1>1. CallOK(call) /\ LiveInv /\ call.pod \in Pods
  BY CallClaim DEF LifecycleInv, RecordInv
<1>2. ASSUME NEW p \in Pods, StartPrepare(p) \/ StartUnprepare(p) PROVE LiveInv'
  <2>1. call'.pod = p
    BY <1>1, <1>2, EndShapes DEF Begun
  <2>2. Live(p)'
    BY <1>2 DEF StartPrepare, StartUnprepare, kubeletVars, Live
  <2> QED
    BY <2>1, <2>2 DEF LiveInv, Live
<1>3. ASSUME call'.pod = call.pod, call.phase # "idle", ~Answer PROVE LiveInv'
  <2>1. Live(call.pod)'
    BY <1>1, <1>3, LiveStays DEF LiveInv
  <2> QED
    BY <1>3, <2>1 DEF LiveInv, Live
<1>4. ASSUME NoCall(call') PROVE LiveInv'
  BY <1>4 DEF NoCall, LiveInv
<1>5. CASE call' = call
  <2>1. ~Answer \/ call.phase = "idle"
    BY <1>5, IdleIs DEF Answer, NoCall
  <2>2. ASSUME call.phase = "idle" PROVE LiveInv'
    BY <1>5, <2>2 DEF LiveInv
  <2> QED
    BY <1>3, <1>5, <2>1, <2>2
<1>6. CASE CallStep
  <2>1. Answer => NoCall(call')
    BY <1>1, EndShapes
  <2> QED
    BY <1>1, <1>3, <1>4, <1>6, <2>1, CallPod
<1>7. Crash \/ Reboot => NoCall(call')
  BY <1>1, EndShapes
<1>8. ASSUME NEW p \in Pods, Reserve(p) \/ Terminate(p) PROVE call' = call
  BY <1>1, <1>8, EndShapes
<1>9. KubeletRestart \/ RecordNetworkData => call' = call
  BY <1>1, EndShapes
<1> QED
  BY <1>2, <1>4, <1>5, <1>6, <1>7, <1>8, <1>9 DEF Next

\* A claim that is being prepared has no entry.
LEMMA FreshNext ==
    ASSUME OneClaim, LifecycleInv, RecordInv, Next
    PROVE  FreshInv'
<1>1. CallOK(call) /\ FreshInv /\ call.pod \in Pods /\ Claim = ClaimOf(call.pod)
  BY CallClaim DEF LifecycleInv, RecordInv
<1>2. ASSUME call'.phase \notin Preparing PROVE FreshInv'
  BY <1>2 DEF FreshInv
<1>3. ASSUME UNCHANGED preparedClaims, call'.pod = call.pod, call.phase \in Preparing
      PROVE  FreshInv'
  BY <1>1, <1>3 DEF FreshInv, Get
<1>4. ASSUME NEW p \in Pods, StartPrepare(p) \/ StartUnprepare(p) PROVE FreshInv'
  BY <1>1, <1>2, <1>4, EndShapes DEF Begun, Preparing
<1>5. CASE Answer \/ AnswerError \/ Crash \/ Reboot
  BY <1>1, <1>2, <1>5, EndShapes DEF NoCall, Preparing
<1>6. ASSUME call' = call, UNCHANGED preparedClaims PROVE FreshInv'
  BY <1>1, <1>6 DEF FreshInv, Get
<1>7. ASSUME ClaimFailed(call, call') \/ ClaimDone(call, call') PROVE FreshInv'
  BY <1>2, <1>7 DEF ClaimFailed, ClaimDone, Preparing
<1>8. CASE PrepareDevicesForClaim
  <2>1. ~Get(call.pod, Claim) /\ UNCHANGED preparedClaims
    BY <1>8 DEF PrepareDevicesForClaim, podManagerVars
  <2>2. call'.pod = call.pod
    BY <1>1, <1>8, PrepareShapes DEF InPhase
  <2> QED
    BY <1>1, <2>1, <2>2 DEF FreshInv, Get
<1>9. CASE RefuseClaim \/ Aborted \/ AlreadyPrepared
  BY <1>1, <1>7, <1>9, PrepareShapes
<1>10. CASE RejectDevice \/ BindDevice \/ FinishDevice \/ FailDevice \/ UndoDevice
            \/ AbortDevice \/ SyncDeviceInfo \/ AbortDeviceInfo \/ CreateClaimSpecFile
  <2>1. UNCHANGED preparedClaims /\ call.phase \in Preparing /\ call.phase # "idle"
    BY <1>10 DEF RejectDevice, BindDevice, FinishDevice, FailDevice, UndoDevice, AbortDevice,
                 SyncDeviceInfo, AbortDeviceInfo, CreateClaimSpecFile, podManagerVars,
                 Calling, Preparing
  <2>2. NoCall(call') \/ call'.pod = call.pod
    BY <1>1, <1>10, CallPod DEF CallStep
  <2>3. ASSUME NoCall(call') PROVE FreshInv'
    BY <1>2, <2>3 DEF NoCall, Preparing
  <2> QED
    BY <1>3, <2>1, <2>2, <2>3
<1>11. CASE StoreClaim
  <2>1. ClaimDone(call, call') \/ InPhase(call, call', "cleanInfo")
    BY <1>1, <1>11, UnprepareShapes
  <2> QED
    BY <1>2, <1>7, <2>1 DEF InPhase, Preparing
<1>12. CASE CreateGlobalPodSpecFile
  <2>1. InPhase(call, call', "return") \/ Begun(call', "rollback", call.pod)
    BY <1>1, <1>12, PrepareShapes
  <2> QED
    BY <1>2, <2>1 DEF InPhase, Begun, Preparing
<1>13. CASE NothingPrepared \/ UnprepareDeviceInfo \/ UnpreparedDevices
  <2>1. call'.phase \in {"return", "restore", "unspec"}
    BY <1>1, <1>13, UnprepareShapes
  <2> QED
    BY <1>2, <2>1 DEF Preparing
<1>14. CASE LookupClaim
  <2>1. ClaimDone(call, call') \/ call'.phase = "cleanInfo"
    BY <1>1, <1>14, LookupShape
  <2> QED
    BY <1>2, <1>7, <2>1 DEF Preparing
<1>15. CASE UnprepareDevice
  <2>1. call'.phase \in {"restore", "unspec"}
    BY <1>1, <1>15, RestoreShape
  <2> QED
    BY <1>2, <2>1 DEF Preparing
<1>16. CASE DeleteSpecFiles
  <2>1. ClaimFailed(call, call') \/ InPhase(call, call', "delete")
    BY <1>1, <1>16, UnprepareShapes
  <2> QED
    BY <1>2, <1>7, <2>1 DEF InPhase, Preparing
<1>17. CASE ForgetClaim
  BY <1>1, <1>7, <1>17, UnprepareShapes
<1>18. ASSUME NEW p \in Pods, Reserve(p) \/ Terminate(p) PROVE FreshInv'
  BY <1>1, <1>6, <1>18 DEF Reserve, Terminate, podManagerVars
<1>19. CASE KubeletRestart
  BY <1>6, <1>19 DEF KubeletRestart, podManagerVars
<1>20. CASE RecordNetworkData
  BY <1>6, <1>20 DEF RecordNetworkData, UpdatePreparedDeviceNetworkData
<1> QED
  BY <1>4, <1>5, <1>8, <1>9, <1>10, <1>11, <1>12, <1>13, <1>14, <1>15, <1>16, <1>17, <1>18,
     <1>19, <1>20
     DEF Next, CallStep
-------------------------------------------------------------------------------
(***************************************************************************)
(* Devices come home                                                       *)
(***************************************************************************)

\* A restore brings the device home when it succeeds, and takes no device away.
LEMMA RestoreHome ==
    ASSUME NativeBound, HostOK, stranded \subseteq stranded', Device \in Devices,
           NEW orig, Device \notin stranded => orig = Native[Device],
           NEW o \in RestoreDeviceDriver(driver[Device], orig),
           driver' = [driver EXCEPT ![Device] = o.to]
    PROVE  /\ o.ok = TRUE => HomeIn(Device, driver', stranded')
           /\ \A d \in Devices : Home(d) => Home(d)'
<1>1. driver'[Device] = o.to /\ \A d \in Devices \ {Device} : driver'[d] = driver[d]
  BY DEF HostOK
<1>2. CASE Device \in stranded
  BY <1>1, <1>2 DEF Home, HomeIn
<1>3. CASE Device \notin stranded
  <2>1. orig = Native[Device] /\ orig # NoDriver
    BY <1>3 DEF NativeBound
  <2>2. /\ o.ok = FALSE \/ (o.ok = TRUE /\ o.to = orig)
        /\ driver[Device] = orig => o.to = orig
    BY <2>1, RestoreOutcome
  <2>3. o.ok = TRUE => HomeIn(Device, driver', stranded')
    BY <1>1, <2>1, <2>2 DEF Home, HomeIn
  <2>4. ASSUME NEW d \in Devices, Home(d) PROVE Home(d)'
    <3>1. CASE d = Device
      BY <1>1, <1>3, <2>1, <2>2, <2>4, <3>1 DEF Home, HomeIn
    <3>2. CASE d # Device
      BY <1>1, <2>4, <3>2 DEF Home, HomeIn
    <3> QED
      BY <3>1, <3>2
  <2> QED
    BY <2>3, <2>4
<1> QED
  BY <1>2, <1>3

\* So does a step of unprepareDevices: a device that it passes over is home.
LEMMA RevertHome ==
    ASSUME OneClaim, NativeBound, LifecycleInv, RecordInv, stranded \subseteq stranded',
           call.phase \in {"abort", "restore"}, call.di \in 1..Len(call.work),
           NEW o \in Reverted, driver' = [driver EXCEPT ![Device] = o.to]
    PROVE  /\ o.ok = TRUE => HomeIn(Device, driver', stranded')
           /\ \A d \in Devices : Home(d) => Home(d)'
<1>1. /\ CallOK(call) /\ HostOK /\ call.pod \in Pods /\ Claim = ClaimOf(call.pod)
      /\ Exclusive(pod) /\ AwayInv /\ Live(call.pod) /\ HandOK(call, stranded)
  BY CallClaim DEF LifecycleInv, RecordInv, LiveInv
<1>2. /\ Device = Results[Claim][call.di] /\ Device \in Devices
      /\ call.di \in 1..Len(Results[Claim])
  BY <1>1, AtDevice
<1>3. CASE Asked = NoDriver
  <2>1. Home(Device)
    BY <1>1, <1>2, <1>3, AwayDevice DEF Asked
  <2>2. o.to = driver[Device]
    BY <1>3, OutcomeFields DEF Reverted
  <2>3. driver' = driver
    BY <1>1, <1>2, <2>2 DEF HostOK
  <2> QED
    BY <2>1, <2>3 DEF Home, HomeIn
<1>4. CASE Asked # NoDriver
  <2>1. Device \notin stranded => call.work[call.di].orig = Native[Device]
    BY <1>1, <1>2, <1>4 DEF Asked, HandOK, OnRecord
  <2>2. o \in RestoreDeviceDriver(driver[Device], call.work[call.di].orig)
    BY <1>4 DEF Reverted
  <2> QED
    BY <1>1, <1>2, <2>1, <2>2, RestoreHome
<1> QED
  BY <1>3, <1>4

\* What unprepare has put back stays put back until it answers.
LEMMA BackNext ==
    ASSUME OneClaim, NativeBound, LifecycleInv, RecordInv, Next
    PROVE  BackOK(call', driver', stranded')
<1>1. /\ CallOK(call) /\ BackOK(call, driver, stranded) /\ PhaseOK(call) /\ call.pod \in Pods
      /\ Claim = ClaimOf(call.pod)
  BY CallClaim DEF LifecycleInv, RecordInv
<1>2. ASSUME call'.phase \notin {"restore", "unspec", "delete", "return"}
      PROVE  BackOK(call', driver', stranded')
  BY <1>2 DEF BackOK
<1>3. ASSUME call'.phase = "return", call'.op # "unprepare" \/ call'.failed = TRUE
      PROVE  BackOK(call', driver', stranded')
  BY <1>3 DEF BackOK
<1>4. ASSUME UNCHANGED hostVars, NEW c, AllHome(c, driver, stranded)
      PROVE  AllHome(c, driver', stranded')
  BY <1>4 DEF hostVars
<1>5. ASSUME NEW p \in Pods, StartPrepare(p) \/ StartUnprepare(p)
      PROVE  BackOK(call', driver', stranded')
  BY <1>1, <1>2, <1>5, EndShapes DEF Begun
<1>6. CASE Answer \/ AnswerError \/ Crash \/ Reboot
  BY <1>1, <1>2, <1>6, EndShapes DEF NoCall
<1>7. ASSUME call' = call, UNCHANGED hostVars PROVE BackOK(call', driver', stranded')
  BY <1>1, <1>7 DEF hostVars
<1>8. ASSUME ClaimFailed(call, call') PROVE BackOK(call', driver', stranded')
  BY <1>2, <1>3, <1>8 DEF ClaimFailed
<1>9. ASSUME ClaimDone(call, call'), call.op # "unprepare"
      PROVE  BackOK(call', driver', stranded')
  BY <1>2, <1>3, <1>9 DEF ClaimDone
<1>10. ASSUME UNCHANGED hostVars, ClaimDone(call, call'), AllHome(Claim, driver, stranded)
      PROVE  BackOK(call', driver', stranded')
  <2>1. call'.pod = call.pod /\ call'.phase \in {"podspec", "return"}
    BY <1>10 DEF ClaimDone
  <2>2. AllHome(Claim, driver', stranded')
    BY <1>1, <1>4, <1>10
  <2> QED
    BY <1>1, <2>1, <2>2 DEF BackOK
<1>11. CASE RefuseClaim \/ Aborted
  BY <1>1, <1>8, <1>11, PrepareShapes
<1>12. CASE AlreadyPrepared
  <2>1. call.op = "prepare"
    BY <1>1, <1>12 DEF AlreadyPrepared, Calling, PhaseOK
  <2> QED
    BY <1>1, <1>9, <1>12, <2>1, PrepareShapes
<1>13. CASE PrepareDevicesForClaim \/ SyncDeviceInfo \/ CreateClaimSpecFile
  <2>1. call'.phase \in {"bind", "spec", "abortInfo", "set"}
    BY <1>1, <1>13, PrepareShapes DEF InPhase
  <2> QED
    BY <1>2, <2>1
<1>14. CASE RejectDevice \/ UndoDevice \/ AbortDeviceInfo
  BY <1>1, <1>2, <1>14, PrepareShapes DEF Undoing
<1>15. CASE BindDevice
  <2>1. call'.phase \in {"finish", "abort"}
    BY <1>1, <1>15, BindShape DEF Undoing
  <2> QED
    BY <1>2, <2>1
<1>16. CASE FinishDevice
  <2>1. call'.phase \in {"info", "bind"}
    BY <1>1, <1>16, FinishShape
  <2> QED
    BY <1>2, <2>1
<1>17. CASE FailDevice
  <2>1. call'.phase \in {"undo", "abort"}
    BY <1>1, <1>17, PrepareShapes DEF Undoing, InPhase
  <2> QED
    BY <1>2, <2>1
<1>18. CASE AbortDevice
  <2>1. ClaimFailed(call, call') \/ call'.phase = "abort"
    BY <1>1, <1>18, AbortShape
  <2> QED
    BY <1>2, <1>8, <2>1
<1>19. CASE StoreClaim
  <2>1. call.op = "prepare"
    BY <1>1, <1>19 DEF StoreClaim, Calling, PhaseOK, Preparing
  <2>2. ClaimDone(call, call') \/ InPhase(call, call', "cleanInfo")
    BY <1>1, <1>19, UnprepareShapes
  <2> QED
    BY <1>2, <1>9, <2>1, <2>2 DEF InPhase
<1>20. CASE CreateGlobalPodSpecFile
  <2>1. call.op = "prepare"
    BY <1>1, <1>20 DEF CreateGlobalPodSpecFile, Calling, PhaseOK
  <2>2. InPhase(call, call', "return") \/ Begun(call', "rollback", call.pod)
    BY <1>1, <1>20, PrepareShapes
  <2> QED
    BY <1>2, <1>3, <2>1, <2>2 DEF InPhase, Begun
<1>21. CASE NothingPrepared
  BY <1>1, <1>3, <1>21, UnprepareShapes
<1>22. CASE LookupClaim
  <2>1. CASE PodsWithClaim(Claim) = {} /\ ClaimDone(call, call')
    <3>1. ~Get(call.pod, Claim) /\ call.phase = "lookup" /\ UNCHANGED hostVars
      BY <1>1, <1>22, <2>1 DEF PodsWithClaim, LookupClaim, Calling
    <3>2. Exclusive(pod) /\ AwayInv /\ Live(call.pod)
      BY <3>1 DEF RecordInv, LiveInv
    <3>3. ASSUME NEW i \in 1..Len(Results[Claim]), ~Home(Results[Claim][i]) PROVE FALSE
      <4>1. OnTheWay(call, Results[ClaimOf(call.pod)][i])
        BY <1>1, <3>1, <3>2, <3>3, AwayDevice
      <4> QED
        BY <3>1, <4>1 DEF OnTheWay, Preparing
    <3>4. AllHome(Claim, driver, stranded)
      BY <3>3 DEF AllHome, Home
    <3> QED
      BY <1>10, <2>1, <3>1, <3>4
  <2>2. CASE ~(PodsWithClaim(Claim) = {} /\ ClaimDone(call, call'))
    <3>1. call'.phase = "cleanInfo"
      BY <1>1, <1>22, <2>2, LookupShape
    <3> QED
      BY <1>2, <3>1
  <2> QED
    BY <2>1, <2>2
<1>23. CASE UnprepareDeviceInfo
  <2>1. call'.di = 1 /\ call'.phase = "restore"
    BY <1>1, <1>23, UnprepareShapes
  <2> QED
    BY <2>1 DEF BackOK
<1>24. CASE UnprepareDevice
  <2>1. PICK o \in Reverted :
            /\ driver' = [driver EXCEPT ![Device] = o.to] /\ stranded' = stranded
            /\ call'.pod = call.pod
            /\ \/ o.ok = TRUE /\ call'.di = call.di + 1 /\ call'.phase = "restore"
               \/ o.ok = FALSE /\ call'.err = TRUE /\ call'.phase = "unspec"
    BY <1>1, <1>24, RestoreShape
  <2>2. /\ call.phase = "restore" /\ call.di \in 1..Len(call.work)
    BY <1>1, <1>24, CallClaim, CallFacts DEF UnprepareDevice, Undone, Calling
  <2>3. /\ Device = Results[Claim][call.di] /\ Device \in Devices
        /\ call.di \in 1..Len(Results[Claim])
    BY <1>1, <2>2, AtDevice
  <2>5. /\ o.ok = TRUE => HomeIn(Device, driver', stranded')
        /\ \A d \in Devices : Home(d) => Home(d)'
    BY <2>1, <2>2, RevertHome
  <2>6. CASE call'.phase = "unspec" /\ call'.err = TRUE
    BY <2>6 DEF BackOK
  <2>7. CASE o.ok = TRUE /\ call'.di = call.di + 1 /\ call'.phase = "restore"
    <3>1. ASSUME NEW i \in 1..call.di PROVE HomeIn(Results[Claim][i], driver', stranded')
      <4>1. CASE i = call.di
        BY <2>3, <2>5, <2>7, <4>1
      <4>2. CASE i # call.di
        <5>1. i \in 1..(call.di - 1) /\ i \in 1..Len(Results[Claim])
          BY <2>3, <3>1, <4>2, CallFacts, <1>1
        <5>2. Home(Results[Claim][i]) /\ Results[Claim][i] \in Devices
          BY <1>1, <2>2, <5>1, ClaimFacts DEF BackOK, Home
        <5> QED
          BY <2>5, <5>2 DEF Home
      <4> QED
        BY <4>1, <4>2
    <3>2. call'.di - 1 = call.di
      BY <1>1, <2>7, CallFacts
    <3> QED
      BY <1>1, <2>1, <2>7, <3>1, <3>2 DEF BackOK, Home
  <2> QED
    BY <2>1, <2>6, <2>7
<1>25. CASE UnpreparedDevices
  <2>1. /\ call'.pod = call.pod /\ call'.phase = "unspec" /\ UNCHANGED hostVars
        /\ call.phase = "restore"
    BY <1>1, <1>25, UnprepareShapes DEF UnpreparedDevices, Calling
  <2>2. AllHome(Claim, driver, stranded)
    <3>1. call.di > Len(call.work) /\ Len(call.work) = Len(Results[Claim])
      BY <1>1, <1>25, <2>1 DEF UnpreparedDevices, Undone, PhaseOK
    <3>2. \A i \in 1..Len(Results[Claim]) : i \in 1..(call.di - 1)
      BY <1>1, <3>1, CallFacts
    <3> QED
      BY <1>1, <2>1, <3>2 DEF BackOK, AllHome
  <2>3. AllHome(Claim, driver', stranded')
    BY <1>1, <1>4, <2>1, <2>2
  <2> QED
    BY <1>1, <2>1, <2>3 DEF BackOK
<1>26. CASE DeleteSpecFiles
  <2>1. call.phase = "unspec" /\ UNCHANGED hostVars
    BY <1>26 DEF DeleteSpecFiles, Calling
  <2>2. CASE ClaimFailed(call, call')
    BY <1>8, <2>2
  <2>3. CASE InPhase(call, call', "delete") /\ call.err = FALSE
    <3>1. AllHome(Claim, driver', stranded')
      BY <1>1, <1>4, <2>1, <2>3 DEF BackOK
    <3> QED
      BY <1>1, <2>3, <3>1 DEF InPhase, BackOK
  <2> QED
    BY <1>1, <1>26, <2>2, <2>3, UnprepareShapes
<1>27. CASE ForgetClaim
  <2>1. call.phase = "delete" /\ UNCHANGED hostVars /\ call.err = FALSE
    BY <1>1, <1>27 DEF ForgetClaim, Calling, PhaseOK
  <2>2. AllHome(Claim, driver, stranded)
    BY <1>1, <2>1 DEF BackOK
  <2> QED
    BY <1>1, <1>8, <1>10, <1>27, <2>1, <2>2, UnprepareShapes
<1>28. ASSUME NEW p \in Pods, Reserve(p) \/ Terminate(p)
      PROVE  BackOK(call', driver', stranded')
  BY <1>7, <1>28 DEF Reserve, Terminate
<1>29. CASE KubeletRestart \/ RecordNetworkData
  BY <1>7, <1>29 DEF KubeletRestart, RecordNetworkData
<1> QED
  BY <1>5, <1>6, <1>11, <1>12, <1>13, <1>14, <1>15, <1>16, <1>17, <1>18, <1>19, <1>20,
     <1>21, <1>22, <1>23, <1>24, <1>25, <1>26, <1>27, <1>28, <1>29
     DEF Next, CallStep

\* Steps that change no driver and no entry: a device that is away stays in an
\* entry or on the way.
LEMMA QuietAway ==
    ASSUME LifecycleInv, AwayInv, Next,
           UNCHANGED hostVars, UNCHANGED preparedClaims,
           ~Answer \/ call.op # "unprepare",
           \A d : OnTheWay(call, d) /\ Request[ClaimOf(call.pod)][d] # NoDriver =>
                  call'.pod = call.pod /\ OnTheWay(call', d)
    PROVE  AwayInv'
<1>1. ASSUME NEW d \in Devices, Home(d) PROVE Home(d)'
  BY <1>1 DEF hostVars, Home
<1>2. ASSUME NEW d \in Devices, NEW p \in Pods, Holder(p, d) PROVE Holder(p, d)'
  <2>1. Live(p)'
    BY <1>2, LiveStays DEF Holder
  <2>2. CASE Get(p, ClaimOf(p))
    BY <1>2, <2>1, <2>2 DEF Holder, Get
  <2>3. CASE ~Get(p, ClaimOf(p))
    <3>1. call.pod = p /\ OnTheWay(call, d) /\ Request[ClaimOf(p)][d] # NoDriver
      BY <1>2, <2>3 DEF Holder
    <3>2. call'.pod = p /\ OnTheWay(call', d)
      BY <3>1
    <3> QED
      BY <1>2, <2>1, <3>2 DEF Holder
  <2> QED
    BY <2>2, <2>3
<1> QED
  BY <1>1, <1>2 DEF AwayInv

\* Outside the preparation of a claim nothing is on the way.
LEMMA NothingOnTheWay == \A r, d : r.phase \notin Preparing => ~OnTheWay(r, d)
  BY DEF OnTheWay, Preparing

\* The entries of the pods after a step, seen from the devices that are away.
LEMMA HolderStays ==
    ASSUME NEW d, NEW p \in Pods, Holder(p, d), Live(p)',
           (Get(p, ClaimOf(p)))' \/ (call'.pod = p /\ OnTheWay(call', d))
    PROVE  Holder(p, d)'
  BY DEF Holder

\* Binding a device: it is on the way now, or home, or stranded.
LEMMA BindAway ==
    ASSUME OneClaim, LifecycleInv, RecordInv, Next, BindDevice
    PROVE  AwayInv'
<1>1. /\ CallOK(call) /\ AwayInv /\ call.pod \in Pods /\ Claim = ClaimOf(call.pod)
      /\ HostOK /\ call.phase = "bind" /\ Len(call.work) \in Nat
      /\ call.di = Len(call.work) + 1
  BY CallClaim DEF LifecycleInv, RecordInv, BindDevice, Calling, CallOK
<1>2. /\ Device = Results[Claim][call.di] /\ Device \in Devices
      /\ call.di \in 1..Len(Results[Claim])
  BY <1>1, AtDevice
<1>3. PICK o \in BindDeviceDriver(driver[Device], Asked) :
              /\ driver' = [driver EXCEPT ![Device] = o.to]
              /\ \/ /\ o.ok = TRUE /\ stranded' = stranded
                    /\ call'.pod = call.pod /\ call'.work = call.work
                    /\ call'.di = call.di /\ call'.phase = "finish"
                 \/ /\ o.ok = FALSE /\ Undoing(call, call')
                    /\ \/ stranded' = stranded /\ o.to = Native[Device]
                       \/ stranded' = stranded \cup {Device}
  BY <1>1, BindShape
<1>4. /\ driver'[Device] = o.to /\ \A d \in Devices \ {Device} : driver'[d] = driver[d]
  BY <1>1, <1>2, <1>3 DEF HostOK
<1>5. \A p \in Pods : Live(p) => Live(p)'
  BY DEF BindDevice, kubeletVars, Live
<1>6. \A p \in Pods : (Get(p, ClaimOf(p)))' <=> Get(p, ClaimOf(p))
  BY DEF BindDevice, podManagerVars, Get
<1>7. call'.pod = call.pod
  BY <1>3 DEF Undoing
<1>8. ASSUME NEW d \in Devices, d # Device PROVE Home(d)' \/ \E p \in Pods : Holder(p, d)'
  <2>1. CASE Home(d)
    BY <1>3, <1>4, <1>8, <2>1 DEF Home, HomeIn
  <2>2. CASE ~Home(d)
    <3>1. PICK p \in Pods : Holder(p, d)
      BY <1>1, <2>2 DEF AwayInv
    <3>2. CASE Get(p, ClaimOf(p))
      BY <1>5, <1>6, <3>1, <3>2, HolderStays DEF Holder
    <3>3. CASE ~Get(p, ClaimOf(p))
      <4>1. call.pod = p /\ OnTheWay(call, d)
        BY <3>1, <3>3 DEF Holder
      <4>2. PICK i \in 1..Len(Results[Claim]) : d = Results[Claim][i] /\ i <= Len(call.work)
        BY <1>1, <4>1 DEF OnTheWay
      <4>3. call'.work = call.work /\ call'.phase \in {"finish", "abort"}
        BY <1>3 DEF Undoing
      <4>4. call'.phase = "abort" => call'.di = 1
        BY <1>3 DEF Undoing
      <4>5. OnTheWay(call', d)
        BY <1>1, <1>7, <4>2, <4>3, <4>4 DEF OnTheWay, Preparing
      <4> QED
        BY <1>5, <1>7, <3>1, <4>1, <4>5, HolderStays DEF Holder
    <3> QED
      BY <3>2, <3>3
  <2> QED
    BY <2>1, <2>2
<1>9. ASSUME NEW d \in Devices, d = Device PROVE Home(d)' \/ \E p \in Pods : Holder(p, d)'
  <2>1. CASE o.ok = FALSE
    BY <1>3, <1>4, <1>9, <2>1 DEF Home, HomeIn
  <2>2. CASE o.ok = TRUE /\ Asked = NoDriver
    <3>1. o.to = driver[Device] /\ stranded' = stranded
      BY <1>3, <2>2, OutcomeOk
    <3>2. Home(Device)
      BY <1>1, BindFromHome
    <3> QED
      BY <1>4, <1>9, <3>1, <3>2 DEF Home, HomeIn
  <2>3. CASE o.ok = TRUE /\ Asked # NoDriver
    <3>1. PICK p \in Pods : p = call.pod
      BY <1>1
    <3>2. OnTheWay(call', d)
      BY <1>1, <1>2, <1>3, <1>9, <2>3 DEF OnTheWay
    <3>3. Live(p)' /\ d \in DevicesOf(ClaimOf(p)) /\ Request[ClaimOf(p)][d] # NoDriver
      BY <1>1, <1>2, <1>5, <1>9, <2>3, <3>1 DEF RecordInv, LiveInv, DevicesOf, ToSet, Asked
    <3>4. Holder(p, d)'
      BY <1>7, <3>1, <3>2, <3>3 DEF Holder
    <3> QED
      BY <3>4
  <2> QED
    BY <1>3, <2>1, <2>2, <2>3
<1> QED
  BY <1>8, <1>9 DEF AwayInv

\* Putting a device back on an error: it is home, or stranded.
LEMMA UndoAway ==
    ASSUME OneClaim, NativeBound, LifecycleInv, RecordInv, Next, UndoDevice
    PROVE  AwayInv'
<1>1. /\ CallOK(call) /\ AwayInv /\ call.pod \in Pods /\ Claim = ClaimOf(call.pod)
      /\ HostOK /\ call.phase = "undo" /\ Len(call.work) \in Nat
      /\ call.di = Len(call.work) + 1
  BY CallClaim DEF LifecycleInv, RecordInv, UndoDevice, Calling, CallOK
<1>2. /\ Device = Results[Claim][call.di] /\ Device \in Devices
      /\ call.di \in 1..Len(Results[Claim])
  BY <1>1, AtDevice
<1>3. PICK o \in RestoreDeviceDriver(driver[Device], call.orig) :
          /\ driver' = [driver EXCEPT ![Device] = o.to]
          /\ \/ o.ok = TRUE /\ stranded' = stranded
             \/ o.ok = FALSE /\ stranded' = stranded \cup {Device}
  BY UndoShape
<1>4. Device \notin stranded => call.orig = Native[Device]
  BY <1>1, <1>2 DEF RecordInv, PhaseOK, HandOK
<1>5. /\ o.ok = TRUE => HomeIn(Device, driver', stranded')
      /\ \A d \in Devices : Home(d) => Home(d)'
  BY <1>1, <1>2, <1>3, <1>4, RestoreHome, StrandedGrows
<1>6. Undoing(call, call')
  BY <1>1, PrepareShapes
<1>7. ASSUME NEW d \in Devices PROVE Home(d)' \/ \E p \in Pods : Holder(p, d)'
  <2>1. CASE d = Device
    BY <1>3, <1>5, <2>1 DEF Home, HomeIn
  <2>2. CASE Home(d)
    BY <1>5, <2>2
  <2>3. CASE d # Device /\ ~Home(d)
    <3>1. PICK p \in Pods : Holder(p, d)
      BY <1>1, <2>3 DEF AwayInv
    <3>2. Live(p)' /\ ((Get(p, ClaimOf(p)))' <=> Get(p, ClaimOf(p)))
      BY <3>1 DEF Holder, UndoDevice, kubeletVars, podManagerVars, Live, Get
    <3>3. CASE Get(p, ClaimOf(p))
      BY <3>1, <3>2, <3>3, HolderStays
    <3>4. CASE ~Get(p, ClaimOf(p))
      <4>1. call.pod = p /\ OnTheWay(call, d)
        BY <3>1, <3>4 DEF Holder
      <4>2. PICK i \in 1..Len(Results[Claim]) : d = Results[Claim][i] /\ i <= Len(call.work)
        BY <1>1, <1>2, <2>3, <4>1 DEF OnTheWay
      <4>3. OnTheWay(call', d)
        BY <1>1, <1>6, <4>2 DEF OnTheWay, Undoing
      <4> QED
        BY <1>6, <3>1, <3>2, <4>1, <4>3, HolderStays DEF Undoing
    <3> QED
      BY <3>3, <3>4
  <2> QED
    BY <2>1, <2>2, <2>3
<1> QED
  BY <1>7 DEF AwayInv

\* Rolling back device by device: each is home, or it and the rest are stranded.
LEMMA AbortAway ==
    ASSUME OneClaim, NativeBound, LifecycleInv, RecordInv, Next, AbortDevice
    PROVE  AwayInv'
<1>1. /\ CallOK(call) /\ AwayInv /\ call.pod \in Pods /\ Claim = ClaimOf(call.pod)
      /\ HostOK /\ call.phase = "abort" /\ Len(call.work) \in Nat
      /\ call.di \in 1..Len(call.work) /\ Live(call.pod)
  BY CallClaim, CallFacts DEF LifecycleInv, RecordInv, LiveInv, AbortDevice, Calling, Undone
<1>2. /\ Device = Results[Claim][call.di] /\ Device \in Devices
      /\ call.di \in 1..Len(Results[Claim])
  BY <1>1, AtDevice
<1>3. PICK o \in Reverted :
          /\ driver' = [driver EXCEPT ![Device] = o.to]
          /\ \/ /\ o.ok = TRUE /\ stranded' = stranded
                /\ call'.pod = call.pod /\ call'.work = call.work
                /\ call'.di = call.di + 1 /\ call'.phase = "abort"
             \/ /\ o.ok = FALSE /\ ClaimFailed(call, call')
                /\ stranded' = stranded \cup Remaining
  BY <1>1, AbortShape
<1>5. /\ o.ok = TRUE => HomeIn(Device, driver', stranded')
      /\ \A d \in Devices : Home(d) => Home(d)'
  BY <1>1, <1>3, RevertHome, StrandedGrows
<1>6. ASSUME NEW d \in Devices PROVE Home(d)' \/ \E p \in Pods : Holder(p, d)'
  <2>1. CASE Home(d)
    BY <1>5, <2>1
  <2>2. CASE ~Home(d)
    <3>1. PICK p \in Pods : Holder(p, d)
      BY <1>1, <2>2 DEF AwayInv
    <3>2. Live(p)' /\ ((Get(p, ClaimOf(p)))' <=> Get(p, ClaimOf(p)))
      BY <3>1 DEF Holder, AbortDevice, kubeletVars, podManagerVars, Live, Get
    <3>3. CASE Get(p, ClaimOf(p))
      BY <3>1, <3>2, <3>3, HolderStays
    <3>4. CASE ~Get(p, ClaimOf(p))
      <4>1. call.pod = p /\ OnTheWay(call, d)
        BY <3>1, <3>4 DEF Holder
      <4>2. PICK i \in 1..Len(Results[Claim]) :
                d = Results[Claim][i] /\ call.di <= i /\ i <= Len(call.work)
        BY <1>1, <4>1 DEF OnTheWay
      <4>3. CASE o.ok = FALSE
        <5>1. i \in call.di..Len(call.work) /\ Request[Claim][d] # NoDriver
          BY <1>1, <3>1, <4>1, <4>2 DEF Holder
        <5>2. d \in stranded'
          BY <1>3, <4>2, <4>3, <5>1 DEF Remaining
        <5> QED
          BY <5>2 DEF Home, HomeIn
      <4>4. CASE o.ok = TRUE /\ i = call.di
        BY <1>2, <1>5, <4>2, <4>4 DEF Home
      <4>5. CASE o.ok = TRUE /\ i # call.di
        <5>1. call.di + 1 <= i
          BY <1>1, <4>2, <4>5
        <5>2. OnTheWay(call', d)
          BY <1>1, <1>3, <4>2, <4>5, <5>1 DEF OnTheWay
        <5> QED
          BY <1>3, <3>1, <3>2, <4>1, <4>5, <5>2, HolderStays
      <4> QED
        BY <1>3, <4>3, <4>4, <4>5
    <3> QED
      BY <3>3, <3>4
  <2> QED
    BY <2>1, <2>2
<1> QED
  BY <1>6 DEF AwayInv

\* Unpreparing a device: what is home stays home, and the entry keeps the rest.
LEMMA RestoreAway ==
    ASSUME OneClaim, NativeBound, LifecycleInv, RecordInv, Next, UnprepareDevice
    PROVE  AwayInv'
<1>1. /\ CallOK(call) /\ AwayInv /\ call.pod \in Pods /\ Claim = ClaimOf(call.pod)
      /\ HostOK /\ call.phase = "restore" /\ Len(call.work) \in Nat
      /\ call.di \in 1..Len(call.work) /\ Live(call.pod)
  BY CallClaim, CallFacts DEF LifecycleInv, RecordInv, LiveInv, UnprepareDevice, Calling, Undone
<1>2. /\ Device = Results[Claim][call.di] /\ Device \in Devices
  BY <1>1, AtDevice
<1>3. PICK o \in Reverted :
          driver' = [driver EXCEPT ![Device] = o.to]
  BY <1>1, RestoreShape
<1>5. \A d \in Devices : Home(d) => Home(d)'
  BY <1>1, <1>3, RevertHome, StrandedGrows
<1>6. ASSUME NEW d \in Devices, NEW p \in Pods, Holder(p, d) PROVE Holder(p, d)'
  <2>1. Live(p)' /\ ((Get(p, ClaimOf(p)))' <=> Get(p, ClaimOf(p)))
    BY <1>6 DEF Holder, UnprepareDevice, kubeletVars, podManagerVars, Live, Get
  <2>2. Get(p, ClaimOf(p))
    BY <1>1, <1>6, NothingOnTheWay DEF Holder, Preparing
  <2> QED
    BY <1>6, <2>1, <2>2, HolderStays
<1> QED
  BY <1>1, <1>5, <1>6 DEF AwayInv

\* The steps of a prepare that touch no driver keep what is on the way.
LEMMA PrepareAway ==
    ASSUME OneClaim, LifecycleInv, RecordInv, Next,
           \/ RejectDevice \/ FinishDevice \/ FailDevice \/ Aborted
           \/ SyncDeviceInfo \/ AbortDeviceInfo \/ CreateClaimSpecFile
    PROVE  AwayInv'
<1>1. /\ CallOK(call) /\ AwayInv /\ call.pod \in Pods /\ Claim = ClaimOf(call.pod)
      /\ Len(call.work) \in Nat /\ call.di \in Nat
      /\ ~Answer \/ call.op # "unprepare"
  <2>1. call.phase \in Preparing
    BY DEF RejectDevice, FinishDevice, FailDevice, Aborted, SyncDeviceInfo,
           AbortDeviceInfo, CreateClaimSpecFile, Calling, Preparing
  <2> QED
    BY <2>1, CallClaim, CallFacts DEF LifecycleInv, RecordInv, PhaseOK
<1>2. UNCHANGED hostVars /\ UNCHANGED preparedClaims
  BY DEF RejectDevice, FinishDevice, FailDevice, Aborted, SyncDeviceInfo,
         AbortDeviceInfo, CreateClaimSpecFile, podManagerVars
<1>3. SUFFICES ASSUME NEW d, OnTheWay(call, d), Request[Claim][d] # NoDriver
               PROVE  call'.pod = call.pod /\ OnTheWay(call', d)
  BY <1>1, <1>2, QuietAway
<1>4. PICK i \in 1..Len(Results[Claim]) :
          /\ d = Results[Claim][i]
          /\ \/ call.phase \in Preparing \ {"abort"} /\ i <= Len(call.work)
             \/ call.phase \in {"finish", "undo"} /\ i = call.di
             \/ call.phase = "abort" /\ call.di <= i /\ i <= Len(call.work)
  BY <1>1, <1>3 DEF OnTheWay
<1>5. ASSUME Undoing(call, call'), i <= Len(call.work)
      PROVE  call'.pod = call.pod /\ OnTheWay(call', d)
  BY <1>1, <1>4, <1>5 DEF Undoing, OnTheWay
<1>6. CASE RejectDevice \/ AbortDeviceInfo
  <2>1. Undoing(call, call') /\ call.phase \in {"bind", "abortInfo"}
    BY <1>1, <1>6, PrepareShapes DEF RejectDevice, AbortDeviceInfo, Calling
  <2> QED
    BY <1>4, <1>5, <2>1
<1>7. CASE FinishDevice
  <2>1. call.phase = "finish" /\ call.di = Len(call.work) + 1
    BY <1>1, <1>7 DEF FinishDevice, Calling, CallOK
  <2>2. PICK device : /\ call'.work = Append(call.work, device)
                      /\ call'.pod = call.pod /\ call'.phase \in {"info", "bind"}
    BY <1>1, <1>7, FinishShape
  <2>3. i <= Len(call'.work)
    BY <1>1, <1>4, <2>1, <2>2, CallFacts
  <2> QED
    BY <1>1, <1>4, <2>2, <2>3 DEF OnTheWay, Preparing
<1>8. CASE FailDevice
  <2>1. call.phase = "finish"
    BY <1>8 DEF FailDevice, Calling
  <2>2. CASE Asked # NoDriver
    <3>1. InPhase(call, call', "undo")
      BY <1>1, <1>8, <2>2, PrepareShapes
    <3> QED
      BY <1>1, <1>4, <2>1, <3>1 DEF InPhase, OnTheWay, Preparing
  <2>3. CASE Asked = NoDriver
    <3>1. Undoing(call, call')
      BY <1>1, <1>8, <2>3, PrepareShapes
    <3>2. i # call.di
      BY <1>3, <1>4, <2>3 DEF Asked, Device
    <3>3. i <= Len(call.work)
      BY <1>4, <2>1, <3>2
    <3> QED
      BY <1>5, <3>1, <3>3
  <2> QED
    BY <2>2, <2>3
<1>9. CASE Aborted
  BY <1>1, <1>3, <1>4, <1>9 DEF Aborted, Undone, Calling, Preparing
<1>10. CASE SyncDeviceInfo \/ CreateClaimSpecFile
  <2>1. /\ call.phase \in {"info", "spec"}
        /\ \/ InPhase(call, call', "spec") \/ InPhase(call, call', "abortInfo")
           \/ InPhase(call, call', "set")
    BY <1>1, <1>10, PrepareShapes DEF SyncDeviceInfo, CreateClaimSpecFile, Calling
  <2> QED
    BY <1>1, <1>4, <2>1 DEF InPhase, OnTheWay, Preparing
<1> QED
  BY <1>6, <1>7, <1>8, <1>9, <1>10

\* Storing the claim: what was on the way is in the entry.
LEMMA StoreAway ==
    ASSUME OneClaim, LifecycleInv, RecordInv, Next, StoreClaim
    PROVE  AwayInv'
<1>1. /\ CallOK(call) /\ AwayInv /\ call.pod \in Pods /\ Claim = ClaimOf(call.pod)
      /\ EntriesOK(preparedClaims) /\ Claim \in Claims
      /\ Len(call.work) = Len(Results[Claim]) /\ Len(Results[Claim]) # 0
  BY CallClaim, CallFacts DEF LifecycleInv, RecordInv, PhaseOK, StoreClaim, Calling
<1>2. call.work # NoEntry
  BY <1>1 DEF NoEntry
<1>3. preparedClaims' = [preparedClaims EXCEPT ![call.pod][Claim] = call.work]
  BY DEF StoreClaim, Set
<1>4. ASSUME NEW d \in Devices, Home(d) PROVE Home(d)'
  BY <1>4 DEF StoreClaim, hostVars, Home
<1>5. ASSUME NEW d \in Devices, NEW p \in Pods, Holder(p, d) PROVE Holder(p, d)'
  <2>1. Live(p)'
    BY <1>5 DEF Holder, StoreClaim, kubeletVars, Live
  <2>2. preparedClaims'[p][ClaimOf(p)] # NoEntry
    <3>1. CASE p = call.pod
      BY <1>1, <1>2, <1>3, <3>1 DEF EntriesOK
    <3>2. CASE p # call.pod
      <4>1. preparedClaims'[p] = preparedClaims[p]
        BY <1>1, <1>3, <3>2 DEF EntriesOK
      <4> QED
        BY <1>5, <3>2, <4>1 DEF Holder, Get
    <3> QED
      BY <3>1, <3>2
  <2>3. (Get(p, ClaimOf(p)))'
    BY <2>2 DEF Get
  <2> QED
    BY <1>5, <2>1, <2>3, HolderStays
<1> QED
  BY <1>1, <1>4, <1>5 DEF AwayInv

\* Forgetting the claim: its devices are home.
LEMMA ForgetAway ==
    ASSUME OneClaim, LifecycleInv, RecordInv, Next, ForgetClaim
    PROVE  AwayInv'
<1>1. /\ CallOK(call) /\ AwayInv /\ call.pod \in Pods /\ Claim = ClaimOf(call.pod)
      /\ EntriesOK(preparedClaims) /\ Claim \in Claims
      /\ call.phase = "delete" /\ call.err = FALSE
  BY CallClaim, CallFacts DEF LifecycleInv, RecordInv, PhaseOK, ForgetClaim, Calling
<1>2. AllHome(Claim, driver, stranded)
  BY <1>1 DEF RecordInv, BackOK
<1>3. PICK q \in Pods : /\ Get(q, Claim)
                        /\ preparedClaims' = [preparedClaims EXCEPT ![q] = NoClaims]
  BY DEF ForgetClaim, DeleteClaim, PodsWithClaim
<1>4. ClaimOf(q) = Claim
  BY <1>1, <1>3 DEF Get, RecordInv, RecordsOK
<1>5. ASSUME NEW d \in Devices, Home(d) PROVE Home(d)'
  BY <1>5 DEF ForgetClaim, hostVars, Home
<1>6. ASSUME NEW d \in Devices, NEW p \in Pods, Holder(p, d), ~Home(d) PROVE Holder(p, d)'
  <2>1. Live(p)'
    BY <1>6 DEF Holder, ForgetClaim, kubeletVars, Live
  <2>2. p # q
    <3>1. SUFFICES ASSUME p = q PROVE FALSE
      OBVIOUS
    <3>2. PICK i \in 1..Len(Results[Claim]) : d = Results[Claim][i]
      BY <1>4, <1>6, <3>1 DEF Holder, DevicesOf, ToSet
    <3> QED
      BY <1>2, <1>6, <3>2 DEF AllHome, Home
  <2>3. Get(p, ClaimOf(p))
    BY <1>1, <1>6, NothingOnTheWay DEF Holder, Preparing
  <2>4. preparedClaims'[p] = preparedClaims[p]
    BY <1>1, <1>3, <2>2 DEF EntriesOK
  <2>5. (Get(p, ClaimOf(p)))'
    BY <2>3, <2>4 DEF Get
  <2> QED
    BY <1>6, <2>1, <2>5, HolderStays
<1> QED
  BY <1>1, <1>5, <1>6 DEF AwayInv

\* A crash: what the checkpoint does not have of the devices is stranded.
LEMMA CrashAway ==
    ASSUME OneClaim, LifecycleInv, RecordInv, Next, Crash
    PROVE  AwayInv'
<1>1. /\ AwayInv /\ Exclusive(pod) /\ RecordsOK(checkpoint, stranded)
      /\ preparedClaims' = checkpoint /\ driver' = driver /\ pod' = pod
      /\ stranded' = stranded \cup
             {d \in Devices : driver[d] # Native[d] /\ ~HeldIn(checkpoint, d)}
  BY DEF RecordInv, Crash, Load, kubeletVars
<1>2. ASSUME NEW d \in Devices, ~HomeIn(d, driver', stranded')
      PROVE  \E p \in Pods : Holder(p, d)'
  <2>1. ~Home(d) /\ HeldIn(checkpoint, d)
    BY <1>1, <1>2 DEF HomeIn, Home
  <2>2. PICK p \in Pods : Live(p) /\ \E c \in ClaimsOf(p) :
                              d \in DevicesOf(c) /\ checkpoint[p][c] # NoEntry
    BY <2>1 DEF HeldIn
  <2>3. PICK c \in ClaimsOf(p) : d \in DevicesOf(c) /\ checkpoint[p][c] # NoEntry
    BY <2>2
  <2>4. c \in Claims
    BY <2>3, SizeFacts DEF ClaimsOf, ToSet
  <2>5. c = ClaimOf(p)
    BY <1>1, <2>3, <2>4 DEF RecordsOK
  <2>6. PICK q \in Pods : Holder(q, d)
    BY <1>1, <2>1 DEF AwayInv
  <2>7. q = p
    <3>1. Live(q) /\ d \in DevicesOf(ClaimOf(q))
      BY <2>6 DEF Holder
    <3> QED
      BY <1>1, <2>2, <2>3, <2>5, <3>1 DEF Exclusive, LiveStates, Live
  <2>8. Request[ClaimOf(p)][d] # NoDriver
    BY <2>6, <2>7 DEF Holder
  <2>9. Live(p)' /\ (Get(p, ClaimOf(p)))'
    BY <1>1, <2>2, <2>3, <2>5 DEF Live, Get
  <2> QED
    BY <2>3, <2>5, <2>8, <2>9 DEF Holder
<1> QED
  BY <1>2 DEF AwayInv, Home

\* An answer: a pod that is let go has no device away.
LEMMA AnswerAway ==
    ASSUME OneClaim, LifecycleInv, RecordInv, Next, Answer
    PROVE  AwayInv'
<1>1. /\ CallOK(call) /\ AwayInv /\ call.pod \in Pods
      /\ call.phase = "return" /\ call.failed = FALSE
  <2>1. call.phase = "return" /\ ~call.failed
    BY DEF Answer, Calling
  <2>2. CallOK(call) /\ call.failed \in BOOLEAN
    BY DEF LifecycleInv, CallOK, Calls
  <2> QED
    BY <2>1, <2>2, CallClaim DEF RecordInv
<1>2. ASSUME NEW d \in Devices, Home(d) PROVE Home(d)'
  BY <1>2 DEF Answer, hostVars, Home
<1>3. ASSUME NEW d \in Devices, NEW p \in Pods, Holder(p, d), ~Home(d) PROVE Holder(p, d)'
  <2>1. Get(p, ClaimOf(p)) /\ Live(p)
    BY <1>1, <1>3, NothingOnTheWay DEF Holder, Preparing
  <2>2. ~(call.op = "unprepare" /\ p = call.pod)
    <3>1. SUFFICES ASSUME call.op = "unprepare", p = call.pod PROVE FALSE
      OBVIOUS
    <3>2. AllHome(ClaimOf(p), driver, stranded)
      BY <1>1, <3>1 DEF RecordInv, BackOK
    <3>3. PICK i \in 1..Len(Results[ClaimOf(p)]) : d = Results[ClaimOf(p)][i]
      BY <1>3 DEF Holder, DevicesOf, ToSet
    <3> QED
      BY <1>3, <3>2, <3>3 DEF AllHome, Home
  <2>3. Live(p)'
    BY <2>1, <2>2, LiveStays
  <2>4. (Get(p, ClaimOf(p)))'
    BY <2>1 DEF Answer, podManagerVars, Get
  <2> QED
    BY <1>3, <2>3, <2>4, HolderStays
<1> QED
  BY <1>1, <1>2, <1>3 DEF AwayInv

\* A device that is away is with a live pod that has it on record.
LEMMA AwayNext ==
    ASSUME OneClaim, NativeBound, LifecycleInv, RecordInv, Next
    PROVE  AwayInv'
<1>1. AwayInv
  BY DEF RecordInv
<1>2. CASE BindDevice \/ UndoDevice \/ AbortDevice \/ UnprepareDevice
  BY <1>2, BindAway, UndoAway, AbortAway, RestoreAway
<1>3. CASE \/ RejectDevice \/ FinishDevice \/ FailDevice \/ Aborted
           \/ SyncDeviceInfo \/ AbortDeviceInfo \/ CreateClaimSpecFile
  BY <1>3, PrepareAway
<1>4. CASE StoreClaim \/ ForgetClaim \/ Answer \/ Crash
  BY <1>4, StoreAway, ForgetAway, AnswerAway, CrashAway
<1>5. CASE Reboot
  <2>1. driver' = Native
    BY <1>5 DEF Reboot
  <2> QED
    BY <2>1 DEF AwayInv, Home, HomeIn
<1>6. ASSUME UNCHANGED hostVars, UNCHANGED preparedClaims, ~Answer,
             call.phase \notin Preparing \/ call' = call
      PROVE  AwayInv'
  BY <1>1, <1>6, QuietAway, NothingOnTheWay
<1>7. ASSUME NEW p \in Pods,
             Reserve(p) \/ Terminate(p) \/ StartPrepare(p) \/ StartUnprepare(p), ~Answer
      PROVE  AwayInv'
  BY <1>6, <1>7 DEF Reserve, Terminate, StartPrepare, StartUnprepare, podManagerVars,
                    Calling, Preparing
<1>8. CASE (KubeletRestart \/ RecordNetworkData) /\ ~Answer
  BY <1>6, <1>8 DEF KubeletRestart, RecordNetworkData, podManagerVars,
                    UpdatePreparedDeviceNetworkData
<1>9. CASE RefuseClaim \/ AlreadyPrepared \/ PrepareDevicesForClaim
           \/ CreateGlobalPodSpecFile \/ NothingPrepared \/ LookupClaim
  <2>1. /\ UNCHANGED hostVars /\ UNCHANGED preparedClaims
        /\ call.phase \in {"claim", "podspec", "lookup"}
    BY <1>9 DEF RefuseClaim, AlreadyPrepared, PrepareDevicesForClaim,
                CreateGlobalPodSpecFile, NothingPrepared, LookupClaim, podManagerVars, Calling
  <2>2. ~Answer
    BY <2>1 DEF Answer, Calling
  <2> QED
    BY <1>6, <2>1, <2>2 DEF Preparing
<1>10. CASE UnprepareDeviceInfo \/ UnpreparedDevices \/ DeleteSpecFiles \/ AnswerError
  <2>1. /\ UNCHANGED hostVars /\ UNCHANGED preparedClaims
        /\ call.phase \in {"cleanInfo", "restore", "unspec", "return"}
    BY <1>10 DEF UnprepareDeviceInfo, UnpreparedDevices, DeleteSpecFiles, AnswerError,
                 podManagerVars, Calling
  <2> QED
    BY <1>4, <1>6, <2>1 DEF Preparing
<1> QED
  BY <1>2, <1>3, <1>4, <1>5, <1>7, <1>8, <1>9, <1>10 DEF Next, CallStep
-------------------------------------------------------------------------------
(***************************************************************************)
(* The invariant and what follows from it                                  *)
(***************************************************************************)

\* At the start every device is on its native driver and nothing is on record.
LEMMA RecordInit == OneClaim /\ Init => RecordInv
<1>1. SUFFICES ASSUME OneClaim, Init PROVE RecordInv
  OBVIOUS
<1>2. call = Idle /\ NoCall(call) /\ call.pod \in Pods /\ call.failed = FALSE
  BY <1>1, IdleIs, IdleOK DEF Init, Idle, CallOK, Calls
<1>3. RecordsOK(preparedClaims, stranded) /\ RecordsOK(checkpoint, stranded)
  BY <1>1 DEF Init, PodManagerInit, NoClaims, RecordsOK
<1>4. Exclusive(pod)
  BY <1>1 DEF Init, Exclusive, LiveStates
<1>5. PhaseOK(call)
  BY <1>2 DEF NoCall, PhaseOK, Preparing
<1>6. HandOK(call, stranded)
  BY <1>2, EmptyWork DEF NoCall, HandOK, OnRecord
<1>7. LiveInv /\ FreshInv
  BY <1>2 DEF NoCall, LiveInv, FreshInv, Preparing
<1>8. BackOK(call, driver, stranded)
  BY <1>2 DEF NoCall, BackOK
<1>9. AwayInv
  BY <1>1 DEF Init, AwayInv, Home, HomeIn
<1> QED
  BY <1>3, <1>4, <1>5, <1>6, <1>7, <1>8, <1>9 DEF RecordInv

\* Every step keeps the invariant.
LEMMA RecordNext ==
    OneClaim /\ NativeBound /\ LifecycleInv /\ RecordInv /\ [Next]_vars => RecordInv'
<1>1. SUFFICES ASSUME OneClaim, NativeBound, LifecycleInv, RecordInv, [Next]_vars
               PROVE  RecordInv'
  OBVIOUS
<1>2. CASE Next
  BY <1>1, <1>2, RecordsNext, ExclusiveNext, PhaseNext, HandNext, LiveNext, FreshNext,
     BackNext, AwayNext DEF RecordInv
<1>3. CASE UNCHANGED vars
  BY <1>1, <1>3 DEF vars, podManagerVars, hostVars, kubeletVars, RecordInv, LiveInv,
     FreshInv, AwayInv, Home, Holder, Live, Get
<1> QED
  BY <1>1, <1>2, <1>3

\* With one claim to a pod and a driver under every device, a device that is away
\* from its native driver is with exactly one live pod, whose entry or whose call
\* has that driver on record, whatever fails, is retried or restarted.
THEOREM RecordInvariant ==
    ASSUME OneClaim, NativeBound
    PROVE  Spec => []RecordInv
<1>1. Init => RecordInv
  BY RecordInit
<1>2. LifecycleInv /\ RecordInv /\ [Next]_vars => RecordInv'
  BY RecordNext
<1> QED
  BY <1>1, <1>2, LifecycleInvariant, PTL DEF Spec

\* A virtual function that no live pod has is on its native driver, unless the
\* record of that driver was lost: unprepareDevices and restoreDriverOnError put
\* it back before the claim is forgotten.
THEOREM NativeDriverWhenFree ==
    ASSUME OneClaim, NativeBound
    PROVE  Spec => []NativeWhenFree
<1>1. RecordInv => NativeWhenFree
  <2>1. SUFFICES ASSUME AwayInv, NEW d \in Devices \ stranded,
                        \A p \in Pods : Live(p) => \A c \in ClaimsOf(p) : d \notin DevicesOf(c)
                 PROVE  driver[d] = Native[d]
    BY DEF RecordInv, NativeWhenFree
  <2>2. \A p \in Pods : ClaimOf(p) \in ClaimsOf(p)
    BY PodFacts DEF ClaimOf, ClaimsOf, ToSet
  <2>3. ~ \E p \in Pods : Holder(p, d)
    BY <2>1, <2>2 DEF Holder
  <2>4. Home(d)
    BY <2>1, <2>3 DEF AwayInv
  <2> QED
    BY <2>1, <2>4 DEF Home, HomeIn
<1> QED
  BY <1>1, RecordInvariant, PTL

\* What BindDeviceDriver recorded as OriginalDriver, in memory and in the
\* checkpoint, is the native driver of the device.
THEOREM OriginalDriverKept ==
    ASSUME OneClaim, NativeBound
    PROVE  Spec => []OriginalDriverOnRecord
<1>1. RecordInv => OriginalDriverOnRecord
  <2>1. SUFFICES ASSUME RecordsOK(preparedClaims, stranded), RecordsOK(checkpoint, stranded),
                        NEW p \in Pods, NEW c \in Claims, NEW i \in 1..Len(Results[c]),
                        Request[c][Results[c][i]] # NoDriver, Results[c][i] \notin stranded
                 PROVE  /\ Get(p, c) => preparedClaims[p][c][i].orig = Native[Results[c][i]]
                        /\ checkpoint[p][c] # NoEntry =>
                               checkpoint[p][c][i].orig = Native[Results[c][i]]
    BY DEF RecordInv, OriginalDriverOnRecord
  <2>2. ASSUME NEW map, RecordsOK(map, stranded), map[p][c] # NoEntry
        PROVE  map[p][c][i].orig = Native[Results[c][i]]
    <3>1. Len(map[p][c]) = Len(Results[c]) /\ OnRecord(c, map[p][c], stranded)
      BY <2>2 DEF RecordsOK
    <3> QED
      BY <2>1, <3>1 DEF OnRecord
  <2> QED
    BY <2>1, <2>2 DEF Get
<1> QED
  BY <1>1, RecordInvariant, PTL
-------------------------------------------------------------------------------
(***************************************************************************)
(* Interface names                                                         *)
(***************************************************************************)

\* The devices of one entry have names of their own.
DistinctNames(work) ==
    \A i, j \in 1..Len(work) : work[i].ifName = work[j].ifName => i = j

EntryNames(map) == \A p \in Pods, c \in Claims : DistinctNames(map[p][c])

\* The next name is above those given in this call.
CallNames(r) ==
    /\ DistinctNames(r.work)
    /\ r.phase \in {"bind", "finish"} =>
          \A i \in 1..Len(r.work) : r.work[i].ifName < r.ifNameIndex

NamesInv == EntryNames(preparedClaims) /\ EntryNames(checkpoint) /\ CallNames(call)

\* No devices, no names.
LEMMA NoNames == DistinctNames(<<>>) /\ \A r : r.work = <<>> => CallNames(r)
<1>1. DistinctNames(<<>>)
  BY EmptyWork DEF DistinctNames
<1> QED
  BY <1>1, EmptyWork DEF CallNames

\* The entries of the pod manager are those of calls.
LEMMA EntryNamesNext ==
    ASSUME LifecycleInv, NamesInv, Next
    PROVE  EntryNames(preparedClaims') /\ EntryNames(checkpoint')
<1>1. /\ EntryNames(preparedClaims) /\ EntryNames(checkpoint) /\ DistinctNames(call.work)
      /\ EntriesOK(preparedClaims)
  BY DEF LifecycleInv, NamesInv, CallNames
<1>2. ASSUME NEW ok \in BOOLEAN, syncToCheckpoint(ok), EntryNames(preparedClaims')
      PROVE  EntryNames(preparedClaims') /\ EntryNames(checkpoint')
  BY <1>1, <1>2 DEF syncToCheckpoint
<1>3. CASE StoreClaim
  <2>1. PICK ok \in BOOLEAN :
            /\ preparedClaims' = [preparedClaims EXCEPT ![call.pod][Claim] = call.work]
            /\ syncToCheckpoint(ok)
    BY <1>3 DEF StoreClaim, Set
  <2>2. ASSUME NEW p \in Pods, NEW c \in Claims
        PROVE  preparedClaims'[p][c] \in {call.work, preparedClaims[p][c]}
    BY <1>1, <2>1 DEF EntriesOK
  <2>3. EntryNames(preparedClaims')
    BY <1>1, <2>2 DEF EntryNames
  <2> QED
    BY <1>2, <2>1, <2>3
<1>4. CASE ForgetClaim
  <2>1. PICK ok \in BOOLEAN : DeleteClaim(Claim, ok)
    BY <1>4 DEF ForgetClaim
  <2>2. PICK q \in Pods : /\ preparedClaims' = [preparedClaims EXCEPT ![q] = NoClaims]
                          /\ syncToCheckpoint(ok)
    BY <2>1 DEF DeleteClaim, PodsWithClaim
  <2>3. ASSUME NEW p \in Pods, NEW c \in Claims
        PROVE  preparedClaims'[p][c] \in {<<>>, preparedClaims[p][c]}
    BY <1>1, <2>2 DEF EntriesOK, NoClaims, NoEntry
  <2>4. EntryNames(preparedClaims')
    BY <1>1, <2>3, NoNames DEF EntryNames
  <2> QED
    BY <1>2, <2>2, <2>4
<1>5. CASE RecordNetworkData
  <2>1. PICK ok \in BOOLEAN : UpdatePreparedDeviceNetworkData(ok)
    BY <1>5 DEF RecordNetworkData
  <2> QED
    BY <1>1, <1>2, <2>1 DEF UpdatePreparedDeviceNetworkData
<1>6. CASE Crash \/ Reboot
  BY <1>1, <1>6 DEF Crash, Reboot, Load
<1>7. CASE UNCHANGED podManagerVars
  BY <1>1, <1>7 DEF podManagerVars
<1> QED
  BY <1>3, <1>4, <1>5, <1>6, <1>7, EntriesUnchanged

\* A device joins the prepared ones under a name of its own.
LEMMA FinishNames ==
    ASSUME ~MultusMode, LifecycleInv, NamesInv, FinishDevice
    PROVE  CallNames(call')
<1>1. /\ CallOK(call) /\ CallNames(call) /\ call.phase = "finish"
      /\ call.work \in Seq(PreparedDevice) /\ call.ifNameIndex \in Nat
  BY DEF LifecycleInv, NamesInv, FinishDevice, Calling, CallOK, Calls
<1>2. PICK device :
          /\ device.ifName = call.ifNameIndex
          /\ call'.work = Append(call.work, device)
          /\ call'.ifNameIndex = call.ifNameIndex + 1
  BY <1>1, FinishShape
<1>3. \A i \in 1..Len(call.work) :
          call.work[i].ifName \in Nat /\ call.work[i].ifName < call.ifNameIndex
  <2>1. \A i \in 1..Len(call.work) : call.work[i] \in PreparedDevice
    BY <1>1
  <2>2. \A e \in PreparedDevice : e.ifName \in Nat
    BY DEF PreparedDevice
  <2>3. \A i \in 1..Len(call.work) : call.work[i].ifName < call.ifNameIndex
    BY <1>1 DEF CallNames
  <2> QED
    BY <2>1, <2>2, <2>3
<1>4. /\ Len(call'.work) = Len(call.work) + 1 /\ Len(call.work) \in Nat
      /\ \A i \in 1..Len(call.work) : call'.work[i] = call.work[i]
      /\ call'.work[Len(call.work) + 1] = device
  BY <1>1, <1>2
<1>5. \A i \in 1..Len(call'.work) : i \in 1..Len(call.work) \/ i = Len(call.work) + 1
  BY <1>4
<1>6. \A i \in 1..Len(call'.work) : call'.work[i].ifName < call'.ifNameIndex
  <2>1. ASSUME NEW i \in 1..Len(call'.work) PROVE call'.work[i].ifName < call.ifNameIndex + 1
    <3>1. CASE i \in 1..Len(call.work)
      <4>1. PICK n \in Nat : call'.work[i].ifName = n /\ n < call.ifNameIndex
        BY <1>3, <1>4, <3>1
      <4> QED
        BY <1>1, <4>1
    <3>2. CASE i = Len(call.work) + 1
      BY <1>1, <1>2, <1>4, <3>2
    <3> QED
      BY <1>5, <3>1, <3>2
  <2> QED
    BY <1>2, <2>1
<1>7. DistinctNames(call'.work)
  <2>1. SUFFICES ASSUME NEW i \in 1..Len(call'.work), NEW j \in 1..Len(call'.work),
                        call'.work[i].ifName = call'.work[j].ifName
                 PROVE  i = j
    BY DEF DistinctNames
  <2>2. CASE i \in 1..Len(call.work) /\ j \in 1..Len(call.work)
    <3>1. call.work[i].ifName = call.work[j].ifName
      BY <1>4, <2>1, <2>2
    <3> QED
      BY <1>1, <2>2, <3>1 DEF CallNames, DistinctNames
  <2>3. ASSUME NEW k \in 1..Len(call.work)
        PROVE  call'.work[k].ifName # call'.work[Len(call.work) + 1].ifName
    BY <1>1, <1>2, <1>3, <1>4, <2>3
  <2> QED
    BY <1>5, <2>1, <2>2, <2>3
<1> QED
  BY <1>6, <1>7 DEF CallNames

\* A call gives every device a name that it has not given before.
LEMMA CallNamesNext ==
    ASSUME OneClaim, ~MultusMode, LifecycleInv, NamesInv, Next
    PROVE  CallNames(call')
<1>1. CallOK(call) /\ CallNames(call) /\ Claim \in Claims
  BY CallFacts DEF LifecycleInv, NamesInv
<1>2. ASSUME call'.work = <<>> PROVE CallNames(call')
  BY <1>2, NoNames
<1>3. ASSUME DistinctNames(call'.work), call'.phase \notin {"bind", "finish"}
      PROVE  CallNames(call')
  BY <1>3 DEF CallNames
<1>4. ASSUME ClaimFailed(call, call') \/ ClaimDone(call, call') PROVE CallNames(call')
  BY <1>2, <1>4 DEF ClaimFailed, ClaimDone
<1>5. ASSUME Undoing(call, call') PROVE CallNames(call')
  BY <1>1, <1>3, <1>5 DEF Undoing, CallNames
<1>6. ASSUME NEW ph, InPhase(call, call', ph), ph \notin {"bind", "finish"}
      PROVE  CallNames(call')
  BY <1>1, <1>3, <1>6 DEF InPhase, CallNames
<1>7. ASSUME NEW p \in Pods, StartPrepare(p) \/ StartUnprepare(p) PROVE CallNames(call')
  BY <1>1, <1>2, <1>7, EndShapes DEF Begun
<1>8. CASE Answer \/ AnswerError \/ Crash \/ Reboot
  BY <1>1, <1>2, <1>8, EndShapes DEF NoCall
<1>9. ASSUME call' = call PROVE CallNames(call')
  BY <1>1, <1>9
<1>10. CASE RefuseClaim \/ Aborted \/ AlreadyPrepared
  BY <1>1, <1>4, <1>10, PrepareShapes
<1>11. CASE PrepareDevicesForClaim
  <2>1. call.work = <<>>
    BY <1>1, <1>11 DEF PrepareDevicesForClaim, Calling, CallOK
  <2> QED
    BY <1>1, <1>2, <1>11, <2>1, PrepareShapes DEF InPhase
<1>12. CASE RejectDevice \/ UndoDevice \/ AbortDeviceInfo
  BY <1>1, <1>5, <1>12, PrepareShapes
<1>13. CASE BindDevice
  <2>1. CASE Undoing(call, call')
    BY <1>5, <2>1
  <2>2. CASE ~Undoing(call, call')
    <3>1. /\ call'.work = call.work /\ call'.ifNameIndex = call.ifNameIndex
          /\ call.phase = "bind"
      BY <1>1, <1>13, <2>2, BindShape DEF BindDevice, Calling
    <3> QED
      BY <1>1, <3>1 DEF CallNames
  <2> QED
    BY <2>1, <2>2
<1>14. CASE FinishDevice
  BY <1>14, FinishNames
<1>15. CASE FailDevice
  <2>1. Undoing(call, call') \/ InPhase(call, call', "undo")
    BY <1>1, <1>15, PrepareShapes
  <2> QED
    BY <1>5, <1>6, <2>1
<1>16. CASE AbortDevice
  <2>1. ClaimFailed(call, call') \/ (call'.work = call.work /\ call'.phase = "abort")
    BY <1>1, <1>16, AbortShape
  <2> QED
    BY <1>1, <1>3, <1>4, <2>1 DEF CallNames
<1>17. CASE SyncDeviceInfo \/ CreateClaimSpecFile
  <2>1. \/ InPhase(call, call', "spec") \/ InPhase(call, call', "abortInfo")
        \/ InPhase(call, call', "set")
    BY <1>1, <1>17, PrepareShapes
  <2> QED
    BY <1>6, <2>1
<1>18. CASE CreateGlobalPodSpecFile
  <2>1. InPhase(call, call', "return") \/ Begun(call', "rollback", call.pod)
    BY <1>1, <1>18, PrepareShapes
  <2>2. ASSUME Begun(call', "rollback", call.pod) PROVE CallNames(call')
    BY <1>2, <2>2 DEF Begun
  <2> QED
    BY <1>6, <2>1, <2>2
<1>19. CASE StoreClaim \/ DeleteSpecFiles \/ ForgetClaim
  <2>1. \/ ClaimDone(call, call') \/ ClaimFailed(call, call')
        \/ InPhase(call, call', "cleanInfo") \/ InPhase(call, call', "delete")
    BY <1>1, <1>19, UnprepareShapes
  <2> QED
    BY <1>4, <1>6, <2>1
<1>20. CASE NothingPrepared \/ UnprepareDeviceInfo \/ UnpreparedDevices
  <2>1. call'.work = call.work /\ call'.phase \in {"return", "restore", "unspec"}
    BY <1>1, <1>20, UnprepareShapes
  <2> QED
    BY <1>1, <1>3, <2>1 DEF CallNames
<1>21. CASE UnprepareDevice
  <2>1. call'.work = call.work /\ call'.phase \in {"restore", "unspec"}
    BY <1>1, <1>21, RestoreShape
  <2> QED
    BY <1>1, <1>3, <2>1 DEF CallNames
<1>22. CASE LookupClaim
  <2>1. CASE ClaimDone(call, call')
    BY <1>4, <2>1
  <2>2. CASE ~ClaimDone(call, call')
    <3>1. PICK p \in PodsWithClaim(Claim) :
              call'.work = preparedClaims[p][Claim] /\ call'.phase = "cleanInfo"
      BY <1>1, <1>22, <2>2, LookupShape
    <3>2. DistinctNames(preparedClaims[p][Claim])
      BY <1>1, <3>1 DEF PodsWithClaim, NamesInv, EntryNames
    <3> QED
      BY <1>3, <3>1, <3>2
  <2> QED
    BY <2>1, <2>2
<1>23. ASSUME NEW p \in Pods, Reserve(p) \/ Terminate(p) PROVE call' = call
  BY <1>1, <1>23, EndShapes
<1>24. KubeletRestart \/ RecordNetworkData => call' = call
  BY <1>1, EndShapes
<1> QED
  BY <1>7, <1>8, <1>9, <1>10, <1>11, <1>12, <1>13, <1>14, <1>15, <1>16, <1>17, <1>18,
     <1>19, <1>20, <1>21, <1>22, <1>23, <1>24
     DEF Next, CallStep

\* With one claim to a pod, the interface names that a pod gets are distinct:
\* ifNameIndex counts over the devices of the claim.
THEOREM NamesDistinct ==
    ASSUME OneClaim
    PROVE  Spec => []InterfaceNamesDistinct
<1>1. CASE MultusMode
  <2>1. TRUE => InterfaceNamesDistinct
    BY <1>1 DEF InterfaceNamesDistinct
  <2> QED
    BY <2>1, PTL
<1>2. CASE ~MultusMode
  <2>1. Init => NamesInv
    <3>1. ASSUME Init PROVE NamesInv
      <4>1. EntryNames(preparedClaims) /\ EntryNames(checkpoint)
        BY <3>1, NoNames DEF Init, PodManagerInit, NoClaims, NoEntry, EntryNames
      <4>2. CallNames(call)
        BY <3>1, NoNames, IdleIs DEF Init, NoCall
      <4> QED
        BY <4>1, <4>2 DEF NamesInv
    <3> QED
      BY <3>1
  <2>2. LifecycleInv /\ NamesInv /\ [Next]_vars => NamesInv'
    <3>1. ASSUME LifecycleInv, NamesInv, Next PROVE NamesInv'
      BY <1>2, <3>1, EntryNamesNext, CallNamesNext DEF NamesInv
    <3>2. ASSUME NamesInv, UNCHANGED vars PROVE NamesInv'
      BY <3>2 DEF NamesInv, vars, podManagerVars
    <3> QED
      BY <3>1, <3>2
  <2>3. LifecycleInv /\ NamesInv => InterfaceNamesDistinct
    <3>1. \A p \in Pods : \A b, c \in ClaimsOf(p) : b = c /\ b \in Claims
      BY SizeFacts DEF OneClaim, ClaimsOf, ToSet
    <3> QED
      BY <3>1 DEF NamesInv, EntryNames, DistinctNames, InterfaceNamesDistinct
  <2> QED
    BY <2>1, <2>2, <2>3, LifecycleInvariant, PTL DEF Spec
<1> QED
  BY <1>1, <1>2
===============================================================================
