------------------------- MODULE LifecycleUsableProofs ------------------------
(***************************************************************************)
(* Theorems about what ClaimLifecycle promises to a running pod, for any   *)
(* number of claims to a pod: no call touches its devices, and all that    *)
(* the answer to the kubelet named stays there.  Excluded are the three    *)
(* kinds of fault under which this is not so: a checkpoint or a pod spec   *)
(* file that cannot be written, and a reboot of the node.                  *)
(***************************************************************************)
EXTENDS LifecycleRecordProofs

\* The hypotheses: the checkpoint and the pod's spec file can be written and the
\* node stays up, and a device is allocated to one claim of a pod.
Quiet == FaultKinds \cap {"checkpoint", "podspec", "reboot"} = {}
DisjointClaims ==
    \A p \in Pods : \A b, c \in ClaimsOf(p) :
        b # c => DevicesOf(b) \cap DevicesOf(c) = {}

\* The claim that the call r is at.
ClaimAt(r) == Uses[r.pod][r.ci]

\* An entry is of a claim of its pod and has all its devices.
OwnEntries(map) ==
    \A p \in Pods, c \in Claims : map[p][c] # NoEntry =>
        c \in ClaimsOf(p) /\ Len(map[p][c]) = Len(Results[c])

\* Live pods share no device.
Apart(stateOf) ==
    \A p, q \in Pods :
        p # q /\ stateOf[p] \in LiveStates /\ stateOf[q] \in LiveStates =>
            \A c \in ClaimsOf(p), b \in ClaimsOf(q) : DevicesOf(c) \cap DevicesOf(b) = {}

\* A claim is being unprepared.
Unpreparing == {"cleanInfo", "restore", "unspec", "delete"}

\* What a call is for, and when it has all devices of the claim.
KindOK(r) ==
    /\ r.phase \in Preparing \cup {"claim", "podspec"} => r.op = "prepare"
    /\ r.phase \in Unpreparing \cup {"lookup"} => r.op = "unprepare"
    /\ r.phase = "return" => r.op \in {"prepare", "unprepare"}
    /\ r.phase = "idle" => r.op = "none"
    /\ r.phase \in {"info", "spec", "set"} => Len(r.work) = Size(r)

\* A call is for a live pod, and unprepares one that ends.
OwnerOK(r, stateOf) ==
    /\ r.phase # "idle" => stateOf[r.pod] \in LiveStates
    /\ r.op = "unprepare" => stateOf[r.pod] = "terminating"

\* A claim has no entry while it is being prepared, and keeps it until it is unprepared.
EntryOK(r, map) ==
    /\ r.phase \in Preparing => map[r.pod][ClaimAt(r)] = NoEntry
    /\ r.phase \in Unpreparing => map[r.from][ClaimAt(r)] # NoEntry

\* The first n devices of a claim are on the driver it asks for, and those of
\* them that need a device-info file have one.
Served(c, n, drivers) ==
    \A i \in 1..n : Serves(drivers[Results[c][i]], Request[c][Results[c][i]])
Informed(c, work, infos) == \A i \in 1..Len(work) : work[i].info => Results[c][i] \in infos

\* How far the preparation of a claim has come.
ProgressOK(r, drivers, specs, infos) ==
    /\ r.phase \in {"bind", "finish", "info", "spec", "set"} =>
          Served(ClaimAt(r), Len(r.work), drivers)
    /\ r.phase = "finish" =>
          LET d == Results[ClaimAt(r)][r.di] IN Serves(drivers[d], Request[ClaimAt(r)][d])
    /\ r.phase \in {"spec", "set"} => Informed(ClaimAt(r), r.work, infos)
    /\ r.phase = "set" => ClaimAt(r) \in specs

\* An entry of a pod that has not ended is good for use.
EntriesUsable(map, stateOf, drivers, specs, infos) ==
    \A p \in Pods, c \in Claims :
        map[p][c] # NoEntry /\ stateOf[p] \in {"reserved", "running"} =>
            /\ c \in specs
            /\ Served(c, Len(Results[c]), drivers)
            /\ Informed(c, map[p][c], infos)

\* A prepare that has met no error has the claims it has been through.
ReachedOK(r, map, specs) ==
    r.op = "prepare" /\ r.failed = FALSE =>
        /\ \A k \in 1..(r.ci - 1) : map[r.pod][Uses[r.pod][k]] # NoEntry
        /\ r.phase \in {"podspec", "return"} =>
              \A c \in ClaimsOf(r.pod) : map[r.pod][c] # NoEntry
        /\ r.phase = "return" => r.pod \in specs

\* A running pod has all its claims and its spec file.
RunningOK(stateOf, map, specs) ==
    \A p \in Pods : stateOf[p] = "running" =>
        p \in specs /\ \A c \in ClaimsOf(p) : map[p][c] # NoEntry

\* A pod that was never placed has no entry.
NewOK(stateOf, map) ==
    \A p \in Pods, c \in Claims : stateOf[p] = "new" => map[p][c] = NoEntry

UsableInv ==
    /\ checkpoint = preparedClaims
    /\ OwnEntries(preparedClaims) /\ Apart(pod) /\ NewOK(pod, preparedClaims)
    /\ KindOK(call) /\ OwnerOK(call, pod) /\ EntryOK(call, preparedClaims)
    /\ ReachedOK(call, preparedClaims, podSpecs)
    /\ RunningOK(pod, preparedClaims, podSpecs)

GoodInv ==
    /\ ProgressOK(call, driver, claimSpecs, deviceInfo)
    /\ EntriesUsable(preparedClaims, pod, driver, claimSpecs, deviceInfo)
-------------------------------------------------------------------------------
(***************************************************************************)
(* What a step does to the call, with any number of claims                 *)
(***************************************************************************)

\* s is r at the same claim.
SameClaim(r, s) == s.pod = r.pod /\ s.op = r.op /\ s.ci = r.ci /\ s.failed = r.failed

\* s is r in phase ph, with the devices it had.
Onward(r, s, ph) ==
    SameClaim(r, s) /\ s.work = r.work /\ s.from = r.from /\ s.phase = ph

\* s is r at its next claim, or after the last; f says whether a claim has failed.
Moved(r, s, f) ==
    /\ s.pod = r.pod /\ s.op = r.op /\ s.work = <<>> /\ s.failed = f
    /\ \/ /\ r.ci < Len(Uses[r.pod]) /\ s.ci = r.ci + 1
          /\ s.phase = IF r.op = "prepare" THEN "claim" ELSE "lookup"
       \/ /\ r.ci = Len(Uses[r.pod]) /\ s.ci = r.ci
          /\ s.phase = IF r.op = "prepare" THEN "podspec" ELSE "return"

\* NextClaim goes to the next claim or ends the loop.
LEMMA NextMoves == ASSUME NEW r, CallOK(r) PROVE Moved(r, NextClaim(r), r.failed)
<1> DEFINE s == [r EXCEPT !.di = 1, !.work = <<>>, !.orig = NoDriver, !.err = FALSE]
           more == IF r.op = "prepare" THEN "claim" ELSE "lookup"
           last == IF r.op = "prepare" THEN "podspec" ELSE "return"
<1>1. r \in Calls /\ r.pod \in Pods /\ r.ci \in 1..Len(Uses[r.pod])
  BY DEF CallOK, Calls
<1>2. Len(Uses[r.pod]) \in Nat
  BY <1>1, LifecycleAssumption
<1>3. NextClaim(r) = IF r.ci < Len(Uses[r.pod]) THEN [s EXCEPT !.ci = @ + 1, !.phase = more]
                     ELSE [s EXCEPT !.phase = last]
  BY DEF NextClaim
<1>4. /\ s \in Calls /\ s.pod = r.pod /\ s.op = r.op /\ s.work = <<>> /\ s.ci = r.ci
      /\ s.failed = r.failed
  BY <1>1, EmptyWork, NoDriverBinding DEF Calls
<1>5. /\ more = IF r.op = "prepare" THEN "claim" ELSE "lookup"
      /\ last = IF r.op = "prepare" THEN "podspec" ELSE "return"
  OBVIOUS
<1> HIDE DEF s, more, last
<1>6. CASE r.ci < Len(Uses[r.pod])
  <2>1. NextClaim(r) = [s EXCEPT !.ci = @ + 1, !.phase = more]
    BY <1>3, <1>6
  <2> QED
    BY <1>4, <1>5, <1>6, <2>1 DEF Moved, Calls
<1>7. CASE ~(r.ci < Len(Uses[r.pod]))
  <2>1. NextClaim(r) = [s EXCEPT !.phase = last] /\ r.ci = Len(Uses[r.pod])
    BY <1>1, <1>2, <1>3, <1>7
  <2> QED
    BY <1>4, <1>5, <2>1 DEF Moved, Calls
<1> QED
  BY <1>6, <1>7

\* The same after an error.
LEMMA FailMoves == ASSUME NEW r, CallOK(r) PROVE Moved(r, FailClaim(r), TRUE)
<1> DEFINE s == [r EXCEPT !.failed = TRUE]
<1>1. /\ s \in Calls /\ s.pod = r.pod /\ s.ci = r.ci /\ s.di = r.di /\ s.op = r.op
      /\ s.work = r.work /\ s.phase = r.phase /\ s.failed = TRUE
  BY DEF CallOK, Calls
<1>2. FailClaim(r) = NextClaim(s)
  BY DEF FailClaim
<1> HIDE DEF s
<1>3. CallOK(s)
  BY <1>1 DEF CallOK, Size
<1>4. Moved(s, FailClaim(r), s.failed)
  BY <1>2, <1>3, NextMoves
<1> QED
  BY <1>1, <1>4 DEF Moved

\* A rollback of what was prepared.
LEMMA AbortGoesOn == ASSUME NEW r \in Calls PROVE Onward(r, Abort(r), "abort")
  BY DEF Calls, Abort, Onward, SameClaim

\* A change of the phase alone.
LEMMA PhaseGoesOn ==
    ASSUME NEW r \in Calls, NEW ph
    PROVE  Onward(r, [r EXCEPT !.phase = ph], ph)
  BY DEF Calls, Onward, SameClaim

\* The steps on the devices of a claim that is being prepared.
LEMMA PreparingSteps ==
    ASSUME CallOK(call)
    PROVE  /\ PrepareDevicesForClaim => Onward(call, call', "bind")
           /\ RejectDevice \/ UndoDevice \/ AbortDeviceInfo => Onward(call, call', "abort")
           /\ FailDevice => Onward(call, call', "abort") \/ Onward(call, call', "undo")
           /\ SyncDeviceInfo => Onward(call, call', "spec") \/ Onward(call, call', "abortInfo")
           /\ CreateClaimSpecFile => Onward(call, call', "set") \/ Onward(call, call', "abortInfo")
           /\ RefuseClaim \/ Aborted => Moved(call, call', TRUE)
           /\ AlreadyPrepared => Moved(call, call', call.failed)
<1>1. call \in Calls
  BY DEF CallOK
<1>2. PrepareDevicesForClaim => Onward(call, call', "bind")
  BY <1>1, PhaseGoesOn DEF PrepareDevicesForClaim
<1>3. RejectDevice \/ UndoDevice \/ AbortDeviceInfo => Onward(call, call', "abort")
  BY <1>1, AbortGoesOn DEF RejectDevice, UndoDevice, AbortDeviceInfo
<1>4. FailDevice => Onward(call, call', "abort") \/ Onward(call, call', "undo")
  BY <1>1, AbortGoesOn, PhaseGoesOn DEF FailDevice
<1>5. SyncDeviceInfo => Onward(call, call', "spec") \/ Onward(call, call', "abortInfo")
  BY <1>1, PhaseGoesOn DEF SyncDeviceInfo
<1>6. CreateClaimSpecFile => Onward(call, call', "set") \/ Onward(call, call', "abortInfo")
  BY <1>1, PhaseGoesOn DEF CreateClaimSpecFile
<1>7. RefuseClaim \/ Aborted => Moved(call, call', TRUE)
  BY FailMoves DEF RefuseClaim, Aborted
<1>8. AlreadyPrepared => Moved(call, call', call.failed)
  BY NextMoves DEF AlreadyPrepared
<1> QED
  BY <1>2, <1>3, <1>4, <1>5, <1>6, <1>7, <1>8

\* Binding goes on to the rest of the device, or back.
LEMMA BindStep ==
    ASSUME CallOK(call), BindDevice
    PROVE  \/ Onward(call, call', "abort")
           \/ Onward(call, call', "finish") /\ call'.di = call.di
<1>1. call \in Calls
  BY DEF CallOK
<1>2. PICK o \in BindDeviceDriver(driver[Device], Asked) :
           call' = IF o.ok
                   THEN [call EXCEPT !.phase = "finish",
                                     !.orig = IF Asked = NoDriver THEN NoDriver
                                              ELSE driver[Device]]
                   ELSE Abort(call)
  BY DEF BindDevice
<1>3. o.ok = TRUE \/ o.ok = FALSE
  BY OutcomeOk
<1>4. CASE o.ok = TRUE
  <2>1. call' = [call EXCEPT !.phase = "finish",
                             !.orig = IF Asked = NoDriver THEN NoDriver
                                      ELSE driver[Device]]
    BY <1>2, <1>4
  <2> QED
    BY <1>1, <2>1 DEF Calls, Onward, SameClaim
<1>5. CASE o.ok = FALSE
  BY <1>1, <1>2, <1>5, AbortGoesOn
<1> QED
  BY <1>3, <1>4, <1>5

\* A device is put back, or the claim has failed.
LEMMA AbortStep ==
    ASSUME CallOK(call), AbortDevice
    PROVE  Onward(call, call', "abort") \/ Moved(call, call', TRUE)
<1>1. call \in Calls /\ call.phase = "abort"
  BY DEF CallOK, AbortDevice, Calling
<1>2. call' = [call EXCEPT !.di = @ + 1] \/ call' = FailClaim(call)
  BY DEF AbortDevice
<1>3. ASSUME call' = [call EXCEPT !.di = @ + 1] PROVE Onward(call, call', "abort")
  BY <1>1, <1>3 DEF Calls, Onward, SameClaim
<1> QED
  BY <1>2, <1>3, FailMoves

\* A device joins the prepared ones.
LEMMA FinishStep ==
    ASSUME CallOK(call), FinishDevice
    PROVE  /\ SameClaim(call, call') /\ call'.from = call.from
           /\ Len(call'.work) = Len(call.work) + 1
           /\ \/ call'.phase = "info" /\ Len(call'.work) = Len(Results[Claim])
              \/ call'.phase = "bind"
<1>1. /\ call \in Calls /\ call.di = Len(call.work) + 1 /\ Len(call.work) \in Nat
      /\ call.work \in Seq(PreparedDevice)
  BY CallFacts DEF FinishDevice, Calling, CallOK
<1>2. PICK info, name :
          call' = [call EXCEPT !.work = Append(@, [orig |-> call.orig, info |-> info,
                                                   ifName |-> name]),
                               !.orig = NoDriver,
                               !.ifNameIndex = IF MultusMode THEN @ ELSE @ + 1,
                               !.di = IF call.di = Len(Results[Claim]) THEN 1 ELSE @ + 1,
                               !.phase = IF call.di = Len(Results[Claim]) THEN "info"
                                         ELSE "bind"]
  BY DEF FinishDevice
<1>3. SameClaim(call, call') /\ call'.from = call.from
  BY <1>1, <1>2 DEF Calls, SameClaim
<1>4. \E device : call'.work = Append(call.work, device)
  BY <1>1, <1>2 DEF Calls
<1>5. Len(call'.work) = Len(call.work) + 1
  BY <1>1, <1>4
<1>6. call'.phase = IF call.di = Len(Results[Claim]) THEN "info" ELSE "bind"
  BY <1>1, <1>2 DEF Calls
<1> QED
  BY <1>1, <1>3, <1>5, <1>6

\* The steps on a claim that is being unprepared.
LEMMA UnpreparingSteps ==
    ASSUME CallOK(call)
    PROVE  /\ UnprepareDeviceInfo => Onward(call, call', "restore")
           /\ UnprepareDevice => Onward(call, call', "restore") \/ Onward(call, call', "unspec")
           /\ UnpreparedDevices => Onward(call, call', "unspec")
           /\ DeleteSpecFiles => Onward(call, call', "delete") \/ Moved(call, call', TRUE)
           /\ NothingPrepared =>
                 /\ call'.pod = call.pod /\ call'.op = call.op
                 /\ call'.phase = "return" /\ call'.failed = TRUE
<1>1. call \in Calls
  BY DEF CallOK
<1>2. UnprepareDeviceInfo => Onward(call, call', "restore")
  BY <1>1 DEF UnprepareDeviceInfo, Calls, Onward, SameClaim
<1>3. UnprepareDevice => Onward(call, call', "restore") \/ Onward(call, call', "unspec")
  <2>1. ASSUME UnprepareDevice
        PROVE  \/ call' = [call EXCEPT !.di = @ + 1] /\ call.phase = "restore"
               \/ call' = [call EXCEPT !.phase = "unspec", !.err = TRUE, !.di = 1]
    BY <2>1 DEF UnprepareDevice, Calling
  <2>2. ASSUME call' = [call EXCEPT !.di = @ + 1], call.phase = "restore"
        PROVE  Onward(call, call', "restore")
    BY <1>1, <2>2 DEF Calls, Onward, SameClaim
  <2>3. ASSUME call' = [call EXCEPT !.phase = "unspec", !.err = TRUE, !.di = 1]
        PROVE  Onward(call, call', "unspec")
    BY <1>1, <2>3 DEF Calls, Onward, SameClaim
  <2> QED
    BY <2>1, <2>2, <2>3
<1>4. UnpreparedDevices => Onward(call, call', "unspec")
  BY <1>1 DEF UnpreparedDevices, Calls, Onward, SameClaim
<1>5. DeleteSpecFiles => Onward(call, call', "delete") \/ Moved(call, call', TRUE)
  BY <1>1, PhaseGoesOn, FailMoves DEF DeleteSpecFiles
<1>6. NothingPrepared =>
          /\ call'.pod = call.pod /\ call'.op = call.op
          /\ call'.phase = "return" /\ call'.failed = TRUE
  BY <1>1 DEF NothingPrepared, Calls
<1> QED
  BY <1>2, <1>3, <1>4, <1>5, <1>6

\* The claim to unprepare is not known, or there is an entry of it.
LEMMA LookupStep ==
    ASSUME CallOK(call), LookupClaim
    PROVE  \/ Moved(call, call', call.failed)
           \/ /\ SameClaim(call, call') /\ call'.phase = "cleanInfo"
              /\ call'.from \in Pods /\ Get(call'.from, Claim)
<1>1. call \in Calls
  BY DEF CallOK
<1>2. CASE PodsWithClaim(Claim) = {}
  BY <1>2, NextMoves DEF LookupClaim
<1>3. CASE PodsWithClaim(Claim) # {}
  <2>1. PICK p \in PodsWithClaim(Claim) :
            call' = [call EXCEPT !.phase = "cleanInfo", !.from = p,
                                 !.work = preparedClaims[p][Claim]]
    BY <1>3 DEF LookupClaim
  <2>2. SameClaim(call, call') /\ call'.phase = "cleanInfo" /\ call'.from = p
    BY <1>1, <2>1 DEF Calls, SameClaim
  <2> QED
    BY <2>1, <2>2 DEF PodsWithClaim
<1> QED
  BY <1>2, <1>3

\* What the excluded faults leave of the steps that would meet them.
LEMMA QuietSteps ==
    ASSUME Quiet, CallOK(call)
    PROVE  /\ StoreClaim => /\ Set(call.pod, Claim, call.work, TRUE)
                            /\ Moved(call, call', call.failed)
           /\ ForgetClaim => DeleteClaim(Claim, TRUE) /\ Moved(call, call', call.failed)
           /\ CreateGlobalPodSpecFile => /\ podSpecs' = podSpecs \cup {call.pod}
                                         /\ Onward(call, call', "return")
           /\ RecordNetworkData => UpdatePreparedDeviceNetworkData(TRUE)
           /\ ~Reboot
<1>1. /\ ~Fault("checkpoint") /\ ~Fault("podspec") /\ ~Fault("reboot")
      /\ call \in Calls
  BY DEF Quiet, Fault, CallOK
<1>2. StoreClaim => Set(call.pod, Claim, call.work, TRUE) /\ Moved(call, call', call.failed)
  BY <1>1, NextMoves DEF StoreClaim
<1>3. ForgetClaim => DeleteClaim(Claim, TRUE) /\ Moved(call, call', call.failed)
  BY <1>1, NextMoves DEF ForgetClaim
<1>4. CreateGlobalPodSpecFile =>
          podSpecs' = podSpecs \cup {call.pod} /\ Onward(call, call', "return")
  BY <1>1, PhaseGoesOn DEF CreateGlobalPodSpecFile
<1>5. RecordNetworkData => UpdatePreparedDeviceNetworkData(TRUE)
  BY <1>1 DEF RecordNetworkData
<1>6. ~Reboot
  BY <1>1 DEF Reboot
<1> QED
  BY <1>2, <1>3, <1>4, <1>5, <1>6

\* The five kinds of steps of a call before its answer: on with the preparation
\* of a claim, on with its end, past a claim that failed, past one that is done,
\* and out of the loop over the claims.
PrepareStep ==
    /\ SameClaim(call, call') /\ UNCHANGED preparedClaims
    /\ call.phase \in Preparing \cup {"claim"} /\ call'.phase \in Preparing
    /\ call.phase = "claim" => ~Get(call.pod, Claim)
    /\ call'.phase \in {"info", "spec", "set"} => Len(call'.work) = Size(call)

UnprepareStep ==
    /\ SameClaim(call, call') /\ UNCHANGED preparedClaims
    /\ call.phase \in Unpreparing \cup {"lookup"} /\ call'.phase \in Unpreparing
    /\ call'.from \in Pods /\ Get(call'.from, Claim)

FailStep ==
    /\ Moved(call, call', TRUE) /\ UNCHANGED preparedClaims
    /\ call.phase \in Preparing \cup {"claim"} \cup Unpreparing

DoneStep ==
    /\ Moved(call, call', call.failed) /\ call.phase \in {"claim", "set", "lookup", "delete"}
    /\ call.op = "prepare" =>
          /\ preparedClaims'[call.pod][Claim] # NoEntry
          /\ \A c \in Claims : Get(call.pod, c) => preparedClaims'[call.pod][c] # NoEntry

ReturnStep ==
    /\ call.phase = "podspec" /\ call'.phase = "return" /\ UNCHANGED preparedClaims
    /\ call'.pod = call.pod /\ call'.op = call.op
    /\ call'.failed = TRUE \/ (SameClaim(call, call') /\ call.pod \in podSpecs')

\* Every step of a call is of one of these kinds, or answers.
LEMMA StepKinds ==
    ASSUME Quiet, LifecycleInv, UsableInv, CallStep
    PROVE  \/ PrepareStep \/ UnprepareStep \/ FailStep \/ DoneStep \/ ReturnStep
           \/ Answer \/ AnswerError
<1>1. /\ CallOK(call) /\ KindOK(call) /\ EntryOK(call, preparedClaims)
      /\ EntriesOK(preparedClaims) /\ Claim = ClaimAt(call)
      /\ Size(call) = Len(Results[Claim])
      /\ call.pod \in Pods /\ call.from \in Pods /\ Claim \in Claims
  <2>1. CallOK(call)
    BY DEF LifecycleInv
  <2>2. call.from \in Pods
    BY <2>1 DEF CallOK, Calls
  <2> QED
    BY <2>1, <2>2, CallFacts DEF LifecycleInv, UsableInv, ClaimAt, Claim
<1>2. CASE PrepareDevicesForClaim
  <2>1. /\ Onward(call, call', "bind") /\ call.phase = "claim" /\ ~Get(call.pod, Claim)
        /\ UNCHANGED preparedClaims
    BY <1>1, <1>2, PreparingSteps DEF PrepareDevicesForClaim, Calling, podManagerVars
  <2> QED
    BY <2>1 DEF Onward, PrepareStep, Preparing
<1>3. CASE RejectDevice \/ UndoDevice \/ AbortDeviceInfo \/ FailDevice
  <2>1. /\ Onward(call, call', "abort") \/ Onward(call, call', "undo")
        /\ call.phase \in Preparing /\ call.phase # "claim" /\ UNCHANGED preparedClaims
    BY <1>1, <1>3, PreparingSteps
       DEF RejectDevice, UndoDevice, AbortDeviceInfo, FailDevice, Calling, Preparing,
           podManagerVars
  <2> QED
    BY <2>1 DEF Onward, PrepareStep, Preparing
<1>4. CASE BindDevice
  <2>1. /\ Onward(call, call', "abort") \/ Onward(call, call', "finish")
        /\ call.phase = "bind" /\ UNCHANGED preparedClaims
    BY <1>1, <1>4, BindStep DEF BindDevice, Calling, podManagerVars
  <2> QED
    BY <2>1 DEF Onward, PrepareStep, Preparing
<1>5. CASE FinishDevice
  <2>1. /\ SameClaim(call, call') /\ call.phase = "finish" /\ UNCHANGED preparedClaims
        /\ \/ call'.phase = "info" /\ Len(call'.work) = Size(call)
           \/ call'.phase = "bind"
    BY <1>1, <1>5, FinishStep DEF FinishDevice, Calling, podManagerVars
  <2> QED
    BY <2>1 DEF PrepareStep, Preparing
<1>6. CASE AbortDevice
  <2>1. /\ Onward(call, call', "abort") \/ Moved(call, call', TRUE)
        /\ call.phase = "abort" /\ UNCHANGED preparedClaims
    BY <1>1, <1>6, AbortStep DEF AbortDevice, Calling, podManagerVars
  <2> QED
    BY <2>1 DEF Onward, PrepareStep, FailStep, Preparing
<1>7. CASE SyncDeviceInfo \/ CreateClaimSpecFile
  <2>1. /\ \/ Onward(call, call', "spec") \/ Onward(call, call', "abortInfo")
           \/ Onward(call, call', "set")
        /\ call.phase \in {"info", "spec"} /\ UNCHANGED preparedClaims
    BY <1>1, <1>7, PreparingSteps DEF SyncDeviceInfo, CreateClaimSpecFile, Calling,
                                      podManagerVars
  <2>2. Len(call.work) = Size(call)
    BY <1>1, <2>1 DEF KindOK
  <2> QED
    BY <2>1, <2>2 DEF Onward, PrepareStep, Preparing
<1>8. CASE RefuseClaim \/ Aborted
  <2>1. /\ Moved(call, call', TRUE) /\ call.phase \in {"claim", "abort"}
        /\ UNCHANGED preparedClaims
    BY <1>1, <1>8, PreparingSteps DEF RefuseClaim, Aborted, Calling, podManagerVars
  <2> QED
    BY <2>1 DEF FailStep, Preparing
<1>9. CASE AlreadyPrepared
  <2>1. /\ Moved(call, call', call.failed) /\ call.phase = "claim" /\ Get(call.pod, Claim)
        /\ UNCHANGED preparedClaims
    BY <1>1, <1>9, PreparingSteps DEF AlreadyPrepared, Calling, podManagerVars
  <2> QED
    BY <2>1 DEF DoneStep, Get
<1>10. CASE StoreClaim
  <2>1. /\ Moved(call, call', call.failed) /\ call.phase = "set"
        /\ preparedClaims' = [preparedClaims EXCEPT ![call.pod][Claim] = call.work]
    BY <1>1, <1>10, QuietSteps DEF StoreClaim, Calling, Set
  <2>2. call.work # NoEntry
    <3>1. Len(call.work) = Len(Results[Claim]) /\ Len(Results[Claim]) # 0
      BY <1>1, <2>1, CallFacts DEF KindOK
    <3> QED
      BY <3>1 DEF NoEntry
  <2>3. /\ preparedClaims'[call.pod][Claim] = call.work
        /\ \A c \in Claims : c # Claim =>
              preparedClaims'[call.pod][c] = preparedClaims[call.pod][c]
    BY <1>1, <2>1 DEF EntriesOK
  <2> QED
    BY <2>1, <2>2, <2>3 DEF DoneStep, Get
<1>11. CASE LookupClaim
  <2>1. call.phase = "lookup" /\ call.op = "unprepare" /\ UNCHANGED preparedClaims
    BY <1>1, <1>11 DEF LookupClaim, Calling, podManagerVars, KindOK
  <2> QED
    BY <1>1, <1>11, <2>1, LookupStep DEF DoneStep, UnprepareStep, Unpreparing
<1>12. CASE UnprepareDeviceInfo \/ UnprepareDevice \/ UnpreparedDevices \/ DeleteSpecFiles
  <2>1. /\ \/ Onward(call, call', "restore") \/ Onward(call, call', "unspec")
           \/ Onward(call, call', "delete") \/ Moved(call, call', TRUE)
        /\ call.phase \in Unpreparing /\ UNCHANGED preparedClaims
    BY <1>1, <1>12, UnpreparingSteps
       DEF UnprepareDeviceInfo, UnprepareDevice, UnpreparedDevices, DeleteSpecFiles,
           Calling, Unpreparing, podManagerVars
  <2>2. Get(call.from, Claim)
    BY <1>1, <2>1 DEF EntryOK, Get
  <2> QED
    BY <1>1, <2>1, <2>2 DEF Onward, UnprepareStep, FailStep, Unpreparing
<1>13. CASE ForgetClaim
  <2>1. Moved(call, call', call.failed) /\ call.phase = "delete"
    BY <1>1, <1>13, QuietSteps DEF ForgetClaim, Calling
  <2>2. call.op = "unprepare"
    BY <1>1, <2>1 DEF KindOK, Unpreparing
  <2> QED
    BY <2>1, <2>2 DEF DoneStep
<1>14. CASE CreateGlobalPodSpecFile
  <2>1. /\ podSpecs' = podSpecs \cup {call.pod} /\ Onward(call, call', "return")
        /\ call.phase = "podspec" /\ UNCHANGED preparedClaims
    BY <1>1, <1>14, QuietSteps DEF CreateGlobalPodSpecFile, Calling, podManagerVars
  <2> QED
    BY <2>1 DEF Onward, SameClaim, ReturnStep
<1>15. CASE NothingPrepared
  <2>1. call.phase = "podspec" /\ UNCHANGED preparedClaims
    BY <1>15 DEF NothingPrepared, Calling, podManagerVars
  <2> QED
    BY <1>1, <1>15, <2>1, UnpreparingSteps DEF ReturnStep
<1> QED
  BY <1>2, <1>3, <1>4, <1>5, <1>6, <1>7, <1>8, <1>9, <1>10, <1>11, <1>12, <1>13, <1>14,
     <1>15 DEF CallStep

\* A call for pod p begins.
Opening(p) ==
    /\ call'.pod = p /\ call'.ci = 1 /\ call'.work = <<>> /\ call'.failed = FALSE
    /\ \/ call'.op = "prepare" /\ call'.phase = "claim" /\ pod[p] \in {"reserved", "running"}
       \/ call'.op = "unprepare" /\ call'.phase = "lookup" /\ pod[p] = "terminating"

\* The steps beside a call leave it alone, begin it or lose it, and change neither
\* entries nor files nor drivers.
LEMMA OtherSteps ==
    ASSUME Quiet, LifecycleInv, UsableInv, Next, ~CallStep
    PROVE  /\ preparedClaims' = preparedClaims /\ UNCHANGED fileVars /\ driver' = driver
           /\ \/ UNCHANGED call
              \/ NoCall(call') /\ UNCHANGED pod
              \/ (\E p \in Pods : Opening(p)) /\ UNCHANGED pod
<1>1. CallOK(call) /\ checkpoint = preparedClaims
  BY DEF LifecycleInv, UsableInv
<1>2. ASSUME NEW p \in Pods, Reserve(p) \/ Terminate(p)
      PROVE  /\ preparedClaims' = preparedClaims /\ UNCHANGED fileVars /\ driver' = driver
             /\ UNCHANGED call
  BY <1>2 DEF Reserve, Terminate, podManagerVars, hostVars
<1>3. ASSUME NEW p \in Pods, StartPrepare(p)
      PROVE  /\ preparedClaims' = preparedClaims /\ UNCHANGED fileVars /\ driver' = driver
             /\ Opening(p) /\ UNCHANGED pod
  <2>1. /\ call'.pod = p /\ call'.ci = 1 /\ call'.work = <<>> /\ call'.failed = FALSE
        /\ call'.op = "prepare" /\ call'.phase = "claim"
    BY <1>3 DEF StartPrepare, Start, Idle
  <2> QED
    BY <1>3, <2>1 DEF StartPrepare, Opening, podManagerVars, hostVars, kubeletVars
<1>4. ASSUME NEW p \in Pods, StartUnprepare(p)
      PROVE  /\ preparedClaims' = preparedClaims /\ UNCHANGED fileVars /\ driver' = driver
             /\ Opening(p) /\ UNCHANGED pod
  <2>1. /\ call'.pod = p /\ call'.ci = 1 /\ call'.work = <<>> /\ call'.failed = FALSE
        /\ call'.op = "unprepare" /\ call'.phase = "lookup"
    BY <1>4 DEF StartUnprepare, Start, Idle
  <2> QED
    BY <1>4, <2>1 DEF StartUnprepare, Opening, podManagerVars, hostVars, kubeletVars
<1>5. CASE KubeletRestart
  BY <1>5 DEF KubeletRestart, podManagerVars, hostVars
<1>6. CASE RecordNetworkData
  BY <1>1, <1>6, QuietSteps DEF RecordNetworkData, UpdatePreparedDeviceNetworkData, hostVars
<1>7. CASE Crash
  <2>1. NoCall(call')
    BY <1>1, <1>7, EndShapes
  <2> QED
    BY <1>1, <1>7, <2>1 DEF Crash, Load, kubeletVars
<1>8. ~Reboot
  BY <1>1, QuietSteps
<1> QED
  BY <1>2, <1>3, <1>4, <1>5, <1>6, <1>7, <1>8 DEF Next

\* No step writes the memory and not the file.
LEMMA SyncNext ==
    ASSUME Quiet, LifecycleInv, UsableInv, Next
    PROVE  checkpoint' = preparedClaims'
<1>1. CallOK(call) /\ checkpoint = preparedClaims
  BY DEF LifecycleInv, UsableInv
<1>2. CASE StoreClaim \/ ForgetClaim \/ RecordNetworkData
  BY <1>1, <1>2, QuietSteps DEF Set, DeleteClaim, UpdatePreparedDeviceNetworkData,
                                syncToCheckpoint
<1>3. CASE Crash
  BY <1>3 DEF Crash, Load
<1>4. CASE UNCHANGED podManagerVars
  BY <1>1, <1>4 DEF podManagerVars
<1>5. ~Reboot
  BY <1>1, QuietSteps
<1> QED
  BY <1>2, <1>3, <1>4, <1>5, EntriesUnchanged

\* Entries are made for the claims of a call, from all their devices.
LEMMA OwnEntriesNext ==
    ASSUME Quiet, LifecycleInv, UsableInv, Next
    PROVE  OwnEntries(preparedClaims') /\ NewOK(pod', preparedClaims')
<1>1. /\ CallOK(call) /\ EntriesOK(preparedClaims) /\ OwnEntries(preparedClaims)
      /\ KindOK(call) /\ OwnerOK(call, pod) /\ NewOK(pod, preparedClaims)
      /\ checkpoint = preparedClaims /\ call.pod \in Pods /\ Claim \in Claims
      /\ Claim \in ClaimsOf(call.pod)
  <2>1. CallOK(call) /\ call.pod \in Pods /\ Claim \in Claims
    BY CallFacts DEF LifecycleInv
  <2>2. Claim \in ClaimsOf(call.pod)
    BY <2>1 DEF CallOK, Claim, ClaimsOf, ToSet
  <2> QED
    BY <2>1, <2>2 DEF LifecycleInv, UsableInv
<1>2. \A p \in Pods : pod'[p] = "new" => pod[p] = "new"
  <2>1. pod \in [Pods -> PodStates]
    BY DEF LifecycleInv, KubeletOK
  <2>2. ASSUME NEW q \in Pods, Reserve(q) \/ Terminate(q)
        PROVE  \A p \in Pods : pod'[p] = "new" => pod[p] = "new"
    BY <2>1, <2>2 DEF Reserve, Terminate
  <2>3. CASE Answer
    BY <1>1, <2>1, <2>3 DEF Answer
  <2> QED
    BY <2>2, <2>3, PodUnchanged
<1>3. ASSUME \A p \in Pods, c \in Claims :
                 preparedClaims'[p][c] # NoEntry => preparedClaims'[p][c] = preparedClaims[p][c]
      PROVE  OwnEntries(preparedClaims') /\ NewOK(pod', preparedClaims')
  <2>1. OwnEntries(preparedClaims')
    BY <1>1, <1>3 DEF OwnEntries
  <2>2. NewOK(pod', preparedClaims')
    BY <1>1, <1>2, <1>3 DEF NewOK
  <2> QED
    BY <2>1, <2>2
<1>4. CASE StoreClaim
  <2>1. preparedClaims' = [preparedClaims EXCEPT ![call.pod][Claim] = call.work]
    BY <1>4 DEF StoreClaim, Set
  <2>2. call.phase = "set" /\ Len(call.work) = Len(Results[Claim])
    BY <1>1, <1>4, CallFacts DEF StoreClaim, Calling, KindOK
  <2>3. pod[call.pod] # "new"
    BY <1>1, <2>2 DEF OwnerOK, LiveStates
  <2>4. ASSUME NEW p \in Pods, NEW c \in Claims
        PROVE  \/ p = call.pod /\ c = Claim /\ preparedClaims'[p][c] = call.work
               \/ preparedClaims'[p][c] = preparedClaims[p][c]
    BY <1>1, <2>1 DEF EntriesOK
  <2>5. OwnEntries(preparedClaims')
    BY <1>1, <2>2, <2>4 DEF OwnEntries
  <2>6. NewOK(pod', preparedClaims')
    BY <1>1, <1>2, <2>3, <2>4 DEF NewOK
  <2> QED
    BY <2>5, <2>6
<1>5. CASE ForgetClaim
  <2>1. PICK q \in Pods : preparedClaims' = [preparedClaims EXCEPT ![q] = NoClaims]
    BY <1>5 DEF ForgetClaim, DeleteClaim, PodsWithClaim
  <2> QED
    BY <1>1, <1>3, <2>1 DEF EntriesOK, NoClaims
<1>6. CASE UNCHANGED preparedClaims
  BY <1>3, <1>6
<1>7. CASE RecordNetworkData \/ Crash
  BY <1>1, <1>6, <1>7 DEF RecordNetworkData, UpdatePreparedDeviceNetworkData, Crash, Load
<1>8. ~Reboot
  BY <1>1, QuietSteps
<1> QED
  BY <1>4, <1>5, <1>6, <1>7, <1>8, EntriesUnchanged DEF podManagerVars

\* Reserve keeps live pods apart.
LEMMA ApartNext ==
    ASSUME LifecycleInv, UsableInv, Next
    PROVE  Apart(pod')
<1>1. Apart(pod) /\ pod \in [Pods -> PodStates]
  BY DEF UsableInv, LifecycleInv, KubeletOK
<1>2. ASSUME \A p \in Pods : pod'[p] \in LiveStates => pod[p] \in LiveStates
      PROVE  Apart(pod')
  BY <1>1, <1>2 DEF Apart
<1>3. ASSUME NEW p \in Pods, Reserve(p) PROVE Apart(pod')
  <2>1. \A q \in Pods \ {p} : pod[q] \in LiveStates =>
            \A c \in ClaimsOf(p), b \in ClaimsOf(q) : DevicesOf(c) \cap DevicesOf(b) = {}
    BY <1>3 DEF Reserve, Live, LiveStates
  <2>2. \A q \in Pods \ {p} : pod'[q] = pod[q]
    BY <1>1, <1>3 DEF Reserve
  <2>3. ASSUME NEW r \in Pods, NEW q \in Pods, r # q, pod'[r] \in LiveStates,
               pod'[q] \in LiveStates, NEW c \in ClaimsOf(r), NEW b \in ClaimsOf(q)
        PROVE  DevicesOf(c) \cap DevicesOf(b) = {}
    <3>1. CASE r = p
      BY <2>1, <2>2, <2>3, <3>1
    <3>2. CASE q = p
      <4>1. DevicesOf(b) \cap DevicesOf(c) = {}
        BY <2>1, <2>2, <2>3, <3>2
      <4> QED
        BY <4>1
    <3>3. CASE r # p /\ q # p
      BY <1>1, <2>2, <2>3, <3>3 DEF Apart
    <3> QED
      BY <3>1, <3>2, <3>3
  <2> QED
    BY <2>3 DEF Apart
<1>4. ASSUME NEW p \in Pods, Terminate(p) PROVE Apart(pod')
  BY <1>1, <1>2, <1>4 DEF Terminate, LiveStates
<1>5. CASE Answer
  <2>1. call.pod \in Pods
    BY CallFacts DEF LifecycleInv
  <2> QED
    BY <1>1, <1>2, <1>5, <2>1 DEF Answer, LiveStates
<1>6. CASE UNCHANGED pod
  BY <1>1, <1>6
<1> QED
  BY <1>3, <1>4, <1>5, <1>6, PodUnchanged

\* Facts about a call and its claim.
LEMMA CallHere ==
    ASSUME LifecycleInv
    PROVE  /\ CallOK(call) /\ call.pod \in Pods /\ call.from \in Pods
           /\ Claim \in Claims /\ Claim = ClaimAt(call) /\ Claim \in ClaimsOf(call.pod)
           /\ Size(call) = Len(Results[Claim]) /\ call.ci \in 1..Len(Uses[call.pod])
           /\ Len(Uses[call.pod]) \in Nat /\ call.failed \in BOOLEAN
<1>1. /\ CallOK(call) /\ call.pod \in Pods /\ Claim \in Claims
      /\ Size(call) = Len(Results[Claim])
  BY CallFacts DEF LifecycleInv
<1>2. /\ call.from \in Pods /\ call.ci \in 1..Len(Uses[call.pod]) /\ call.failed \in BOOLEAN
  BY <1>1 DEF CallOK, Calls
<1>3. Claim \in ClaimsOf(call.pod)
  BY <1>2 DEF Claim, ClaimsOf, ToSet
<1>4. Len(Uses[call.pod]) \in Nat
  BY <1>1, LifecycleAssumption
<1> QED
  BY <1>1, <1>2, <1>3, <1>4 DEF Claim, ClaimAt

\* What a call is for fits its phase.
LEMMA KindNext ==
    ASSUME Quiet, LifecycleInv, UsableInv, Next
    PROVE  KindOK(call')
<1>1. CallOK(call) /\ KindOK(call)
  BY DEF LifecycleInv, UsableInv
<1>2. CASE UNCHANGED call
  BY <1>1, <1>2
<1>3. CASE NoCall(call')
  BY <1>3 DEF NoCall, KindOK, Preparing, Unpreparing
<1>4. ASSUME NEW p \in Pods, Opening(p) PROVE KindOK(call')
  BY <1>4 DEF Opening, KindOK, Preparing, Unpreparing
<1>5. CASE PrepareStep
  <2>1. call.op = "prepare"
    BY <1>1, <1>5 DEF PrepareStep, KindOK
  <2>2. Size(call') = Size(call)
    BY <1>5 DEF PrepareStep, SameClaim, Size
  <2> QED
    BY <1>5, <2>1, <2>2 DEF PrepareStep, SameClaim, KindOK, Preparing, Unpreparing
<1>6. CASE UnprepareStep
  <2>1. call.op = "unprepare"
    BY <1>1, <1>6 DEF UnprepareStep, KindOK
  <2> QED
    BY <1>6, <2>1 DEF UnprepareStep, SameClaim, KindOK, Preparing, Unpreparing
<1>7. CASE FailStep \/ DoneStep
  <2>1. call.op \in {"prepare", "unprepare"}
    BY <1>1, <1>7 DEF FailStep, DoneStep, KindOK, Preparing, Unpreparing
  <2>2. /\ call'.op = call.op
        /\ \/ call'.phase = IF call.op = "prepare" THEN "claim" ELSE "lookup"
           \/ call'.phase = IF call.op = "prepare" THEN "podspec" ELSE "return"
    BY <1>7 DEF FailStep, DoneStep, Moved
  <2> QED
    BY <2>1, <2>2 DEF KindOK, Preparing, Unpreparing
<1>8. CASE ReturnStep
  <2>1. call.op = "prepare"
    BY <1>1, <1>8 DEF ReturnStep, KindOK
  <2> QED
    BY <1>8, <2>1 DEF ReturnStep, KindOK, Preparing, Unpreparing
<1>9. CASE Answer \/ AnswerError
  BY <1>1, <1>3, <1>9, EndShapes
<1> QED
  BY <1>2, <1>3, <1>4, <1>5, <1>6, <1>7, <1>8, <1>9, StepKinds, OtherSteps

\* The call's pod is not let go while the call runs.
LEMMA OwnerNext ==
    ASSUME Quiet, LifecycleInv, UsableInv, Next
    PROVE  OwnerOK(call', pod')
<1>1. /\ CallOK(call) /\ KindOK(call) /\ OwnerOK(call, pod) /\ call.pod \in Pods
      /\ pod \in [Pods -> PodStates]
  BY CallHere DEF LifecycleInv, UsableInv, KubeletOK
<1>2. ASSUME NoCall(call') PROVE OwnerOK(call', pod')
  BY <1>2 DEF NoCall, OwnerOK
<1>3. CASE Answer
  BY <1>1, <1>2, <1>3, EndShapes
<1>4. ASSUME ~Answer, NEW p \in Pods
      PROVE  /\ pod[p] \in LiveStates => pod'[p] \in LiveStates
             /\ pod[p] = "terminating" => pod'[p] = "terminating"
  <2>1. ASSUME NEW q \in Pods, Reserve(q) \/ Terminate(q)
        PROVE  /\ pod[p] \in LiveStates => pod'[p] \in LiveStates
               /\ pod[p] = "terminating" => pod'[p] = "terminating"
    BY <1>1, <2>1 DEF Reserve, Terminate, LiveStates
  <2> QED
    BY <1>4, <2>1, PodUnchanged
<1>5. ASSUME ~Answer, call'.pod = call.pod, call'.op = call.op, call.phase # "idle"
      PROVE  OwnerOK(call', pod')
  BY <1>1, <1>4, <1>5 DEF OwnerOK
<1>6. CASE UNCHANGED call /\ ~Answer
  <2>1. CASE call.phase = "idle"
    BY <1>1, <1>6, <2>1 DEF OwnerOK, KindOK
  <2> QED
    BY <1>5, <1>6, <2>1
<1>7. ASSUME NEW p \in Pods, Opening(p), UNCHANGED pod PROVE OwnerOK(call', pod')
  BY <1>7 DEF Opening, OwnerOK, LiveStates
<1>8. CASE (PrepareStep \/ UnprepareStep \/ FailStep \/ DoneStep \/ ReturnStep) /\ ~Answer
  <2>1. call'.pod = call.pod /\ call'.op = call.op /\ call.phase # "idle"
    BY <1>8 DEF PrepareStep, UnprepareStep, FailStep, DoneStep, ReturnStep, SameClaim,
                Moved, Preparing, Unpreparing
  <2> QED
    BY <1>5, <1>8, <2>1
<1>9. CASE AnswerError
  BY <1>1, <1>2, <1>9, EndShapes
<1> QED
  BY <1>2, <1>3, <1>6, <1>7, <1>8, <1>9, StepKinds, OtherSteps

\* The entry of a claim appears when its preparation is over and goes when its
\* end is.
LEMMA EntryNext ==
    ASSUME Quiet, LifecycleInv, UsableInv, Next
    PROVE  EntryOK(call', preparedClaims')
<1>1. /\ CallOK(call) /\ EntryOK(call, preparedClaims) /\ Claim = ClaimAt(call)
  BY CallHere DEF LifecycleInv, UsableInv
<1>2. ASSUME call'.phase \notin Preparing \cup Unpreparing PROVE EntryOK(call', preparedClaims')
  BY <1>2 DEF EntryOK
<1>3. ASSUME NoCall(call') PROVE EntryOK(call', preparedClaims')
  BY <1>2, <1>3 DEF NoCall, Preparing, Unpreparing
<1>4. CASE UNCHANGED call /\ UNCHANGED preparedClaims
  BY <1>1, <1>4
<1>5. ASSUME NEW p \in Pods, Opening(p) PROVE EntryOK(call', preparedClaims')
  BY <1>2, <1>5 DEF Opening, Preparing, Unpreparing
<1>6. CASE PrepareStep
  <2>1. ClaimAt(call') = Claim /\ call'.pod = call.pod /\ UNCHANGED preparedClaims
    BY <1>1, <1>6 DEF PrepareStep, SameClaim, ClaimAt
  <2>2. preparedClaims[call.pod][Claim] = NoEntry
    BY <1>1, <1>6 DEF PrepareStep, EntryOK, Get
  <2>3. call'.phase \notin Unpreparing
    BY <1>6 DEF PrepareStep, Preparing, Unpreparing
  <2> QED
    BY <2>1, <2>2, <2>3 DEF EntryOK
<1>7. CASE UnprepareStep
  <2>1. /\ ClaimAt(call') = Claim /\ UNCHANGED preparedClaims
        /\ preparedClaims[call'.from][Claim] # NoEntry
    BY <1>1, <1>7 DEF UnprepareStep, SameClaim, ClaimAt, Get
  <2>2. call'.phase \notin Preparing
    BY <1>7 DEF UnprepareStep, Preparing, Unpreparing
  <2> QED
    BY <2>1, <2>2 DEF EntryOK
<1>8. CASE FailStep \/ DoneStep \/ ReturnStep
  <2>1. call'.phase \in {"claim", "lookup", "podspec", "return"}
    BY <1>8 DEF FailStep, DoneStep, ReturnStep, Moved
  <2> QED
    BY <1>2, <2>1 DEF Preparing, Unpreparing
<1>9. CASE Answer \/ AnswerError
  BY <1>1, <1>3, <1>9, EndShapes
<1> QED
  BY <1>3, <1>4, <1>5, <1>6, <1>7, <1>8, <1>9, StepKinds, OtherSteps

\* A prepare without an error leaves no claim of the pod out.
LEMMA ReachedNext ==
    ASSUME Quiet, LifecycleInv, UsableInv, Next
    PROVE  ReachedOK(call', preparedClaims', podSpecs')
<1>1. /\ CallOK(call) /\ KindOK(call) /\ ReachedOK(call, preparedClaims, podSpecs)
      /\ Claim = ClaimAt(call) /\ Claim \in Claims /\ call.pod \in Pods
      /\ call.ci \in 1..Len(Uses[call.pod]) /\ Len(Uses[call.pod]) \in Nat
      /\ call.failed \in BOOLEAN
  BY CallHere DEF UsableInv
<1>2. ASSUME call'.op # "prepare" \/ call'.failed = TRUE
      PROVE  ReachedOK(call', preparedClaims', podSpecs')
  BY <1>2 DEF ReachedOK
<1>3. ASSUME NoCall(call') PROVE ReachedOK(call', preparedClaims', podSpecs')
  BY <1>2, <1>3 DEF NoCall
<1>4. CASE UNCHANGED call /\ UNCHANGED preparedClaims /\ UNCHANGED fileVars
  BY <1>1, <1>4 DEF fileVars
<1>5. ASSUME NEW p \in Pods, Opening(p) PROVE ReachedOK(call', preparedClaims', podSpecs')
  <2>1. call'.ci - 1 = 0 /\ call'.phase \notin {"podspec", "return"}
    BY <1>5 DEF Opening
  <2> QED
    BY <2>1 DEF ReachedOK
<1>6. CASE PrepareStep
  <2>1. call'.phase \notin {"podspec", "return"}
    BY <1>6 DEF PrepareStep, Preparing
  <2> QED
    BY <1>1, <1>6, <2>1 DEF PrepareStep, SameClaim, ReachedOK
<1>7. CASE UnprepareStep
  <2>1. call.op = "unprepare" /\ call'.op = call.op
    BY <1>1, <1>7 DEF UnprepareStep, SameClaim, KindOK
  <2> QED
    BY <1>2, <2>1
<1>8. CASE FailStep
  BY <1>2, <1>8 DEF FailStep, Moved
<1>9. CASE DoneStep
  <2>1. SUFFICES ASSUME call'.op = "prepare", call'.failed = FALSE
                 PROVE  ReachedOK(call', preparedClaims', podSpecs')
    BY DEF ReachedOK
  <2>2. call.op = "prepare" /\ call.failed = FALSE /\ call'.pod = call.pod
    BY <1>9, <2>1 DEF DoneStep, Moved
  <2>3. \A k \in 1..call.ci : preparedClaims'[call.pod][Uses[call.pod][k]] # NoEntry
    <3>1. SUFFICES ASSUME NEW k \in 1..call.ci
                   PROVE  preparedClaims'[call.pod][Uses[call.pod][k]] # NoEntry
      OBVIOUS
    <3>2. CASE k = call.ci
      BY <1>1, <1>9, <2>2, <3>2 DEF DoneStep, Claim
    <3>3. CASE k # call.ci
      <4>1. k \in 1..(call.ci - 1) /\ k \in 1..Len(Uses[call.pod])
        BY <1>1, <3>1, <3>3
      <4>2. Get(call.pod, Uses[call.pod][k]) /\ Uses[call.pod][k] \in Claims
        BY <1>1, <2>2, <4>1, SizeFacts DEF ReachedOK, Get
      <4> QED
        BY <1>9, <2>2, <4>2 DEF DoneStep
    <3> QED
      BY <3>2, <3>3
  <2>4. CASE call.ci < Len(Uses[call.pod])
    <3>1. call'.ci = call.ci + 1 /\ call'.phase = "claim"
      BY <1>9, <2>2, <2>4 DEF DoneStep, Moved
    <3>2. call'.ci - 1 = call.ci
      BY <1>1, <3>1
    <3> QED
      BY <2>2, <2>3, <3>1, <3>2 DEF ReachedOK
  <2>5. CASE ~(call.ci < Len(Uses[call.pod]))
    <3>1. call'.ci = call.ci /\ call'.phase = "podspec" /\ call.ci = Len(Uses[call.pod])
      BY <1>9, <2>2, <2>5 DEF DoneStep, Moved
    <3>2. \A c \in ClaimsOf(call.pod) : preparedClaims'[call.pod][c] # NoEntry
      BY <2>3, <3>1 DEF ClaimsOf, ToSet
    <3>3. \A k \in 1..(call.ci - 1) : k \in 1..call.ci
      BY <1>1
    <3> QED
      BY <2>2, <2>3, <3>1, <3>2, <3>3 DEF ReachedOK
  <2> QED
    BY <2>4, <2>5
<1>10. CASE ReturnStep
  <2>1. CASE call'.failed = TRUE
    BY <1>2, <2>1
  <2>2. CASE SameClaim(call, call') /\ call.pod \in podSpecs'
    BY <1>1, <1>10, <2>2 DEF ReturnStep, SameClaim, ReachedOK
  <2> QED
    BY <1>10, <2>1, <2>2 DEF ReturnStep
<1>11. CASE Answer \/ AnswerError
  BY <1>1, <1>3, <1>11, EndShapes
<1> QED
  BY <1>3, <1>4, <1>5, <1>6, <1>7, <1>8, <1>9, <1>10, <1>11, StepKinds, OtherSteps
-------------------------------------------------------------------------------
(***************************************************************************)
(* What a step touches                                                     *)
(***************************************************************************)

\* A claim has devices, and the device and the device-info files that a call
\* works on are of its claim.
LEMMA OwnDevices ==
    ASSUME LifecycleInv
    PROVE  /\ \A c \in Claims : DevicesOf(c) # {}
           /\ InfoDevices \subseteq DevicesOf(Claim)
           /\ call.phase \in {"bind", "finish", "undo"} \/ call.di <= Len(call.work) =>
                 Device \in DevicesOf(Claim) /\ Device \in Devices
<1>1. CallOK(call) /\ Size(call) = Len(Results[Claim])
  BY CallHere
<1>2. ASSUME NEW c \in Claims PROVE DevicesOf(c) # {}
  <2>1. Results[c] \in Seq(Devices) /\ Results[c] # <<>>
    BY LifecycleAssumption
  <2>2. 1 \in 1..Len(Results[c])
    BY <2>1
  <2> QED
    BY <2>2 DEF DevicesOf, ToSet
<1>3. \A i \in 1..Len(call.work) : i \in 1..Len(Results[Claim])
  BY <1>1, CallFacts DEF CallOK
<1>4. InfoDevices \subseteq DevicesOf(Claim)
  BY <1>3 DEF InfoDevices, DevicesOf, ToSet
<1>5. ASSUME call.phase \in {"bind", "finish", "undo"} \/ call.di <= Len(call.work)
      PROVE  Device \in DevicesOf(Claim) /\ Device \in Devices
  <2>1. Device \in Devices /\ call.di \in 1..Len(Results[Claim])
    BY <1>1, <1>5, DeviceFacts
  <2> QED
    BY <2>1 DEF Device, DevicesOf, ToSet
<1> QED
  BY <1>2, <1>4, <1>5

\* A driver that changes is that of a device of the call's claim.
LEMMA DriversTouched ==
    ASSUME Quiet, LifecycleInv, UsableInv, Next, NEW d \in Devices, driver'[d] # driver[d]
    PROVE  /\ call.phase \in Preparing \cup Unpreparing
           /\ d \in DevicesOf(Claim)
<1>1. driver \in [Devices -> Bindings] /\ CallOK(call)
  BY DEF LifecycleInv, HostOK
<1>2. ASSUME Device \in DevicesOf(Claim), NEW b, driver' = [driver EXCEPT ![Device] = b]
      PROVE  d \in DevicesOf(Claim)
  BY <1>1, <1>2
<1>3. CASE BindDevice \/ UndoDevice
  <2>1. call.phase \in {"bind", "undo"} /\ \E b : driver' = [driver EXCEPT ![Device] = b]
    BY <1>3 DEF BindDevice, UndoDevice, Calling
  <2> QED
    BY <1>2, <2>1, OwnDevices DEF Preparing
<1>4. CASE AbortDevice \/ UnprepareDevice
  <2>1. /\ call.phase \in {"abort", "restore"} /\ ~Undone
        /\ \E b : driver' = [driver EXCEPT ![Device] = b]
    BY <1>4 DEF AbortDevice, UnprepareDevice, Calling
  <2>2. call.di <= Len(call.work)
    BY <1>1, <2>1, CallFacts DEF Undone
  <2> QED
    BY <1>2, <2>1, <2>2, OwnDevices DEF Preparing, Unpreparing
<1>5. ~Crash /\ ~Reboot
  BY <1>1, QuietSteps DEF Crash
<1>6. ~UNCHANGED hostVars
  BY DEF hostVars
<1> QED
  BY <1>3, <1>4, <1>5, <1>6, HostUnchanged

\* The steps that change the files.
LEMMA FilesUnchanged ==
    ASSUME Quiet, LifecycleInv, UsableInv, Next
    PROVE  \/ SyncDeviceInfo \/ AbortDeviceInfo \/ CreateClaimSpecFile
           \/ CreateGlobalPodSpecFile \/ UnprepareDeviceInfo \/ DeleteSpecFiles
           \/ UNCHANGED fileVars
<1>1. ~CallStep => UNCHANGED fileVars
  BY OtherSteps
<1>2. RefuseClaim \/ AlreadyPrepared \/ PrepareDevicesForClaim \/ RejectDevice
          \/ BindDevice \/ FinishDevice \/ FailDevice \/ UndoDevice \/ AbortDevice
          \/ Aborted \/ StoreClaim
          => UNCHANGED fileVars
  BY DEF RefuseClaim, AlreadyPrepared, PrepareDevicesForClaim, RejectDevice, BindDevice,
         FinishDevice, FailDevice, UndoDevice, AbortDevice, Aborted, StoreClaim
<1>3. NothingPrepared \/ LookupClaim \/ UnprepareDevice \/ UnpreparedDevices \/ ForgetClaim
          \/ Answer \/ AnswerError
          => UNCHANGED fileVars
  BY DEF NothingPrepared, LookupClaim, UnprepareDevice, UnpreparedDevices, ForgetClaim,
         Answer, AnswerError
<1> QED
  BY <1>1, <1>2, <1>3 DEF CallStep

\* A file that goes is of the call's claim, or of the pod whose entry is undone.
LEMMA FilesTouched ==
    ASSUME Quiet, LifecycleInv, UsableInv, Next
    PROVE  /\ \A d \in deviceInfo \ deviceInfo' :
                 call.phase \in Preparing \cup Unpreparing /\ d \in DevicesOf(Claim)
           /\ \A c \in claimSpecs \ claimSpecs' : call.phase \in Unpreparing /\ c = Claim
           /\ \A p \in podSpecs \ podSpecs' : call.phase \in Unpreparing /\ p = call.from
<1>1. InfoDevices \subseteq DevicesOf(Claim)
  BY OwnDevices
<1>2. CASE SyncDeviceInfo
  <2>1. /\ call.phase = "info" /\ UNCHANGED <<claimSpecs, podSpecs>>
        /\ deviceInfo \ deviceInfo' \subseteq InfoDevices
    BY <1>2 DEF SyncDeviceInfo, Calling
  <2> QED
    BY <1>1, <2>1 DEF Preparing
<1>3. CASE AbortDeviceInfo \/ UnprepareDeviceInfo
  <2>1. /\ call.phase \in {"abortInfo", "cleanInfo"} /\ UNCHANGED <<claimSpecs, podSpecs>>
        /\ deviceInfo \ deviceInfo' \subseteq InfoDevices
    BY <1>3 DEF AbortDeviceInfo, UnprepareDeviceInfo, CleanDeviceInfo, Calling
  <2> QED
    BY <1>1, <2>1 DEF Preparing, Unpreparing
<1>4. CASE CreateClaimSpecFile \/ CreateGlobalPodSpecFile
  BY <1>4 DEF CreateClaimSpecFile, CreateGlobalPodSpecFile
<1>5. CASE DeleteSpecFiles
  BY <1>5 DEF DeleteSpecFiles, Calling, Unpreparing
<1>6. CASE UNCHANGED fileVars
  BY <1>6 DEF fileVars
<1> QED
  BY <1>2, <1>3, <1>4, <1>5, <1>6, FilesUnchanged

\* An unprepare undoes entries of pods that have ended.
LEMMA UndoneEntries ==
    ASSUME LifecycleInv, UsableInv, call.phase \in Unpreparing,
           NEW q \in Pods, Get(q, Claim)
    PROVE  pod[q] \notin {"reserved", "running"}
<1>1. /\ call.pod \in Pods /\ Claim \in Claims /\ Claim \in ClaimsOf(call.pod)
      /\ KindOK(call) /\ OwnerOK(call, pod) /\ OwnEntries(preparedClaims) /\ Apart(pod)
  BY CallHere DEF UsableInv
<1>2. pod[call.pod] = "terminating"
  BY <1>1 DEF KindOK, OwnerOK
<1>3. Claim \in ClaimsOf(q)
  BY <1>1 DEF OwnEntries, Get
<1>4. ASSUME pod[q] \in {"reserved", "running"} PROVE FALSE
  <2>1. q # call.pod
    BY <1>2, <1>4
  <2>2. DevicesOf(Claim) \cap DevicesOf(Claim) = {}
    BY <1>1, <1>2, <1>3, <1>4, <2>1 DEF Apart, LiveStates
  <2> QED
    BY <1>1, <2>2, OwnDevices
<1> QED
  BY <1>4

\* An entry of a pod that has not ended stays.
LEMMA EntriesStay ==
    ASSUME Quiet, LifecycleInv, UsableInv, Next, NEW p \in Pods, NEW c \in Claims,
           pod[p] \in {"reserved", "running"}, Get(p, c)
    PROVE  preparedClaims'[p][c] = preparedClaims[p][c]
<1>1. EntriesOK(preparedClaims) /\ CallOK(call) /\ checkpoint = preparedClaims
  BY DEF LifecycleInv, UsableInv
<1>2. CASE StoreClaim
  <2>1. /\ preparedClaims' = [preparedClaims EXCEPT ![call.pod][Claim] = call.work]
        /\ call.phase \in Preparing
    BY <1>2 DEF StoreClaim, Calling, Set, Preparing
  <2>2. ~(p = call.pod /\ c = Claim)
    BY <2>1, CallHere DEF UsableInv, EntryOK, Get
  <2> QED
    BY <1>1, <2>1, <2>2 DEF EntriesOK
<1>3. CASE ForgetClaim
  <2>1. PICK q \in Pods : /\ Get(q, Claim)
                          /\ preparedClaims' = [preparedClaims EXCEPT ![q] = NoClaims]
    BY <1>3 DEF ForgetClaim, DeleteClaim, PodsWithClaim
  <2>2. call.phase \in Unpreparing
    BY <1>3 DEF ForgetClaim, Calling, Unpreparing
  <2>3. p # q
    BY <2>1, <2>2, UndoneEntries
  <2> QED
    BY <1>1, <2>1, <2>3 DEF EntriesOK
<1>4. CASE preparedClaims' = preparedClaims
  BY <1>4
<1>5. CASE RecordNetworkData \/ Crash
  BY <1>1, <1>4, <1>5 DEF RecordNetworkData, UpdatePreparedDeviceNetworkData, Crash, Load
<1>6. ~Reboot
  BY <1>1, QuietSteps
<1> QED
  BY <1>2, <1>3, <1>4, <1>5, <1>6, EntriesUnchanged DEF podManagerVars

\* A running pod keeps its entries and its spec file.
LEMMA RunningNext ==
    ASSUME Quiet, LifecycleInv, UsableInv, Next
    PROVE  RunningOK(pod', preparedClaims', podSpecs')
<1>1. SUFFICES ASSUME NEW p \in Pods, pod'[p] = "running"
               PROVE  /\ p \in podSpecs'
                      /\ \A c \in ClaimsOf(p) : preparedClaims'[p][c] # NoEntry
  BY DEF RunningOK
<1>2. \A c \in ClaimsOf(p) : c \in Claims
  BY SizeFacts DEF ClaimsOf, ToSet
<1>3. CASE pod[p] = "running"
  <2>1. p \in podSpecs /\ \A c \in ClaimsOf(p) : Get(p, c)
    BY <1>3 DEF UsableInv, RunningOK, Get
  <2>2. \A c \in ClaimsOf(p) : preparedClaims'[p][c] # NoEntry
    BY <1>2, <1>3, <2>1, EntriesStay DEF Get
  <2>3. p \in podSpecs'
    <3>1. SUFFICES ASSUME p \notin podSpecs' PROVE FALSE
      OBVIOUS
    <3>2. call.phase \in Unpreparing /\ p = call.from
      BY <2>1, <3>1, FilesTouched
    <3>3. Get(p, Claim)
      BY <3>2, CallHere DEF UsableInv, EntryOK, Get
    <3> QED
      BY <1>3, <3>2, <3>3, UndoneEntries
  <2> QED
    BY <2>2, <2>3
<1>4. CASE pod[p] # "running"
  <2>1. pod \in [Pods -> PodStates] /\ call.pod \in Pods /\ call.failed \in BOOLEAN
    BY CallHere DEF LifecycleInv, KubeletOK
  <2>2. ASSUME NEW q \in Pods, Reserve(q) \/ Terminate(q) PROVE FALSE
    BY <1>1, <1>4, <2>1, <2>2 DEF Reserve, Terminate
  <2>3. Answer
    BY <1>1, <1>4, <2>2, PodUnchanged
  <2>4. p = call.pod /\ call.op = "prepare" /\ call.phase = "return" /\ call.failed = FALSE
    BY <1>1, <1>4, <2>1, <2>3 DEF Answer, Calling
  <2>5. p \in podSpecs /\ \A c \in ClaimsOf(p) : preparedClaims[p][c] # NoEntry
    BY <2>4 DEF UsableInv, ReachedOK
  <2> QED
    BY <2>3, <2>5 DEF Answer, fileVars, podManagerVars
<1> QED
  BY <1>3, <1>4

\* The promise to running pods starts and stays.
LEMMA UsableInit == Init => UsableInv
<1>1. SUFFICES ASSUME Init PROVE UsableInv
  OBVIOUS
<1>2. call = Idle /\ NoCall(call)
  BY <1>1, IdleIs DEF Init
<1>3. checkpoint = preparedClaims /\ OwnEntries(preparedClaims) /\ NewOK(pod, preparedClaims)
  BY <1>1 DEF Init, PodManagerInit, NoClaims, OwnEntries, NewOK
<1>4. Apart(pod) /\ RunningOK(pod, preparedClaims, podSpecs)
  BY <1>1 DEF Init, Apart, LiveStates, RunningOK
<1>5. /\ KindOK(call) /\ OwnerOK(call, pod) /\ EntryOK(call, preparedClaims)
      /\ ReachedOK(call, preparedClaims, podSpecs)
  BY <1>2 DEF NoCall, KindOK, OwnerOK, EntryOK, ReachedOK, Preparing, Unpreparing
<1> QED
  BY <1>3, <1>4, <1>5 DEF UsableInv

\* The same for every step.
LEMMA UsableNext == Quiet /\ LifecycleInv /\ UsableInv /\ [Next]_vars => UsableInv'
<1>1. SUFFICES ASSUME Quiet, LifecycleInv, UsableInv, [Next]_vars PROVE UsableInv'
  OBVIOUS
<1>2. CASE Next
  BY <1>1, <1>2, SyncNext, OwnEntriesNext, ApartNext, KindNext, OwnerNext, EntryNext,
     ReachedNext, RunningNext DEF UsableInv
<1>3. CASE UNCHANGED vars
  BY <1>1, <1>3 DEF vars, podManagerVars, fileVars, kubeletVars, UsableInv
<1> QED
  BY <1>1, <1>2, <1>3

\* As long as the checkpoint and the pod's spec file can be written and the node
\* stays up, a running pod has an entry for every claim and its spec file, and the
\* calls of live pods do not meet.
THEOREM UsableInvariant == ASSUME Quiet PROVE Spec => []UsableInv
<1>1. Init => UsableInv
  BY UsableInit
<1>2. LifecycleInv /\ UsableInv /\ [Next]_vars => UsableInv'
  BY UsableNext
<1> QED
  BY <1>1, <1>2, LifecycleInvariant, PTL DEF Spec

\* No call, for this pod or for another, moves a device of a running pod to
\* another driver: prepareResourceClaim leaves a prepared claim alone, and an
\* unprepare is for pods that have ended.
THEOREM RunningPodsKeepTheirDrivers == ASSUME Quiet PROVE Spec => RunningPodUndisturbed
<1> DEFINE Step == \A p \in Pods : pod[p] = "running" /\ pod'[p] = "running" =>
                       \A c \in ClaimsOf(p) : \A d \in DevicesOf(c) : driver'[d] = driver[d]
<1>1. LifecycleInv /\ UsableInv /\ [Next]_vars => [Step]_vars
  <2>1. SUFFICES ASSUME LifecycleInv, UsableInv, Next,
                        NEW p \in Pods, pod[p] = "running",
                        NEW c \in ClaimsOf(p), NEW d \in DevicesOf(c), driver'[d] # driver[d]
                 PROVE  FALSE
    OBVIOUS
  <2>2. c \in Claims
    BY SizeFacts DEF ClaimsOf, ToSet
  <2>3. d \in Devices
    <3>1. Results[c] \in Seq(Devices)
      BY <2>2, LifecycleAssumption
    <3> QED
      BY <3>1 DEF DevicesOf, ToSet
  <2>4. call.phase \in Preparing \cup Unpreparing /\ d \in DevicesOf(Claim)
    BY <2>1, <2>3, DriversTouched
  <2>5. /\ call.pod \in Pods /\ Claim \in ClaimsOf(call.pod) /\ pod[call.pod] \in LiveStates
        /\ KindOK(call) /\ OwnerOK(call, pod) /\ EntryOK(call, preparedClaims)
        /\ Apart(pod) /\ Claim = ClaimAt(call)
    BY <2>1, <2>4, CallHere DEF UsableInv, OwnerOK, Preparing, Unpreparing
  <2>6. CASE call.pod # p
    BY <2>1, <2>4, <2>5, <2>6 DEF Apart, LiveStates
  <2>7. CASE call.pod = p
    <3>1. Get(p, Claim)
      BY <2>1, <2>5, <2>7 DEF UsableInv, RunningOK, Get
    <3>2. call.phase \in Unpreparing
      BY <2>4, <2>5, <2>7, <3>1 DEF EntryOK, Get
    <3> QED
      BY <2>1, <3>1, <3>2, UndoneEntries
  <2> QED
    BY <2>6, <2>7
<1> QED
  BY <1>1, LifecycleInvariant, UsableInvariant, PTL DEF Spec, RunningPodUndisturbed
-------------------------------------------------------------------------------
(***************************************************************************)
(* What is prepared can be used                                            *)
(***************************************************************************)

\* A bind that succeeds leaves a driver that serves the request.
LEMMA BindServes ==
    ASSUME NEW cur, NEW req, NEW o \in BindDeviceDriver(cur, req), o.ok = TRUE
    PROVE  Serves(o.to, req)
<1>1. CASE req = NoDriver
  BY <1>1 DEF Serves, NoDriver
<1>2. CASE req = "default"
  <2>1. o \in BindDefaultDriver(cur)
    BY <1>2 DEF BindDeviceDriver, NoDriver
  <2>2. o.to \in NetDrivers
    <3>1. CASE cur \in NetDrivers
      <4>1. o = Failed(cur) \/ o = Done(cur)
        BY <2>1, <3>1 DEF BindDefaultDriver
      <4>2. Failed(cur).to = cur /\ Done(cur).to = cur
        BY OutcomeFields
      <4>3. o.to = cur
        BY <4>1, <4>2, Zenon
      <4> QED
        BY <3>1, <4>3
    <3>2. CASE cur \notin NetDrivers
      <4>1. o = Failed(cur) \/ o = Failed(NoDriver) \/ o = Done(DefaultDriver)
        BY <2>1, <3>2 DEF BindDefaultDriver
      <4>2. /\ Failed(cur).ok = FALSE /\ Failed(NoDriver).ok = FALSE
            /\ Done(DefaultDriver).to = DefaultDriver
        BY OutcomeFields
      <4>3. o = Done(DefaultDriver)
        BY <4>1, <4>2, Zenon
      <4> QED
        BY <4>2, <4>3, DriverAssumption
    <3> QED
      BY <3>1, <3>2
  <2> QED
    BY <1>2, <2>2 DEF Serves, NoDriver
<1>3. CASE req # NoDriver /\ req # "default"
  <2>1. o \in BindDriverByBusAndDevice(cur, req)
    BY <1>3 DEF BindDeviceDriver
  <2>2. o.to = req
    BY <2>1, BindOutcome
  <2> QED
    BY <1>3, <2>2 DEF Serves
<1> QED
  BY <1>1, <1>2, <1>3

\* Binding a device: it serves, and the ones before it still do.
LEMMA BindProgress ==
    ASSUME LifecycleInv, GoodInv, BindDevice
    PROVE  ProgressOK(call', driver', claimSpecs', deviceInfo')
<1>1. /\ CallOK(call) /\ Claim = ClaimAt(call) /\ call.phase = "bind" /\ Claim \in Claims
      /\ call.di = Len(call.work) + 1 /\ Len(call.work) \in Nat
      /\ driver \in [Devices -> Bindings]
  BY CallHere, CallFacts DEF LifecycleInv, HostOK, BindDevice, Calling, CallOK
<1>2. /\ Device = Results[Claim][call.di] /\ Device \in Devices
      /\ call.di \in 1..Len(Results[Claim]) /\ Len(Results[Claim]) \in Nat
  BY <1>1, DeviceFacts, CallFacts DEF Device
<1>3. Served(Claim, Len(call.work), driver)
  BY <1>1 DEF GoodInv, ProgressOK
<1>4. PICK o \in BindDeviceDriver(driver[Device], Asked) :
              /\ driver' = [driver EXCEPT ![Device] = o.to]
              /\ (o.ok = TRUE \/ Undoing(call, call'))
  BY <1>1, BindShape
<1>5. CASE call'.phase = "abort"
  BY <1>5 DEF ProgressOK
<1>6. CASE Onward(call, call', "finish") /\ call'.di = call.di
  <2>1. o.ok = TRUE
    BY <1>4, <1>6 DEF Onward, Undoing
  <2>2. Serves(driver'[Device], Asked)
    BY <1>1, <1>2, <1>4, <2>1, BindServes
  <2>3. Served(Claim, Len(call.work), driver')
    <3>1. SUFFICES ASSUME NEW i \in 1..Len(call.work)
                   PROVE  Serves(driver'[Results[Claim][i]], Request[Claim][Results[Claim][i]])
      BY DEF Served
    <3>2. i \in 1..Len(Results[Claim]) /\ i # call.di
      BY <1>1, <1>2
    <3>3. Results[Claim][i] # Device /\ Results[Claim][i] \in Devices
      BY <1>1, <1>2, <3>2, LifecycleAssumption, CallFacts
    <3>4. driver'[Results[Claim][i]] = driver[Results[Claim][i]]
      BY <1>1, <1>4, <3>3
    <3> QED
      BY <1>3, <3>4 DEF Served
  <2>4. /\ ClaimAt(call') = Claim /\ call'.work = call.work /\ call'.di = call.di
        /\ call'.phase = "finish"
    BY <1>1, <1>6 DEF Onward, SameClaim, ClaimAt
  <2> QED
    BY <1>2, <2>2, <2>3, <2>4 DEF ProgressOK, Asked
<1> QED
  BY <1>1, <1>5, <1>6, BindStep DEF Onward

\* A device that joins the prepared ones serves.
LEMMA FinishProgress ==
    ASSUME LifecycleInv, GoodInv, FinishDevice
    PROVE  ProgressOK(call', driver', claimSpecs', deviceInfo')
<1>1. /\ CallOK(call) /\ Claim = ClaimAt(call) /\ call.phase = "finish"
      /\ call.di = Len(call.work) + 1 /\ Len(call.work) \in Nat /\ driver' = driver
  BY CallHere, CallFacts DEF LifecycleInv, FinishDevice, Calling, CallOK, hostVars
<1>2. /\ Served(Claim, Len(call.work), driver)
      /\ LET d == Results[Claim][call.di] IN Serves(driver[d], Request[Claim][d])
  BY <1>1 DEF GoodInv, ProgressOK
<1>3. Served(Claim, Len(call.work) + 1, driver)
  <2>1. SUFFICES ASSUME NEW i \in 1..(Len(call.work) + 1)
                 PROVE  Serves(driver[Results[Claim][i]], Request[Claim][Results[Claim][i]])
    BY DEF Served
  <2>2. CASE i = call.di
    BY <1>2, <2>2
  <2>3. CASE i # call.di
    <3>1. i \in 1..Len(call.work)
      BY <1>1, <2>3
    <3> QED
      BY <1>2, <3>1 DEF Served
  <2> QED
    BY <2>2, <2>3
<1>4. /\ ClaimAt(call') = Claim /\ Len(call'.work) = Len(call.work) + 1
      /\ call'.phase \in {"info", "bind"}
  BY <1>1, FinishStep DEF SameClaim, ClaimAt
<1> QED
  BY <1>1, <1>3, <1>4 DEF ProgressOK

\* The preparation of a claim goes from device to device and from file to file.
LEMMA ProgressNext ==
    ASSUME Quiet, LifecycleInv, UsableInv, GoodInv, Next
    PROVE  ProgressOK(call', driver', claimSpecs', deviceInfo')
<1>1. /\ CallOK(call) /\ Claim = ClaimAt(call)
      /\ ProgressOK(call, driver, claimSpecs, deviceInfo)
  BY CallHere DEF GoodInv
<1>2. ASSUME call'.phase \notin {"bind", "finish", "info", "spec", "set"}
      PROVE  ProgressOK(call', driver', claimSpecs', deviceInfo')
  BY <1>2 DEF ProgressOK
<1>3. CASE ~CallStep
  <2>1. UNCHANGED fileVars /\ driver' = driver
    BY <1>3, OtherSteps
  <2>2. CASE UNCHANGED call
    BY <1>1, <2>1, <2>2 DEF fileVars
  <2>3. CASE NoCall(call')
    BY <1>2, <2>3 DEF NoCall
  <2>4. ASSUME NEW p \in Pods, Opening(p)
        PROVE  ProgressOK(call', driver', claimSpecs', deviceInfo')
    BY <1>2, <2>4 DEF Opening
  <2> QED
    BY <1>3, <2>2, <2>3, <2>4, OtherSteps
<1>4. CASE UnprepareStep \/ FailStep \/ DoneStep \/ ReturnStep
  <2>1. call'.phase \in Unpreparing \cup {"claim", "lookup", "podspec", "return"}
    BY <1>4 DEF UnprepareStep, FailStep, DoneStep, ReturnStep, Moved
  <2> QED
    BY <1>2, <2>1 DEF Unpreparing
<1>5. CASE Answer \/ AnswerError
  BY <1>1, <1>2, <1>5, EndShapes DEF NoCall
<1>6. CASE PrepareDevicesForClaim
  <2>1. call.work = <<>> /\ Onward(call, call', "bind")
    BY <1>1, <1>6, PreparingSteps DEF PrepareDevicesForClaim, Calling, CallOK
  <2>2. Served(ClaimAt(call'), Len(call'.work), driver') /\ call'.phase = "bind"
    BY <2>1, EmptyWork DEF Onward, Served
  <2> QED
    BY <2>2 DEF ProgressOK
<1>7. CASE RejectDevice \/ UndoDevice \/ AbortDeviceInfo \/ FailDevice \/ AbortDevice
  <2>1. call'.phase \in {"abort", "undo", "claim", "lookup", "podspec", "return"}
    BY <1>1, <1>7, PreparingSteps, AbortStep DEF Onward, Moved
  <2> QED
    BY <1>2, <2>1
<1>8. CASE BindDevice \/ FinishDevice
  BY <1>8, BindProgress, FinishProgress
<1>9. CASE SyncDeviceInfo
  <2>1. call.phase = "info" /\ driver' = driver /\ claimSpecs' = claimSpecs
    BY <1>9 DEF SyncDeviceInfo, Calling, hostVars
  <2>2. CASE call'.phase = "abortInfo"
    BY <1>2, <2>2
  <2>3. CASE Onward(call, call', "spec")
    <3>1. /\ ClaimAt(call') = Claim /\ call'.work = call.work /\ call'.phase = "spec"
      BY <1>1, <2>3 DEF Onward, SameClaim, ClaimAt
    <3>2. deviceInfo' = deviceInfo \cup InfoDevices
      <4>1. ~Onward(call, call', "abortInfo")
        BY <3>1 DEF Onward
      <4>2. call' # [call EXCEPT !.phase = "abortInfo"]
        BY <1>1, <4>1, PhaseGoesOn DEF CallOK
      <4> QED
        BY <1>9, <4>2 DEF SyncDeviceInfo
    <3>3. Informed(Claim, call.work, deviceInfo')
      BY <3>2, Zenon DEF Informed, InfoDevices
    <3>4. Served(Claim, Len(call.work), driver)
      BY <1>1, <2>1 DEF ProgressOK
    <3> QED
      BY <2>1, <3>1, <3>3, <3>4 DEF ProgressOK
  <2> QED
    BY <1>1, <1>9, <2>2, <2>3, PreparingSteps DEF Onward
<1>10. CASE CreateClaimSpecFile
  <2>1. call.phase = "spec" /\ driver' = driver /\ deviceInfo' = deviceInfo
    BY <1>10 DEF CreateClaimSpecFile, Calling, hostVars
  <2>2. CASE call'.phase = "abortInfo"
    BY <1>2, <2>2
  <2>3. CASE Onward(call, call', "set")
    <3>1. /\ ClaimAt(call') = Claim /\ call'.work = call.work /\ call'.phase = "set"
      BY <1>1, <2>3 DEF Onward, SameClaim, ClaimAt
    <3>2. Claim \in claimSpecs'
      <4>1. ~Onward(call, call', "abortInfo")
        BY <3>1 DEF Onward
      <4>2. call' # [call EXCEPT !.phase = "abortInfo"]
        BY <1>1, <4>1, PhaseGoesOn DEF CallOK
      <4> QED
        BY <1>10, <4>2 DEF CreateClaimSpecFile
    <3>3. Served(Claim, Len(call.work), driver) /\ Informed(Claim, call.work, deviceInfo)
      BY <1>1, <2>1 DEF ProgressOK
    <3> QED
      BY <2>1, <3>1, <3>2, <3>3 DEF ProgressOK
  <2> QED
    BY <1>1, <1>10, <2>2, <2>3, PreparingSteps DEF Onward
<1>11. CASE RefuseClaim \/ Aborted \/ AlreadyPrepared
  <2>1. call'.phase \in {"claim", "lookup", "podspec", "return"}
    BY <1>1, <1>11, PreparingSteps DEF Moved
  <2> QED
    BY <1>2, <2>1
<1>12. CASE StoreClaim \/ ForgetClaim \/ CreateGlobalPodSpecFile
  <2>1. call'.phase \in {"claim", "lookup", "podspec", "return"}
    BY <1>1, <1>12, QuietSteps DEF Moved, Onward
  <2> QED
    BY <1>2, <2>1
<1>13. CASE NothingPrepared \/ LookupClaim \/ UnprepareDeviceInfo \/ UnprepareDevice
            \/ UnpreparedDevices \/ DeleteSpecFiles
  <2>1. call'.phase \in {"claim", "lookup", "podspec", "return", "cleanInfo", "restore",
                         "unspec", "delete"}
    BY <1>1, <1>13, UnpreparingSteps, LookupStep DEF Moved, Onward
  <2> QED
    BY <1>2, <2>1
<1> QED
  BY <1>3, <1>5, <1>6, <1>7, <1>8, <1>9, <1>10, <1>11, <1>12, <1>13 DEF CallStep

\* A call works on no device of a pod that has not ended and has its entry.
LEMMA NotTouched ==
    ASSUME DisjointClaims, LifecycleInv, UsableInv, NEW p \in Pods, NEW c \in Claims,
           pod[p] \in {"reserved", "running"}, Get(p, c),
           call.phase \in Preparing \cup Unpreparing
    PROVE  c # Claim /\ DevicesOf(c) \cap DevicesOf(Claim) = {}
<1>1. /\ call.pod \in Pods /\ Claim \in Claims /\ Claim = ClaimAt(call)
      /\ Claim \in ClaimsOf(call.pod) /\ c \in ClaimsOf(p) /\ Apart(pod)
      /\ KindOK(call) /\ OwnerOK(call, pod) /\ EntryOK(call, preparedClaims)
  BY CallHere DEF UsableInv, OwnEntries, Get
<1>2. CASE call.pod # p
  <2>1. pod[call.pod] \in LiveStates /\ pod[p] \in LiveStates
    BY <1>1 DEF OwnerOK, Preparing, Unpreparing, LiveStates
  <2>2. DevicesOf(c) \cap DevicesOf(Claim) = {}
    BY <1>1, <1>2, <2>1 DEF Apart
  <2> QED
    BY <1>1, <2>2, OwnDevices
<1>3. CASE call.pod = p
  <2>1. call.phase \in Preparing
    BY <1>1, <1>3 DEF KindOK, OwnerOK
  <2>2. c # Claim
    BY <1>1, <1>3, <2>1 DEF EntryOK, Get
  <2> QED
    BY <1>1, <1>3, <2>2 DEF DisjointClaims
<1> QED
  BY <1>2, <1>3

\* Where an entry comes from.
LEMMA EntryOrigin ==
    ASSUME Quiet, LifecycleInv, UsableInv, Next, NEW p \in Pods, NEW c \in Claims,
           preparedClaims'[p][c] # NoEntry
    PROVE  \/ preparedClaims'[p][c] = preparedClaims[p][c]
           \/ /\ StoreClaim /\ p = call.pod /\ c = Claim
              /\ preparedClaims'[p][c] = call.work
<1>1. EntriesOK(preparedClaims) /\ CallOK(call) /\ checkpoint = preparedClaims
  BY DEF LifecycleInv, UsableInv
<1>2. CASE StoreClaim
  <2>1. preparedClaims' = [preparedClaims EXCEPT ![call.pod][Claim] = call.work]
    BY <1>2 DEF StoreClaim, Set
  <2> QED
    BY <1>1, <1>2, <2>1 DEF EntriesOK
<1>3. CASE ForgetClaim
  <2>1. PICK q \in Pods : preparedClaims' = [preparedClaims EXCEPT ![q] = NoClaims]
    BY <1>3 DEF ForgetClaim, DeleteClaim, PodsWithClaim
  <2> QED
    BY <1>1, <2>1 DEF EntriesOK, NoClaims
<1>4. CASE RecordNetworkData \/ Crash
  BY <1>1, <1>4 DEF RecordNetworkData, UpdatePreparedDeviceNetworkData, Crash, Load
<1>5. CASE UNCHANGED podManagerVars
  BY <1>5 DEF podManagerVars
<1>6. ~Reboot
  BY <1>1, QuietSteps
<1> QED
  BY <1>2, <1>3, <1>4, <1>5, <1>6, EntriesUnchanged

\* An entry stays good for use until its pod ends.
LEMMA EntriesUsableNext ==
    ASSUME Quiet, DisjointClaims, LifecycleInv, UsableInv, GoodInv, Next
    PROVE  EntriesUsable(preparedClaims', pod', driver', claimSpecs', deviceInfo')
<1>1. SUFFICES ASSUME NEW p \in Pods, NEW c \in Claims, preparedClaims'[p][c] # NoEntry,
                      pod'[p] \in {"reserved", "running"}
               PROVE  /\ c \in claimSpecs'
                      /\ Served(c, Len(Results[c]), driver')
                      /\ Informed(c, preparedClaims'[p][c], deviceInfo')
  BY DEF EntriesUsable
<1>2. CASE StoreClaim /\ p = call.pod /\ c = Claim /\ preparedClaims'[p][c] = call.work
  <2>1. call.phase = "set" /\ UNCHANGED fileVars /\ driver' = driver
    BY <1>2 DEF StoreClaim, Calling, hostVars
  <2>2. /\ Claim \in claimSpecs /\ Served(Claim, Len(call.work), driver)
        /\ Informed(Claim, call.work, deviceInfo)
    BY <2>1, CallHere DEF GoodInv, ProgressOK
  <2>3. Len(call.work) = Len(Results[Claim])
    BY <2>1, CallHere DEF UsableInv, KindOK
  <2> QED
    BY <1>2, <2>1, <2>2, <2>3 DEF fileVars
<1>3. CASE preparedClaims'[p][c] = preparedClaims[p][c]
  <2>1. pod[p] \in {"reserved", "running"}
    <3>1. pod \in [Pods -> PodStates] /\ pod[p] # "new" /\ call.pod \in Pods
      BY <1>1, <1>3, CallHere DEF LifecycleInv, KubeletOK, UsableInv, NewOK
    <3>2. ASSUME NEW q \in Pods, Reserve(q) \/ Terminate(q)
          PROVE  pod[p] \in {"reserved", "running"}
      BY <1>1, <3>1, <3>2 DEF Reserve, Terminate
    <3>3. CASE Answer
      BY <1>1, <3>1, <3>3 DEF Answer
    <3> QED
      BY <1>1, <3>2, <3>3, PodUnchanged
  <2>2. Get(p, c)
    BY <1>1, <1>3 DEF Get
  <2>3. /\ c \in claimSpecs /\ Served(c, Len(Results[c]), driver)
        /\ Informed(c, preparedClaims[p][c], deviceInfo)
    BY <2>1, <2>2 DEF GoodInv, EntriesUsable, Get
  <2>4. Len(preparedClaims[p][c]) = Len(Results[c])
    BY <2>2 DEF UsableInv, OwnEntries, Get
  <2>5. c \in claimSpecs'
    BY <2>1, <2>2, <2>3, FilesTouched, NotTouched
  <2>6. ASSUME NEW i \in 1..Len(Results[c])
        PROVE  /\ driver'[Results[c][i]] = driver[Results[c][i]]
               /\ Results[c][i] \in deviceInfo => Results[c][i] \in deviceInfo'
    <3>1. Results[c][i] \in DevicesOf(c) /\ Results[c][i] \in Devices
      <4>1. Results[c] \in Seq(Devices)
        BY LifecycleAssumption
      <4> QED
        BY <4>1 DEF DevicesOf, ToSet
    <3>2. ASSUME driver'[Results[c][i]] # driver[Results[c][i]] PROVE FALSE
      BY <2>1, <2>2, <3>1, <3>2, DriversTouched, NotTouched
    <3>3. Results[c][i] \in deviceInfo => Results[c][i] \in deviceInfo'
      BY <2>1, <2>2, <3>1, FilesTouched, NotTouched
    <3> QED
      BY <3>2, <3>3
  <2>7. Served(c, Len(Results[c]), driver')
    BY <2>3, <2>6 DEF Served
  <2>8. Informed(c, preparedClaims[p][c], deviceInfo')
    <3>1. ASSUME NEW i \in 1..Len(preparedClaims[p][c]), preparedClaims[p][c][i].info
          PROVE  Results[c][i] \in deviceInfo'
      <4>1. Results[c][i] \in deviceInfo
        BY <2>3, <3>1, Zenon DEF Informed
      <4> QED
        BY <2>4, <2>6, <4>1
    <3> QED
      BY <3>1, Zenon DEF Informed
  <2> QED
    BY <1>3, <2>5, <2>7, <2>8
<1> QED
  BY <1>1, <1>2, <1>3, EntryOrigin

\* Every step keeps what is prepared usable.
LEMMA GoodNext ==
    Quiet /\ DisjointClaims /\ LifecycleInv /\ UsableInv /\ GoodInv /\ [Next]_vars => GoodInv'
<1>1. SUFFICES ASSUME Quiet, DisjointClaims, LifecycleInv, UsableInv, GoodInv, [Next]_vars
               PROVE  GoodInv'
  OBVIOUS
<1>2. CASE Next
  BY <1>1, <1>2, ProgressNext, EntriesUsableNext DEF GoodInv
<1>3. CASE UNCHANGED vars
  BY <1>1, <1>3 DEF vars, podManagerVars, hostVars, fileVars, kubeletVars, GoodInv
<1> QED
  BY <1>1, <1>2, <1>3

\* From the answer that starts a pod until the pod ends, all that the answer
\* promises is there: the devices on the drivers asked for, the CDI and device-info
\* files, and the entries in the checkpoint that unprepare will need.
THEOREM PreparedStaysUsable ==
    ASSUME Quiet, DisjointClaims
    PROVE  Spec => []PreparedIsUsable
<1>1. Init => GoodInv
  <2>1. SUFFICES ASSUME Init PROVE GoodInv
    OBVIOUS
  <2>2. NoCall(call) /\ preparedClaims = [p \in Pods |-> NoClaims]
    BY <2>1, IdleIs DEF Init, PodManagerInit
  <2>3. ProgressOK(call, driver, claimSpecs, deviceInfo)
    BY <2>2 DEF NoCall, ProgressOK
  <2>4. EntriesUsable(preparedClaims, pod, driver, claimSpecs, deviceInfo)
    BY <2>2 DEF EntriesUsable, NoClaims
  <2> QED
    BY <2>3, <2>4 DEF GoodInv
<1>2. LifecycleInv /\ UsableInv /\ GoodInv /\ [Next]_vars => GoodInv'
  BY GoodNext
<1>3. LifecycleInv /\ UsableInv /\ GoodInv => PreparedIsUsable
  <2>1. SUFFICES ASSUME UsableInv, GoodInv, NEW p \in Pods, pod[p] = "running"
                 PROVE  /\ p \in podSpecs
                        /\ \A c \in ClaimsOf(p) :
                              /\ c \in claimSpecs
                              /\ Get(p, c) /\ checkpoint[p][c] = preparedClaims[p][c]
                              /\ \A i \in 1..Len(Results[c]) :
                                    /\ Serves(driver[Results[c][i]], Request[c][Results[c][i]])
                                    /\ preparedClaims[p][c][i].info =>
                                           Results[c][i] \in deviceInfo
    BY Zenon DEF PreparedIsUsable
  <2>2. p \in podSpecs
    BY <2>1 DEF UsableInv, RunningOK
  <2>3. ASSUME NEW c \in ClaimsOf(p)
        PROVE  /\ c \in claimSpecs
               /\ Get(p, c) /\ checkpoint[p][c] = preparedClaims[p][c]
               /\ \A i \in 1..Len(Results[c]) :
                     /\ Serves(driver[Results[c][i]], Request[c][Results[c][i]])
                     /\ preparedClaims[p][c][i].info => Results[c][i] \in deviceInfo
    <3>1. c \in Claims
      BY SizeFacts DEF ClaimsOf, ToSet
    <3>2. Get(p, c) /\ checkpoint[p][c] = preparedClaims[p][c]
      BY <2>1 DEF UsableInv, RunningOK, Get
    <3>3. /\ c \in claimSpecs /\ Served(c, Len(Results[c]), driver)
          /\ Informed(c, preparedClaims[p][c], deviceInfo)
      BY <2>1, <3>1, <3>2 DEF GoodInv, EntriesUsable, Get
    <3>4. Len(preparedClaims[p][c]) = Len(Results[c])
      BY <2>1, <3>1, <3>2 DEF UsableInv, OwnEntries, Get
    <3>5. \A i \in 1..Len(Results[c]) : Serves(driver[Results[c][i]], Request[c][Results[c][i]])
      BY <3>3 DEF Served
    <3>6. \A i \in 1..Len(Results[c]) :
              preparedClaims[p][c][i].info => Results[c][i] \in deviceInfo
      BY <3>3, <3>4, Zenon DEF Informed
    <3> QED
      BY <3>2, <3>3, <3>5, <3>6, Zenon
  <2> QED
    BY <2>2, <2>3, Zenon
<1> QED
  BY <1>1, <1>2, <1>3, LifecycleInvariant, UsableInvariant, PTL DEF Spec
===============================================================================
