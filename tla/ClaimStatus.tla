----------------------------- MODULE ClaimStatus ------------------------------
(***************************************************************************)
(* Who writes status.devices of one ResourceClaim, and how: the prepare    *)
(* call (pkg/driver/dra_hook.go, pkg/devicestate/state.go) and the NRI     *)
(* runner (pkg/nri/nri.go), both through UpdateClaimStatusWithRetry        *)
(* (pkg/types/statusretry.go, claimstatus.go), beside other drivers and    *)
(* beside a claim that may be deleted and created anew under its name.     *)
(*                                                                         *)
(* status.devices is a listType=map: it is modelled as a function from     *)
(* device keys to entries.  Pods use the claim one after the other, and a  *)
(* pod's sandbox may be made anew: each sandbox is known by its number.    *)
(*                                                                         *)
(* External: the API server.  It refuses an update whose resourceVersion   *)
(* is not that of the object (a conflict), also after the object was       *)
(* replaced; a deleted object is not found.                                *)
(***************************************************************************)
EXTENDS Naturals, Sequences

CONSTANTS Own,        \* the keys of this driver's devices
          Foreign,    \* the keys of other drivers' devices
          Steps,      \* Backoff.Steps
          ChanSize,   \* capacity of networkDeviceDataUpdateChan
          MaxPods,    \* bounds: sandboxes,
          MaxClaims, MaxForeign, MaxFaults   \* claims, foreign writes, faults

ASSUME StatusAssumption ==
    /\ Own \cap Foreign = {} /\ Own # {}
    /\ Steps \in Nat \ {0} /\ ChanSize \in Nat \ {0}
    /\ MaxPods \in Nat /\ MaxClaims \in Nat /\ MaxForeign \in Nat /\ MaxFaults \in Nat

VARIABLES claim,     \* the object on the API server, as it was last
          exists,    \* and whether it is still there
          revision,  \* the last resourceVersion given out
          pod,       \* the pod that uses the claim
          queue,     \* networkDeviceDataUpdateChan
          writer,    \* the two callers of UpdateClaimStatusWithRetry
          faults,
          missed     \* a status write was given up, skipped or incomplete

vars == <<claim, exists, revision, pod, queue, writer, faults, missed>>

Keys == Own \cup Foreign
Writers == {"prepare", "nri"}

\* An entry of a device: the claim and the sandbox it was made for (of
\* a foreign entry: its version) and whether it has network data.
Entry == [uid : Nat, pod : Nat, net : BOOLEAN]
NoStatus == [uid |-> 0, pod |-> 0, net |-> FALSE]

Object == [uid : Nat, rv : Nat, devices : [Keys -> Entry]]

\* UpdateClaimStatusWithRetry in progress: the next request, the claim it is about,
\* the statuses to be reapplied and the failed attempts.
Loop == [phase : {"idle", "update", "refresh"}, claim : Object,
         desired : [Keys -> Entry], attempts : 0..(Steps - 1)]

IdleWriter == [phase    |-> "idle",
               claim    |-> [uid |-> 0, rv |-> 0, devices |-> [k \in Keys |-> NoStatus]],
               desired  |-> [k \in Keys |-> NoStatus],
               attempts |-> 0]
-------------------------------------------------------------------------------
(***************************************************************************)
(* pkg/types: the merge and the retry                                      *)
(***************************************************************************)

\* Bug variants of MergeDeviceStatuses: the snapshot of before the conflict is
\* restored; this driver's entries are those of the latest list.
MergeSnapshot(latest, desired) == desired
MergeNothing(latest, desired) == latest

MergeDeviceStatuses(latest, desired) ==
    [k \in Keys |-> IF k \in Own THEN desired[k] ELSE latest[k]]

\* UpdateClaimStatusWithRetry is entered with obj.
Enter(w, obj) ==
    writer' = [writer EXCEPT ![w] = [phase |-> "update", claim |-> obj,
                                     desired |-> obj.devices, attempts |-> 0]]

\* The loop ends.  The prepare call is over as well, whatever the outcome.
Leave(w) ==
    /\ writer' = [writer EXCEPT ![w] = IdleWriter]
    /\ pod' = IF w = "prepare" THEN [pod EXCEPT !.phase = "prepared"] ELSE pod

\* Bug variant of GiveUp: the prepare call fails with its status write.
GiveUpFatal(w) ==
    /\ writer' = [writer EXCEPT ![w] = IdleWriter]
    /\ missed' = TRUE
    /\ UNCHANGED pod

GiveUp(w) == Leave(w) /\ missed' = TRUE

\* Bug variant of Retry: one attempt too many.
RetryTooOften(w, obj) ==
    IF writer[w].attempts < Steps
    THEN /\ writer' = [writer EXCEPT ![w].phase = "update", ![w].claim = obj,
                                     ![w].attempts = @ + 1]
         /\ UNCHANGED <<pod, missed>>
    ELSE GiveUp(w)

\* The condition function returns false: another attempt, or the last error.
Retry(w, obj) ==
    IF writer[w].attempts + 1 < Steps
    THEN /\ writer' = [writer EXCEPT ![w].phase = "update", ![w].claim = obj,
                                     ![w].attempts = @ + 1]
         /\ UNCHANGED <<pod, missed>>
    ELSE GiveUp(w)

At(w, phase) == writer[w].phase = phase

Fault == faults < MaxFaults /\ faults' = faults + 1

\* The update is accepted: the object is what the writer sent.
Accept(w) ==
    /\ exists
    /\ claim.uid = writer[w].claim.uid /\ claim.rv = writer[w].claim.rv
    /\ claim' = [claim EXCEPT !.devices = writer[w].claim.devices, !.rv = revision + 1]
    /\ revision' = revision + 1

UpdateStatus(w) ==
    /\ At(w, "update")
    /\ Accept(w)
    /\ Leave(w)
    /\ UNCHANGED <<exists, queue, faults, missed>>

UpdateConflict(w) ==
    /\ At(w, "update")
    /\ exists /\ claim.rv # writer[w].claim.rv
    /\ writer' = [writer EXCEPT ![w].phase = "refresh"]
    /\ UNCHANGED <<claim, exists, revision, pod, queue, faults, missed>>

\* IsPermanentStatusUpdateError: the claim is gone, or the update is refused.
UpdateRefused(w) ==
    /\ At(w, "update")
    /\ IF exists THEN Fault ELSE UNCHANGED faults
    /\ GiveUp(w)
    /\ UNCHANGED <<claim, exists, revision, queue>>

\* A timeout or a network error, before or after the server did its work.
UpdateTransient(w) ==
    /\ At(w, "update")
    /\ Fault
    /\ Accept(w) \/ UNCHANGED <<claim, revision>>
    /\ Retry(w, writer[w].claim)
    /\ UNCHANGED <<exists, queue>>

\* Bug variant of Refresh: the UID of the fresh claim is not looked at.
RefreshNoUID(w) ==
    /\ At(w, "refresh")
    /\ exists
    /\ Retry(w, [claim EXCEPT !.devices = MergeDeviceStatuses(@, writer[w].desired)])
    /\ UNCHANGED <<claim, exists, revision, queue, faults>>

\* A claim deleted and created under the same name is another claim.
Refresh(w) ==
    /\ At(w, "refresh")
    /\ exists
    /\ IF claim.uid = writer[w].claim.uid
       THEN Retry(w, [claim EXCEPT !.devices =
                          MergeDeviceStatuses(@, writer[w].desired)])
       ELSE GiveUp(w)
    /\ UNCHANGED <<claim, exists, revision, queue, faults>>

RefreshRefused(w) ==
    /\ At(w, "refresh")
    /\ IF exists THEN Fault ELSE UNCHANGED faults
    /\ GiveUp(w)
    /\ UNCHANGED <<claim, exists, revision, queue>>

RefreshTransient(w) ==
    /\ At(w, "refresh")
    /\ Fault
    /\ Retry(w, writer[w].claim)
    /\ UNCHANGED <<claim, exists, revision, queue>>
-------------------------------------------------------------------------------
(***************************************************************************)
(* The two callers                                                         *)
(***************************************************************************)

\* The next pod's prepare: the kubelet plugin helper has fetched the claim, the
\* devices are prepared and stored, and their entries upserted.
Prepare ==
    /\ exists
    /\ pod.phase # "preparing" /\ pod.number < MaxPods
    /\ pod' = [uid |-> claim.uid, number |-> pod.number + 1, phase |-> "preparing"]
    /\ Enter("prepare", [claim EXCEPT !.devices = [k \in Keys |->
           IF k \in Own THEN [uid |-> claim.uid, pod |-> pod.number + 1, net |-> FALSE]
                        ELSE claim.devices[k]]])
    /\ UNCHANGED <<claim, exists, revision, queue, faults, missed>>

\* RunPodSandbox has attached the networks and waits while the channel is full.  A
\* sandbox whose networks cannot be attached, or whose metadata cannot be written,
\* sends nothing and is tried again: no step here.
RunPodSandbox ==
    /\ pod.phase = "prepared"
    /\ Len(queue) < ChanSize
    /\ queue' = Append(queue, [uid |-> pod.uid, number |-> pod.number])
    /\ pod' = [pod EXCEPT !.phase = "attached"]
    /\ UNCHANGED <<claim, exists, revision, writer, faults, missed>>

\* The pod's sandbox has died and is made anew, with network data of its own.
RunPodSandboxAgain ==
    /\ pod.phase = "attached" /\ pod.number < MaxPods
    /\ Len(queue) < ChanSize
    /\ queue' = Append(queue, [uid |-> pod.uid, number |-> pod.number + 1])
    /\ pod' = [pod EXCEPT !.number = @ + 1]
    /\ UNCHANGED <<claim, exists, revision, writer, faults, missed>>

\* The update is dropped.
Skip == missed' = TRUE /\ UNCHANGED writer

\* The runner updates the devices of saved that have an entry, for item.
SetNetworkData(item, saved) ==
    LET found == {k \in saved : claim.devices[k] # NoStatus}
    IN  IF found # {}
        THEN /\ Enter("nri", [claim EXCEPT !.devices = [k \in Keys |->
                    IF k \in found
                    THEN [uid |-> item.uid, pod |-> item.number, net |-> TRUE]
                    ELSE @[k]]])
             /\ missed' = (missed \/ found # Own)
        ELSE Skip

\* Bug variant of UpdateNetworkDeviceData: the newest update comes first.
UpdateNewestFirst(saved) ==
    /\ At("nri", "idle") /\ queue # <<>>
    /\ queue' = SubSeq(queue, 1, Len(queue) - 1)
    /\ IF saved = Own THEN UNCHANGED faults ELSE Fault
    /\ IF exists /\ claim.uid = queue[Len(queue)].uid
       THEN SetNetworkData(queue[Len(queue)], saved) ELSE Skip
    /\ UNCHANGED <<claim, exists, revision, pod>>

\* The runner takes the next update and fetches the claim by name.  In saved are
\* the devices whose network data the pod manager could write.
UpdateNetworkDeviceData(saved) ==
    /\ At("nri", "idle") /\ queue # <<>>
    /\ queue' = Tail(queue)
    /\ IF saved = Own THEN UNCHANGED faults ELSE Fault
    /\ IF exists /\ claim.uid = Head(queue).uid
       THEN SetNetworkData(Head(queue), saved) ELSE Skip
    /\ UNCHANGED <<claim, exists, revision, pod>>

\* The claim cannot be fetched.
UpdateNetworkDeviceDataFails ==
    /\ At("nri", "idle") /\ queue # <<>>
    /\ queue' = Tail(queue)
    /\ Fault
    /\ Skip
    /\ UNCHANGED <<claim, exists, revision, pod>>
-------------------------------------------------------------------------------
(***************************************************************************)
(* The world around                                                        *)
(***************************************************************************)

\* Another driver reports on its device.
ForeignWrite(k) ==
    /\ exists
    /\ claim.devices[k].pod < MaxForeign
    /\ claim' = [claim EXCEPT !.rv = revision + 1,
                              !.devices[k] = [uid |-> claim.uid, pod |-> @.pod + 1,
                                              net |-> TRUE]]
    /\ revision' = revision + 1
    /\ UNCHANGED <<exists, pod, queue, writer, faults, missed>>

\* The claim is deleted, and a new one is created under its name.
Delete ==
    /\ exists
    /\ exists' = FALSE
    /\ UNCHANGED <<claim, revision, pod, queue, writer, faults, missed>>

Create ==
    /\ ~exists /\ claim.uid < MaxClaims
    /\ exists' = TRUE
    /\ claim' = [uid |-> claim.uid + 1, rv |-> revision + 1,
                 devices |-> [k \in Keys |-> NoStatus]]
    /\ revision' = revision + 1
    /\ UNCHANGED <<pod, queue, writer, faults, missed>>

\* The process restarts: queue and calls are lost.  The claim is in the
\* checkpoint, so the kubelet's next prepare call returns without a status write.
Restart ==
    /\ Fault
    /\ queue' = <<>>
    /\ writer' = [w \in Writers |-> IdleWriter]
    /\ pod' = IF pod.phase = "preparing" THEN [pod EXCEPT !.phase = "prepared"] ELSE pod
    /\ missed' = TRUE
    /\ UNCHANGED <<claim, exists, revision>>

Init ==
    /\ claim = [uid |-> 1, rv |-> 1, devices |-> [k \in Keys |-> NoStatus]]
    /\ exists = TRUE
    /\ revision = 1
    /\ pod = [uid |-> 0, number |-> 0, phase |-> "none"]
    /\ queue = <<>>
    /\ writer = [w \in Writers |-> IdleWriter]
    /\ faults = 0
    /\ missed = FALSE

RetryStep(w) ==
    \/ UpdateStatus(w) \/ UpdateConflict(w) \/ UpdateRefused(w) \/ UpdateTransient(w)
    \/ Refresh(w) \/ RefreshRefused(w) \/ RefreshTransient(w)

RunnerStep == \/ \E saved \in SUBSET Own : UpdateNetworkDeviceData(saved)
              \/ UpdateNetworkDeviceDataFails

Next ==
    \/ \E w \in Writers : RetryStep(w)
    \/ RunnerStep
    \/ Prepare \/ RunPodSandbox \/ RunPodSandboxAgain \/ Delete \/ Create \/ Restart
    \/ \E k \in Foreign : ForeignWrite(k)

\* Both loops run on; a sandbox is started once the channel has room.
Fairness == /\ \A w \in Writers : WF_vars(RetryStep(w))
            /\ WF_vars(RunnerStep) /\ WF_vars(RunPodSandbox)

Spec == Init /\ [][Next]_vars /\ Fairness
-------------------------------------------------------------------------------
TypeOK ==
    /\ claim \in Object
    /\ exists \in BOOLEAN
    /\ revision \in Nat
    /\ pod \in [uid : Nat, number : Nat,
                phase : {"none", "preparing", "prepared", "attached"}]
    /\ queue \in Seq([uid : Nat, number : Nat]) /\ Len(queue) <= ChanSize
    /\ writer \in [Writers -> Loop]
    /\ faults \in 0..MaxFaults
    /\ missed \in BOOLEAN

\* UpdateClaimStatusWithRetry: "an entry another driver wrote during the conflict
\* window survives".  No entry of another driver ever falls back to what it was
\* before, as long as the claim is the same.
ForeignEntriesKept ==
    [][claim'.uid = claim.uid =>
          \A k \in Foreign : claim'.devices[k].pod >= claim.devices[k].pod]_vars

\* The status of a claim never describes devices that were prepared for another
\* claim of the same name, whatever is still queued or being retried for that one.
StatusOfThisClaim ==
    \A k \in Keys : claim.devices[k] # NoStatus => claim.devices[k].uid = claim.uid

\* Network data of a sandbox is never replaced by network data of an earlier one,
\* of this pod or of one that used the claim before, however late the runner is.
NetworkDataInOrder ==
    [][claim'.uid = claim.uid => \A k \in Own :
          claim.devices[k].net /\ claim'.devices[k].net
              => claim'.devices[k].pod >= claim.devices[k].pod]_vars

\* When all is done and nothing was given up, the claim reports the network data
\* of the pod that has it, whatever the writers overtook on the way.
StatusComplete ==
    (~missed /\ pod.phase = "attached" /\ queue = <<>> /\ At("nri", "idle")
        /\ claim.uid = pod.uid)
        => \A k \in Own : claim.devices[k] =
               [uid |-> pod.uid, pod |-> pod.number, net |-> TRUE]

\* A prepare call is not held up for good by conflicts and errors of the status
\* write, and a sandbox waiting for room in the channel gets it.
PodsStart == pod.phase = "preparing" ~> pod.phase = "attached"
===============================================================================
