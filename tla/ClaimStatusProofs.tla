--------------------------- MODULE ClaimStatusProofs --------------------------
(***************************************************************************)
(* Theorems about ClaimStatus: for any number of devices, pods, claims,    *)
(* retries and faults, and any capacity of the channel.                    *)
(***************************************************************************)
EXTENDS ClaimStatus, TLAPS

\* The entries of devs were made for the claim uid.
Marked(devs, uid) == \A k \in Keys : devs[k] # NoStatus => devs[k].uid = uid

\* The loop r is sound beside the claim c when n is the last resourceVersion: only
\* a loop that has seen all of c may still write it, and what it reapplies was
\* made for the claim it writes.
Sound(r, c, n) ==
    /\ r.claim.rv <= n
    /\ r.claim.rv = c.rv => \A k \in Foreign : r.claim.devices[k] = c.devices[k]
    /\ Marked(r.claim.devices, r.claim.uid)
    /\ Marked(r.desired, r.claim.uid)

StatusInv ==
    /\ TypeOK
    /\ claim.rv \in 1..revision
    /\ Marked(claim.devices, claim.uid)
    /\ \A w \in Writers : Sound(writer[w], claim, revision)

\* A writer outside its retry loop holds nothing that could be written to the wrong claim.
LEMMA IdleSound ==
    ASSUME NEW c, c.rv \in Nat \ {0}, NEW n \in Nat
    PROVE  IdleWriter \in Loop /\ Sound(IdleWriter, c, n)
  BY StatusAssumption
     DEF IdleWriter, Loop, Object, Entry, NoStatus, Sound, Marked, Keys

\* After a write of the claim no loop that was under way may still write it.
LEMMA SoundAfterWrite ==
    ASSUME NEW r \in Loop, NEW c, NEW n \in Nat, Sound(r, c, n), NEW d, d.rv = n + 1
    PROVE  Sound(r, d, n + 1)
  BY DEF Loop, Object, Sound

\* Merging two lists stamped with one claim UID gives a list stamped with that UID.
LEMMA MergeSound ==
    ASSUME NEW latest \in [Keys -> Entry], NEW desired \in [Keys -> Entry], NEW uid,
           Marked(latest, uid), Marked(desired, uid)
    PROVE  /\ MergeDeviceStatuses(latest, desired) \in [Keys -> Entry]
           /\ Marked(MergeDeviceStatuses(latest, desired), uid)
           /\ \A k \in Foreign : MergeDeviceStatuses(latest, desired)[k] = latest[k]
           /\ \A k \in Own : MergeDeviceStatuses(latest, desired)[k] = desired[k]
  BY StatusAssumption DEF MergeDeviceStatuses, Marked, Keys

\* The loop that Enter(w, obj) starts.
LEMMA EnterSound ==
    ASSUME NEW obj \in Object, NEW c, NEW n \in Nat, obj.rv = c.rv, obj.rv <= n,
           Marked(obj.devices, obj.uid),
           \A k \in Foreign : obj.devices[k] = c.devices[k],
           NEW r, r = [phase |-> "update", claim |-> obj, desired |-> obj.devices,
                       attempts |-> 0]
    PROVE  r \in Loop /\ Sound(r, c, n)
<1>1. r \in Loop
  BY StatusAssumption DEF Loop, Object
<1> QED
  BY <1>1 DEF Sound

\* The loop after Retry(w, obj).
LEMMA RetrySound ==
    ASSUME StatusInv, NEW w \in Writers, NEW obj \in Object,
           NEW c, c.rv \in Nat \ {0}, NEW n \in Nat, Retry(w, obj),
           obj.rv <= n, obj.uid = writer[w].claim.uid,
           obj.rv = c.rv => \A k \in Foreign : obj.devices[k] = c.devices[k],
           Marked(obj.devices, obj.uid)
    PROVE  /\ writer' = [writer EXCEPT ![w] = writer'[w]]
           /\ writer'[w] \in Loop
           /\ Sound(writer'[w], c, n)
<1>1. writer \in [Writers -> Loop] /\ writer[w] \in Loop
  BY DEF StatusInv, TypeOK
<1>2. CASE writer[w].attempts + 1 < Steps
  <2>1. writer' = [writer EXCEPT ![w] = [writer[w] EXCEPT !.phase = "update",
                                                          !.claim = obj,
                                                          !.attempts = @ + 1]]
    BY <1>1, <1>2 DEF Retry, Loop
  <2>2. writer'[w].attempts \in 0..(Steps - 1)
    BY <1>1, <1>2, <2>1, StatusAssumption DEF Loop
  <2>3. /\ writer'[w] \in Loop /\ writer'[w].claim = obj
        /\ writer'[w].desired = writer[w].desired
    BY <1>1, <2>1, <2>2 DEF Loop
  <2> QED
    BY <1>1, <2>1, <2>3 DEF Sound, StatusInv
<1>3. CASE ~(writer[w].attempts + 1 < Steps)
  <2>1. writer' = [writer EXCEPT ![w] = IdleWriter]
    BY <1>3 DEF Retry, GiveUp, Leave
  <2> QED
    BY <1>1, <2>1, IdleSound
<1> QED
  BY <1>2, <1>3
\* It is enough to look at the loop that changed.
LEMMA OneLoop ==
    ASSUME StatusInv, NEW w \in Writers,
           writer' = [writer EXCEPT ![w] = writer'[w]], writer'[w] \in Loop,
           Sound(writer'[w], claim', revision'),
           \/ claim' = claim /\ revision' = revision
           \/ claim'.rv = revision + 1 /\ revision' = revision + 1
    PROVE  /\ writer' \in [Writers -> Loop]
           /\ \A v \in Writers : Sound(writer'[v], claim', revision')
<1>1. writer \in [Writers -> Loop] /\ revision \in Nat
  BY DEF StatusInv, TypeOK
<1>2. ASSUME NEW v \in Writers, v # w PROVE Sound(writer'[v], claim', revision')
  <2>1. writer'[v] = writer[v] /\ writer[v] \in Loop /\ Sound(writer[v], claim, revision)
    BY <1>1, <1>2 DEF StatusInv
  <2> QED
    BY <1>1, <2>1, SoundAfterWrite
<1> QED
  BY <1>1, <1>2

\* Nor does a write of the claim by somebody else disturb the loops.
LEMMA NoLoop ==
    ASSUME StatusInv, writer' = writer,
           \/ claim' = claim /\ revision' = revision
           \/ claim'.rv = revision + 1 /\ revision' = revision + 1
    PROVE  /\ writer' \in [Writers -> Loop]
           /\ \A v \in Writers : Sound(writer'[v], claim', revision')
  BY SoundAfterWrite DEF StatusInv, TypeOK

\* A writer that leaves its retry loop keeps every writer sound.
LEMMA LeaveLoop ==
    ASSUME StatusInv, NEW w \in Writers, Leave(w),
           \/ claim' = claim /\ revision' = revision
           \/ claim'.rv = revision + 1 /\ revision' = revision + 1
    PROVE  /\ writer' \in [Writers -> Loop]
           /\ \A v \in Writers : Sound(writer'[v], claim', revision')
<1>1. writer \in [Writers -> Loop] /\ claim'.rv \in Nat \ {0} /\ revision' \in Nat
  BY DEF StatusInv, TypeOK
<1>2. writer' = [writer EXCEPT ![w] = IdleWriter]
  BY DEF Leave
<1> QED
  BY <1>1, <1>2, IdleSound, OneLoop

Pods == [uid : Nat, number : Nat, phase : {"none", "preparing", "prepared", "attached"}]

\* Leaving the retry loop keeps the pod record well typed.
LEMMA LeavePod == ASSUME TypeOK, NEW w, Leave(w) PROVE pod' \in Pods
<1>1. pod \in Pods
  BY DEF TypeOK, Pods
<1> QED
  BY <1>1 DEF Leave, Pods

\* Going round the retry loop keeps the pod record well typed.
LEMMA RetryPod ==
    ASSUME TypeOK, NEW w, NEW obj, Retry(w, obj) PROVE pod' \in Pods /\ missed' \in BOOLEAN
<1>1. pod \in Pods /\ missed \in BOOLEAN
  BY DEF TypeOK, Pods
<1> QED
  BY <1>1, LeavePod DEF Retry, GiveUp

\* The fault counter stays within its bound.
LEMMA FaultType == ASSUME TypeOK, Fault \/ UNCHANGED faults PROVE faults' \in 0..MaxFaults
  BY StatusAssumption DEF TypeOK, Fault

\* What the API server stores on an accepted update belongs to the claim the writer read.
LEMMA AcceptSound ==
    ASSUME StatusInv, NEW w \in Writers, Accept(w)
    PROVE  /\ claim' \in Object /\ claim'.uid = claim.uid /\ claim'.rv = revision + 1
           /\ claim'.devices = writer[w].claim.devices
           /\ revision' = revision + 1 /\ revision' \in Nat /\ claim'.rv \in 1..revision'
           /\ Marked(claim'.devices, claim'.uid)
<1>1. claim \in Object /\ writer[w] \in Loop /\ revision \in Nat
  BY DEF StatusInv, TypeOK
<1>2. writer[w].claim.devices \in [Keys -> Entry] /\ revision + 1 \in Nat
  BY <1>1 DEF Loop, Object
<1>3. /\ claim' = [claim EXCEPT !.devices = writer[w].claim.devices, !.rv = revision + 1]
      /\ revision' = revision + 1 /\ claim.uid = writer[w].claim.uid
  BY DEF Accept
<1>4. /\ claim' \in Object /\ claim'.uid = claim.uid /\ claim'.rv = revision + 1
      /\ claim'.devices = writer[w].claim.devices
  BY <1>1, <1>2, <1>3 DEF Object
<1>5. Marked(writer[w].claim.devices, writer[w].claim.uid)
  BY DEF StatusInv, Sound
<1> QED
  BY <1>1, <1>3, <1>4, <1>5

\* Every step of the conflict-retry loop keeps the invariant.
LEMMA RetryStepInv ==
    ASSUME StatusInv, NEW w \in Writers, RetryStep(w) PROVE StatusInv'
<1>1. /\ TypeOK /\ claim \in Object /\ writer \in [Writers -> Loop] /\ writer[w] \in Loop
      /\ revision \in Nat /\ claim.rv \in 1..revision
      /\ Marked(claim.devices, claim.uid) /\ Sound(writer[w], claim, revision)
  BY DEF StatusInv, TypeOK
<1>2. exists' = exists /\ queue' = queue /\ (Fault \/ UNCHANGED faults)
  BY DEF RetryStep, UpdateStatus, UpdateConflict, UpdateRefused, UpdateTransient, Refresh,
         RefreshRefused, RefreshTransient
<1>3. faults' \in 0..MaxFaults
  BY <1>1, <1>2, FaultType
<1>4. \/ claim' = claim /\ revision' = revision
      \/ Accept(w)
  BY DEF RetryStep, UpdateStatus, UpdateConflict, UpdateRefused, UpdateTransient, Refresh,
         RefreshRefused, RefreshTransient
<1>5. /\ claim' \in Object /\ revision' \in Nat /\ claim'.rv \in 1..revision'
      /\ Marked(claim'.devices, claim'.uid) /\ revision' >= revision
      /\ \/ claim' = claim /\ revision' = revision
         \/ claim'.rv = revision + 1 /\ revision' = revision + 1
  BY <1>1, <1>4, AcceptSound
<1>6. /\ pod' \in Pods /\ missed' \in BOOLEAN
      /\ writer' \in [Writers -> Loop]
      /\ \A v \in Writers : Sound(writer'[v], claim', revision')
  <2>1. CASE UpdateStatus(w)
    BY <1>1, <1>5, <2>1, LeavePod, LeaveLoop DEF UpdateStatus, TypeOK
  <2>2. CASE UpdateRefused(w) \/ RefreshRefused(w)
    BY <1>1, <1>5, <2>2, LeavePod, LeaveLoop DEF UpdateRefused, RefreshRefused, GiveUp
  <2>3. CASE UpdateConflict(w)
    <3>1. /\ writer' = [writer EXCEPT ![w].phase = "refresh"]
          /\ UNCHANGED <<claim, revision, pod, missed>>
      BY <2>3 DEF UpdateConflict
    <3>2. writer'[w] = [writer[w] EXCEPT !.phase = "refresh"]
      BY <1>1, <3>1
    <3>3. /\ writer'[w] \in Loop /\ writer'[w].claim = writer[w].claim
          /\ writer'[w].desired = writer[w].desired
      BY <1>1, <3>2 DEF Loop
    <3>4. Sound(writer'[w], claim', revision')
      BY <1>1, <3>1, <3>3 DEF Sound
    <3>5. writer' = [writer EXCEPT ![w] = writer'[w]]
      BY <1>1, <3>1
    <3> QED
      BY <1>1, <3>1, <3>3, <3>4, <3>5, OneLoop DEF TypeOK, Pods
  <2>4. CASE UpdateTransient(w) \/ RefreshTransient(w)
    <3>1. Retry(w, writer[w].claim)
      BY <2>4 DEF UpdateTransient, RefreshTransient
    <3>2. Sound(writer[w], claim', revision')
      BY <1>1, <1>5, SoundAfterWrite
    <3>3. /\ writer[w].claim \in Object /\ writer[w].claim.rv <= revision'
          /\ writer[w].claim.rv = claim'.rv =>
                \A k \in Foreign : writer[w].claim.devices[k] = claim'.devices[k]
          /\ Marked(writer[w].claim.devices, writer[w].claim.uid)
      BY <1>1, <3>2 DEF Sound, Loop
    <3>4. claim'.rv \in Nat \ {0}
      BY <1>5 DEF Object
    <3> QED
      BY <1>1, <1>5, <3>1, <3>3, <3>4, RetrySound, OneLoop, RetryPod
  <2>5. CASE Refresh(w)
    <3>1. claim' = claim /\ revision' = revision
      BY <2>5 DEF Refresh
    <3>2. CASE claim.uid = writer[w].claim.uid
      <4> DEFINE obj == [claim EXCEPT !.devices =
                             MergeDeviceStatuses(claim.devices, writer[w].desired)]
      <4>1. Retry(w, obj)
        BY <2>5, <3>2 DEF Refresh
      <4>2. claim.devices \in [Keys -> Entry] /\ writer[w].desired \in [Keys -> Entry]
        BY <1>1 DEF Object, Loop
      <4>3. Marked(writer[w].desired, claim.uid)
        BY <1>1, <3>2 DEF Sound
      <4>4. /\ obj \in Object /\ obj.rv = claim.rv /\ obj.uid = claim.uid
            /\ Marked(obj.devices, obj.uid)
            /\ \A k \in Foreign : obj.devices[k] = claim.devices[k]
        BY <1>1, <4>2, <4>3, MergeSound DEF Object
      <4>5. claim.rv \in Nat \ {0} /\ claim.rv <= revision
        BY <1>1
      <4> HIDE DEF obj
      <4>6. /\ writer' = [writer EXCEPT ![w] = writer'[w]] /\ writer'[w] \in Loop
            /\ Sound(writer'[w], claim, revision)
        BY <1>1, <3>2, <4>1, <4>4, <4>5, RetrySound
      <4> QED
        BY <1>1, <3>1, <4>1, <4>6, OneLoop, RetryPod
    <3>3. CASE claim.uid # writer[w].claim.uid
      BY <1>1, <2>5, <3>1, <3>3, LeavePod, LeaveLoop DEF Refresh, GiveUp
    <3> QED
      BY <3>2, <3>3
  <2> QED
    BY <2>1, <2>2, <2>3, <2>4, <2>5 DEF RetryStep
<1>7. TypeOK'
  BY <1>1, <1>2, <1>3, <1>5, <1>6 DEF TypeOK, Pods
<1> QED
  BY <1>5, <1>6, <1>7 DEF StatusInv

\* A writer that enters the loop with the stored object keeps the invariant.
LEMMA EnterLoop ==
    ASSUME StatusInv, NEW w \in Writers, NEW obj \in Object, Enter(w, obj),
           obj.rv = claim.rv, Marked(obj.devices, obj.uid),
           \A k \in Foreign : obj.devices[k] = claim.devices[k],
           claim' = claim, revision' = revision
    PROVE  /\ writer' \in [Writers -> Loop]
           /\ \A v \in Writers : Sound(writer'[v], claim', revision')
<1> DEFINE r == [phase |-> "update", claim |-> obj, desired |-> obj.devices, attempts |-> 0]
<1>1. writer \in [Writers -> Loop] /\ revision \in Nat /\ obj.rv <= revision
  BY DEF StatusInv, TypeOK
<1>2. writer' = [writer EXCEPT ![w] = r]
  BY DEF Enter
<1>3. r \in Loop /\ Sound(r, claim, revision)
  <2> HIDE DEF r
  <2>1. r = [phase |-> "update", claim |-> obj, desired |-> obj.devices, attempts |-> 0]
    BY DEF r
  <2> QED
    BY <1>1, <2>1, EnterSound
<1> HIDE DEF r
<1>4. writer'[w] = r /\ writer' = [writer EXCEPT ![w] = writer'[w]]
  BY <1>1, <1>2
<1> QED
  BY <1>3, <1>4, OneLoop

\* The claim as Prepare upserts it.
LEMMA PrepareInv == ASSUME StatusInv, Prepare PROVE StatusInv'
<1> DEFINE devs == [k \in Keys |->
               IF k \in Own THEN [uid |-> claim.uid, pod |-> pod.number + 1, net |-> FALSE]
                            ELSE claim.devices[k]]
           obj == [claim EXCEPT !.devices = devs]
<1>1. /\ TypeOK /\ claim \in Object /\ claim.uid \in Nat /\ pod.number \in Nat
      /\ claim.devices \in [Keys -> Entry] /\ Marked(claim.devices, claim.uid)
  BY DEF StatusInv, TypeOK, Object
<1>2. devs \in [Keys -> Entry]
  BY <1>1 DEF Entry
<1>3. Marked(devs, claim.uid) /\ \A k \in Foreign : devs[k] = claim.devices[k]
  BY <1>1, StatusAssumption DEF Marked, Keys
<1>4. /\ Enter("prepare", obj)
      /\ UNCHANGED <<claim, exists, revision, queue, faults, missed>>
      /\ pod' = [uid |-> claim.uid, number |-> pod.number + 1, phase |-> "preparing"]
  BY DEF Prepare
<1> HIDE DEF devs
<1>5. /\ obj \in Object /\ obj.rv = claim.rv /\ obj.uid = claim.uid /\ obj.devices = devs
  BY <1>1, <1>2 DEF Object
<1> HIDE DEF obj
<1>6. "prepare" \in Writers
  BY DEF Writers
<1>7. writer' \in [Writers -> Loop] /\ \A v \in Writers : Sound(writer'[v], claim', revision')
  BY <1>3, <1>4, <1>5, <1>6, EnterLoop
<1>8. pod' \in Pods
  BY <1>1, <1>4 DEF Pods
<1>9. TypeOK'
  BY <1>1, <1>4, <1>7, <1>8 DEF TypeOK, Pods
<1> QED
  BY <1>4, <1>7, <1>9 DEF StatusInv

\* Setting the network data of a queued sandbox and starting its update keeps the invariant.
LEMMA SetNetworkDataInv ==
    ASSUME StatusInv, NEW item \in [uid : Nat, number : Nat], NEW saved \in SUBSET Own,
           item.uid = claim.uid, SetNetworkData(item, saved), claim' = claim,
           revision' = revision
    PROVE  /\ writer' \in [Writers -> Loop]
           /\ \A v \in Writers : Sound(writer'[v], claim', revision')
           /\ missed' \in BOOLEAN
<1> DEFINE found == {k \in saved : claim.devices[k] # NoStatus}
           devs == [k \in Keys |-> IF k \in found
                                   THEN [uid |-> item.uid, pod |-> item.number, net |-> TRUE]
                                   ELSE claim.devices[k]]
           obj == [claim EXCEPT !.devices = devs]
<1>1. /\ claim \in Object /\ missed \in BOOLEAN /\ claim.devices \in [Keys -> Entry]
      /\ Marked(claim.devices, claim.uid)
  BY DEF StatusInv, TypeOK, Object
<1>2. CASE found # {}
  <2>1. Enter("nri", obj) /\ missed' = (missed \/ found # Own)
    BY <1>2 DEF SetNetworkData
  <2>2. devs \in [Keys -> Entry]
    BY <1>1 DEF Entry
  <2>3. Marked(devs, claim.uid) /\ \A k \in Foreign : devs[k] = claim.devices[k]
    BY <1>1, StatusAssumption DEF Marked, Keys
  <2>4. missed' \in BOOLEAN
    BY <1>1, <2>1
  <2> HIDE DEF devs, found
  <2>5. obj \in Object /\ obj.rv = claim.rv /\ obj.uid = claim.uid /\ obj.devices = devs
    BY <1>1, <2>2 DEF Object
  <2>6. "nri" \in Writers
    BY DEF Writers
  <2> HIDE DEF obj
  <2> QED
    BY <2>1, <2>3, <2>4, <2>5, <2>6, EnterLoop
<1>3. CASE found = {}
  <2>1. writer' = writer /\ missed' = TRUE
    BY <1>3 DEF SetNetworkData, Skip
  <2> QED
    BY <2>1, NoLoop
<1> QED
  BY <1>2, <1>3

Items == [uid : Nat, number : Nat]

\* Taking an item off the update channel keeps the channel well typed.
LEMMA TailType ==
    ASSUME NEW q \in Seq(Items), q # <<>>, Len(q) <= ChanSize
    PROVE  Head(q) \in Items /\ Tail(q) \in Seq(Items) /\ Len(Tail(q)) <= ChanSize
  BY StatusAssumption

\* The update runner taking an item off the channel keeps the invariant.
LEMMA RunnerInv == ASSUME StatusInv, RunnerStep PROVE StatusInv'
<1>1. /\ TypeOK /\ queue \in Seq(Items) /\ Len(queue) <= ChanSize /\ queue # <<>>
      /\ queue' = Tail(queue) /\ UNCHANGED <<claim, exists, revision, pod>>
  BY DEF StatusInv, TypeOK, Items, RunnerStep, UpdateNetworkDeviceData,
         UpdateNetworkDeviceDataFails
<1>2. Fault \/ UNCHANGED faults
  BY DEF RunnerStep, UpdateNetworkDeviceData, UpdateNetworkDeviceDataFails
<1>3. /\ writer' \in [Writers -> Loop]
      /\ \A v \in Writers : Sound(writer'[v], claim', revision')
      /\ missed' \in BOOLEAN
  <2>1. CASE Skip
    BY <1>1, <2>1, NoLoop DEF Skip
  <2>2. ASSUME NEW saved \in SUBSET Own, claim.uid = Head(queue).uid,
               SetNetworkData(Head(queue), saved)
        PROVE  <1>3
    <3>1. Head(queue) \in [uid : Nat, number : Nat]
      BY <1>1, TailType DEF Items
    <3> QED
      BY <1>1, <2>2, <3>1, SetNetworkDataInv
  <2> QED
    BY <2>1, <2>2 DEF RunnerStep, UpdateNetworkDeviceData, UpdateNetworkDeviceDataFails
<1>4. TypeOK'
  BY <1>1, <1>2, <1>3, TailType, FaultType DEF TypeOK, Items
<1> QED
  BY <1>1, <1>3, <1>4 DEF StatusInv
\* What another driver's status write changes, and that it keeps the object well typed.
LEMMA ForeignWriteEffect ==
    ASSUME StatusInv, NEW k \in Foreign, ForeignWrite(k)
    PROVE  /\ claim' \in Object /\ claim'.rv = revision + 1 /\ revision' = revision + 1
           /\ claim'.uid = claim.uid /\ Marked(claim'.devices, claim'.uid)
           /\ \A l \in Keys : claim'.devices[l] =
                  IF l = k THEN [uid |-> claim.uid, pod |-> claim.devices[k].pod + 1,
                                 net |-> TRUE]
                  ELSE claim.devices[l]
<1>1. /\ claim \in Object /\ revision + 1 \in Nat /\ claim.devices \in [Keys -> Entry]
      /\ claim.uid \in Nat /\ k \in Keys /\ Marked(claim.devices, claim.uid)
  BY DEF StatusInv, TypeOK, Object, Keys
<1>2. claim.devices[k].pod + 1 \in Nat
  BY <1>1 DEF Entry
<1> DEFINE e == [uid |-> claim.uid, pod |-> claim.devices[k].pod + 1, net |-> TRUE]
           devs == [claim.devices EXCEPT ![k] = e]
<1>3. e \in Entry /\ e.uid = claim.uid
  BY <1>1, <1>2 DEF Entry
<1>4. claim' = [claim EXCEPT !.rv = revision + 1, !.devices = devs]
      /\ revision' = revision + 1
  BY <1>1 DEF ForeignWrite, Object
<1> HIDE DEF e
<1>5. devs \in [Keys -> Entry] /\ Marked(devs, claim.uid)
      /\ \A l \in Keys : devs[l] = IF l = k THEN e ELSE claim.devices[l]
  BY <1>1, <1>3 DEF Marked
<1> HIDE DEF devs
<1>6. /\ claim' \in Object /\ claim'.rv = revision + 1 /\ claim'.uid = claim.uid
      /\ claim'.devices = devs
  BY <1>1, <1>4, <1>5 DEF Object
<1> QED
  BY <1>4, <1>5, <1>6 DEF e

\* The invariant holds before the first claim is prepared.
LEMMA StatusInit == Init => StatusInv
<1> SUFFICES ASSUME Init PROVE StatusInv
  OBVIOUS
<1>1. claim \in Object /\ claim.rv = 1 /\ revision = 1 /\ Marked(claim.devices, claim.uid)
  BY DEF Init, Object, Entry, NoStatus, Marked
<1>2. \A w \in Writers : writer[w] = IdleWriter
  BY DEF Init
<1>3. IdleWriter \in Loop /\ Sound(IdleWriter, claim, revision)
  BY <1>1, IdleSound
<1>4. writer \in [Writers -> Loop] /\ \A w \in Writers : Sound(writer[w], claim, revision)
  BY <1>2, <1>3 DEF Init
<1>5. pod \in Pods
  BY DEF Init, Pods
<1>6. queue \in Seq(Items) /\ Len(queue) <= ChanSize /\ faults \in 0..MaxFaults
  BY StatusAssumption DEF Init
<1>7. exists \in BOOLEAN /\ missed \in BOOLEAN
  BY DEF Init
<1>8. TypeOK
  BY <1>1, <1>4, <1>5, <1>6, <1>7 DEF TypeOK, Pods, Items
<1> QED
  BY <1>1, <1>4, <1>8 DEF StatusInv

\* The invariant is inductive.
LEMMA StatusNext == StatusInv /\ [Next]_vars => StatusInv'
<1> SUFFICES ASSUME StatusInv, [Next]_vars PROVE StatusInv'
  OBVIOUS
<1>1. /\ TypeOK /\ claim \in Object /\ revision \in Nat /\ claim.rv \in 1..revision
      /\ pod \in Pods /\ Marked(claim.devices, claim.uid)
  BY DEF StatusInv, TypeOK, Pods
<1>2. CASE \E w \in Writers : RetryStep(w)
  BY <1>2, RetryStepInv
<1>3. CASE RunnerStep
  BY <1>3, RunnerInv
<1>4. CASE Prepare
  BY <1>4, PrepareInv
<1>5. CASE RunPodSandbox \/ RunPodSandboxAgain
  <2>1. UNCHANGED <<claim, exists, revision, writer, faults, missed>>
    BY <1>5 DEF RunPodSandbox, RunPodSandboxAgain
  <2>2. pod' \in Pods
    BY <1>1, <1>5 DEF RunPodSandbox, RunPodSandboxAgain, Pods
  <2>3. \A n \in {pod.number, pod.number + 1} : [uid |-> pod.uid, number |-> n] \in Items
    BY <1>1 DEF Items, Pods
  <2>4. queue' \in Seq(Items) /\ Len(queue') <= ChanSize
    <3>1. /\ queue \in Seq(Items) /\ Len(queue) < ChanSize
          /\ \E n \in {pod.number, pod.number + 1} :
                queue' = Append(queue, [uid |-> pod.uid, number |-> n])
      BY <1>1, <1>5 DEF RunPodSandbox, RunPodSandboxAgain, TypeOK, Items
    <3>2. PICK item \in Items : queue' = Append(queue, item)
      BY <2>3, <3>1
    <3> QED
      BY <3>1, <3>2, StatusAssumption
  <2>5. TypeOK'
    BY <1>1, <2>1, <2>2, <2>4 DEF TypeOK, Pods, Items
  <2> QED
    BY <2>1, <2>5 DEF StatusInv
<1>6. CASE Delete
  <2>1. UNCHANGED <<claim, revision, pod, queue, writer, faults, missed>> /\ exists' = FALSE
    BY <1>6 DEF Delete
  <2>2. TypeOK'
    BY <1>1, <2>1 DEF TypeOK
  <2> QED
    BY <2>1, <2>2 DEF StatusInv
<1>7. CASE Create
  <2>1. /\ claim' = [uid |-> claim.uid + 1, rv |-> revision + 1,
                     devices |-> [k \in Keys |-> NoStatus]]
        /\ revision' = revision + 1 /\ exists' = TRUE
        /\ UNCHANGED <<pod, queue, writer, faults, missed>>
    BY <1>7 DEF Create
  <2>2. /\ claim' \in Object /\ claim'.rv = revision + 1
        /\ Marked(claim'.devices, claim'.uid)
    BY <1>1, <2>1 DEF Object, Entry, NoStatus, Marked
  <2>3. /\ writer' \in [Writers -> Loop]
        /\ \A v \in Writers : Sound(writer'[v], claim', revision')
    BY <2>1, <2>2, NoLoop
  <2>4. TypeOK'
    BY <1>1, <2>1, <2>2, <2>3 DEF TypeOK
  <2> QED
    BY <1>1, <2>1, <2>2, <2>3, <2>4 DEF StatusInv
<1>8. CASE Restart
  <2>1. /\ UNCHANGED <<claim, exists, revision>> /\ queue' = <<>> /\ missed' = TRUE
        /\ writer' = [w \in Writers |-> IdleWriter]
    BY <1>8 DEF Restart
  <2>2. pod' \in Pods
    BY <1>1, <1>8 DEF Restart, Pods
  <2>3. IdleWriter \in Loop /\ Sound(IdleWriter, claim, revision)
    BY <1>1, IdleSound
  <2>4. /\ writer' \in [Writers -> Loop]
        /\ \A v \in Writers : Sound(writer'[v], claim', revision')
    BY <2>1, <2>3
  <2>5. faults' \in 0..MaxFaults
    BY <1>1, <1>8, FaultType DEF Restart
  <2>6. queue' \in Seq(Items) /\ Len(queue') <= ChanSize
    BY <2>1, StatusAssumption
  <2>7. TypeOK'
    BY <1>1, <2>1, <2>2, <2>4, <2>5, <2>6 DEF TypeOK, Pods, Items
  <2> QED
    BY <1>1, <2>1, <2>4, <2>7 DEF StatusInv
<1>9. ASSUME NEW k \in Foreign, ForeignWrite(k) PROVE StatusInv'
  <2>1. UNCHANGED <<exists, pod, queue, writer, faults, missed>>
    BY <1>9 DEF ForeignWrite
  <2>2. /\ claim' \in Object /\ claim'.rv = revision + 1 /\ revision' = revision + 1
        /\ Marked(claim'.devices, claim'.uid)
    BY <1>9, ForeignWriteEffect
  <2>3. /\ writer' \in [Writers -> Loop]
        /\ \A v \in Writers : Sound(writer'[v], claim', revision')
    BY <2>1, <2>2, NoLoop
  <2>4. TypeOK'
    BY <1>1, <2>1, <2>2, <2>3 DEF TypeOK
  <2> QED
    BY <1>1, <2>2, <2>3, <2>4 DEF StatusInv
<1>10. CASE UNCHANGED vars
  BY <1>10 DEF vars, StatusInv, TypeOK
<1> QED
  BY <1>2, <1>3, <1>4, <1>5, <1>6, <1>7, <1>8, <1>9, <1>10 DEF Next

\* The inductive invariant: every loop that may still write the claim has seen all
\* of it, and reapplies entries made for the claim it writes.
THEOREM StatusInvariant == Spec => []StatusInv
  BY StatusInit, StatusNext, PTL DEF Spec

\* No request, queue or loop leaves its type: the channel holds ChanSize updates
\* at most, and no loop makes more than Steps attempts.
THEOREM TypeCorrect == Spec => []TypeOK
<1>1. StatusInv => TypeOK
  BY DEF StatusInv
<1> QED
  BY <1>1, StatusInvariant, PTL

\* However late an update is, it never reaches the status of a claim created anew
\* under the name of the one it was made for.
THEOREM StatusStaysWithClaim == Spec => []StatusOfThisClaim
<1>1. StatusInv => StatusOfThisClaim
  BY DEF StatusInv, Marked, StatusOfThisClaim
<1> QED
  BY <1>1, StatusInvariant, PTL

\* No step takes back what another driver wrote, as long as it is the same claim.
LEMMA ForeignKept ==
    ASSUME StatusInv, [Next]_vars, claim'.uid = claim.uid, NEW k \in Foreign
    PROVE  claim'.devices[k].pod >= claim.devices[k].pod
<1>1. /\ claim \in Object /\ k \in Keys /\ claim.devices[k] \in Entry
      /\ claim.devices[k].pod \in Nat
  BY DEF StatusInv, TypeOK, Object, Keys, Entry
<1>2. ASSUME NEW w \in Writers, Accept(w) PROVE claim'.devices[k] = claim.devices[k]
  BY <1>2, AcceptSound DEF Accept, StatusInv, Sound
<1>3. ASSUME NEW l \in Foreign, ForeignWrite(l)
      PROVE  claim'.devices[k].pod >= claim.devices[k].pod
  <2>1. CASE k = l
    <3>1. claim'.devices[k] = [uid |-> claim.uid, pod |-> claim.devices[k].pod + 1,
                               net |-> TRUE]
      BY <1>1, <1>3, <2>1, ForeignWriteEffect
    <3> QED
      BY <1>1, <3>1
  <2>2. CASE k # l
    <3>1. claim'.devices[k] = claim.devices[k]
      BY <1>1, <1>3, <2>2, ForeignWriteEffect
    <3> QED
      BY <1>1, <3>1
  <2> QED
    BY <2>1, <2>2
<1>4. CASE Create
  BY <1>1, <1>4 DEF Create, Object
<1>5. CASE claim' = claim
  BY <1>1, <1>5
<1>6. ASSUME NEW w \in Writers, RetryStep(w) PROVE claim' = claim \/ Accept(w)
  BY <1>6 DEF RetryStep, UpdateStatus, UpdateConflict, UpdateRefused, UpdateTransient,
              Refresh, RefreshRefused, RefreshTransient
<1>7. RunnerStep \/ Prepare \/ RunPodSandbox \/ RunPodSandboxAgain \/ Delete \/ Restart
          \/ UNCHANGED vars => claim' = claim
  BY DEF RunnerStep, UpdateNetworkDeviceData, UpdateNetworkDeviceDataFails, Prepare,
         RunPodSandbox, RunPodSandboxAgain, Delete, Restart, vars
<1> QED
  BY <1>1, <1>2, <1>3, <1>4, <1>5, <1>6, <1>7 DEF Next

\* An entry that another driver wrote survives every conflict, retry, lost answer
\* and restart of this one.
THEOREM ForeignEntriesSurvive == Spec => ForeignEntriesKept
<1>1. StatusInv /\ [Next]_vars =>
          [claim'.uid = claim.uid =>
             \A k \in Foreign : claim'.devices[k].pod >= claim.devices[k].pod]_vars
  BY ForeignKept
<1> QED
  BY <1>1, StatusInvariant, PTL DEF Spec, ForeignEntriesKept
-------------------------------------------------------------------------------
(***************************************************************************)
(* The order of the network data.  Sandboxes are numbered in the order in  *)
(* which they use the claim, and the channel hands their updates on in     *)
(* that order: what is queued is younger than what is written or being     *)
(* written.                                                                *)
(***************************************************************************)

\* The sandbox n has attached its networks before.
Past(n, p) == n <= p.number /\ (p.phase # "attached" => n < p.number)

Known(e, p, q) ==
    e.net => Past(e.pod, p) /\ \A i \in 1..Len(q) : e.pod < q[i].number

QueueInOrder(q, p) ==
    /\ \A i \in 1..Len(q) : Past(q[i].number, p)
    /\ \A i, j \in 1..Len(q) : i < j => q[i].number < q[j].number

\* Beside the claim c, the prepare loop a carries no network data and the runner's
\* loop b none that is older than what is there.
LoopsInOrder(a, b, c) ==
    /\ \A k \in Own : a.claim.devices[k] = a.desired[k] /\ ~a.desired[k].net
    /\ \A k \in Own : b.claim.devices[k] = b.desired[k]
    /\ c.uid = b.claim.uid => \A k \in Own : c.devices[k].net /\ b.desired[k].net
                                  => c.devices[k].pod <= b.desired[k].pod

OrderInv ==
    /\ writer["prepare"].phase # "idle" => pod.phase = "preparing"
    /\ QueueInOrder(queue, pod)
    /\ \A k \in Own : Known(claim.devices[k], pod, queue)
    /\ \A k \in Own : Known(writer["nri"].desired[k], pod, queue)
    /\ LoopsInOrder(writer["prepare"], writer["nri"], claim)

\* A writer outside its retry loop carries no network data.
LEMMA IdleInOrder ==
    ASSUME NEW k \in Own
    PROVE  /\ IdleWriter.claim.devices[k] = IdleWriter.desired[k]
           /\ ~IdleWriter.desired[k].net /\ IdleWriter.phase = "idle"
           /\ ~NoStatus.net
  BY DEF IdleWriter, NoStatus, Keys

\* The ordering invariant holds before the first claim is prepared.
LEMMA OrderInit == Init => OrderInv
<1> SUFFICES ASSUME Init PROVE OrderInv
  OBVIOUS
<1>1. /\ writer["prepare"] = IdleWriter /\ writer["nri"] = IdleWriter /\ queue = <<>>
      /\ \A k \in Own : ~claim.devices[k].net
  BY DEF Init, Writers, Keys, NoStatus
<1>2. IdleWriter.phase = "idle"
  BY DEF IdleWriter
<1>3. QueueInOrder(queue, pod)
  BY <1>1 DEF QueueInOrder
<1> QED
  BY <1>1, <1>2, <1>3, IdleInOrder DEF OrderInv, Known, LoopsInOrder

\* What a step of a retry loop leaves of the loops and the pod.
LEMMA RetryEffect ==
    ASSUME StatusInv, OrderInv, NEW w \in Writers, RetryStep(w)
    PROVE  /\ queue' = queue /\ (claim' = claim \/ Accept(w))
           /\ pod'.number = pod.number
           /\ pod'.phase = "attached" <=> pod.phase = "attached"
           /\ writer'["prepare"].phase # "idle" => pod'.phase = "preparing"
           /\ \A v \in Writers :
                 \/ writer'[v] = IdleWriter
                 \/ /\ writer'[v].desired = writer[v].desired
                    /\ writer'[v].claim.uid = writer[v].claim.uid
                    /\ \A k \in Own : writer'[v].claim.devices[k] = writer'[v].desired[k]
<1>1. /\ writer \in [Writers -> Loop] /\ writer[w] \in Loop /\ claim \in Object
      /\ pod \in Pods /\ "prepare" \in Writers
  BY DEF StatusInv, TypeOK, Pods, Writers
<1>2. queue' = queue /\ (claim' = claim \/ Accept(w)) /\ writer[w].phase # "idle"
  BY DEF RetryStep, UpdateStatus, UpdateConflict, UpdateRefused, UpdateTransient, Refresh,
         RefreshRefused, RefreshTransient, At
<1>3. \A v \in Writers, k \in Own : writer[v].claim.devices[k] = writer[v].desired[k]
  BY DEF OrderInv, LoopsInOrder, Writers
<1> DEFINE PodKept == /\ pod'.number = pod.number
                      /\ pod'.phase = "attached" <=> pod.phase = "attached"
                      /\ writer'["prepare"].phase # "idle" => pod'.phase = "preparing"
           LoopsKept == \A v \in Writers :
                 \/ writer'[v] = IdleWriter
                 \/ /\ writer'[v].desired = writer[v].desired
                    /\ writer'[v].claim.uid = writer[v].claim.uid
                    /\ \A k \in Own : writer'[v].claim.devices[k] = writer'[v].desired[k]
<1>4. ASSUME Leave(w) PROVE PodKept /\ LoopsKept
  <2>1. writer' = [writer EXCEPT ![w] = IdleWriter]
    BY <1>4 DEF Leave
  <2>2. LoopsKept
    BY <1>1, <1>3, <2>1
  <2>3. CASE w = "prepare"
    <3>1. pod.phase = "preparing" /\ pod' = [pod EXCEPT !.phase = "prepared"]
      BY <1>2, <1>4, <2>3 DEF OrderInv, Leave
    <3>2. writer'["prepare"].phase = "idle"
      BY <1>1, <2>1, <2>3 DEF IdleWriter
    <3> QED
      BY <1>1, <2>2, <3>1, <3>2 DEF Pods
  <2>4. CASE w # "prepare"
    <3>1. pod' = pod /\ writer'["prepare"] = writer["prepare"]
      BY <1>1, <1>4, <2>1, <2>4 DEF Leave
    <3> QED
      BY <2>2, <3>1 DEF OrderInv
  <2> QED
    BY <2>3, <2>4
<1>5. ASSUME NEW obj \in Object, Retry(w, obj), obj.uid = writer[w].claim.uid,
             \A k \in Own : obj.devices[k] = writer[w].desired[k]
      PROVE  PodKept /\ LoopsKept
  <2>1. CASE writer[w].attempts + 1 < Steps
    <3>1. pod' = pod /\ writer' = [writer EXCEPT ![w] = [writer[w] EXCEPT
                            !.phase = "update", !.claim = obj, !.attempts = @ + 1]]
      BY <1>1, <1>5, <2>1 DEF Retry, Loop
    <3>2. writer'[w].claim = obj /\ writer'[w].desired = writer[w].desired
      BY <1>1, <3>1 DEF Loop
    <3>3. \A v \in Writers : v # w => writer'[v] = writer[v]
      BY <1>1, <3>1
    <3>4. LoopsKept
      BY <1>3, <1>5, <3>2, <3>3
    <3>5. writer'["prepare"].phase # "idle" => writer["prepare"].phase # "idle"
      BY <1>1, <1>2, <3>3
    <3> QED
      BY <3>1, <3>4, <3>5 DEF OrderInv
  <2>2. CASE ~(writer[w].attempts + 1 < Steps)
    BY <1>4, <1>5, <2>2 DEF Retry, GiveUp
  <2> QED
    BY <2>1, <2>2
<1>6. PodKept /\ LoopsKept
  <2>1. CASE UpdateStatus(w) \/ UpdateRefused(w) \/ RefreshRefused(w)
    BY <1>4, <2>1 DEF UpdateStatus, UpdateRefused, RefreshRefused, GiveUp
  <2>2. CASE UpdateConflict(w)
    <3>1. pod' = pod /\ writer' = [writer EXCEPT ![w].phase = "refresh"]
      BY <2>2 DEF UpdateConflict
    <3>2. \A v \in Writers : /\ writer'[v].claim = writer[v].claim
                             /\ writer'[v].desired = writer[v].desired
                             /\ writer'[v].phase # "idle" => writer[v].phase # "idle"
      BY <1>1, <1>2, <3>1 DEF Loop
    <3> QED
      BY <1>1, <1>3, <3>1, <3>2 DEF OrderInv
  <2>3. CASE UpdateTransient(w) \/ RefreshTransient(w)
    <3>1. Retry(w, writer[w].claim) /\ writer[w].claim \in Object
      BY <1>1, <2>3 DEF UpdateTransient, RefreshTransient, Loop
    <3> QED
      BY <1>3, <1>5, <3>1
  <2>4. CASE Refresh(w)
    <3> DEFINE obj == [claim EXCEPT !.devices =
                           MergeDeviceStatuses(claim.devices, writer[w].desired)]
    <3>1. CASE claim.uid = writer[w].claim.uid
      <4>1. Retry(w, obj)
        BY <2>4, <3>1 DEF Refresh
      <4>2. claim.devices \in [Keys -> Entry] /\ writer[w].desired \in [Keys -> Entry]
            /\ Marked(claim.devices, claim.uid) /\ Marked(writer[w].desired, claim.uid)
        BY <1>1, <3>1 DEF Object, Loop, StatusInv, Sound
      <4>3. obj \in Object /\ obj.uid = claim.uid
            /\ \A k \in Own : obj.devices[k] = writer[w].desired[k]
        BY <1>1, <4>2, MergeSound DEF Object
      <4> HIDE DEF obj
      <4> QED
        BY <1>5, <3>1, <4>1, <4>3
    <3>2. CASE claim.uid # writer[w].claim.uid
      BY <1>4, <2>4, <3>2 DEF Refresh, GiveUp
    <3> QED
      BY <3>1, <3>2
  <2> QED
    BY <2>1, <2>2, <2>3, <2>4 DEF RetryStep
<1> QED
  BY <1>2, <1>6
\* Every step of the conflict-retry loop keeps the ordering invariant.
LEMMA OrderRetry == ASSUME StatusInv, OrderInv, NEW w \in Writers, RetryStep(w) PROVE OrderInv'
<1>1. /\ queue' = queue /\ (claim' = claim \/ Accept(w))
      /\ pod'.number = pod.number
      /\ pod'.phase = "attached" <=> pod.phase = "attached"
      /\ writer'["prepare"].phase # "idle" => pod'.phase = "preparing"
  BY RetryEffect
<1>2. ASSUME NEW v \in Writers
      PROVE  \/ writer'[v] = IdleWriter
             \/ /\ writer'[v].desired = writer[v].desired
                /\ writer'[v].claim.uid = writer[v].claim.uid
                /\ \A k \in Own : writer'[v].claim.devices[k] = writer'[v].desired[k]
  BY RetryEffect
<1>3. "prepare" \in Writers /\ "nri" \in Writers /\ (w = "prepare" \/ w = "nri")
  BY DEF Writers
<1>4. \A n : Past(n, pod') <=> Past(n, pod)
  BY <1>1 DEF Past
<1>5. QueueInOrder(queue', pod')
  BY <1>1, <1>4 DEF OrderInv, QueueInOrder
<1>6. \A e : Known(e, pod', queue') <=> Known(e, pod, queue)
  BY <1>1, <1>4 DEF Known
<1>7. ASSUME NEW k \in Own
      PROVE  \/ claim'.devices[k] = claim.devices[k]
             \/ w = "prepare" /\ claim'.devices[k] = writer["prepare"].desired[k]
             \/ w = "nri" /\ claim'.devices[k] = writer["nri"].desired[k]
  BY <1>1, <1>3, AcceptSound DEF OrderInv, LoopsInOrder
<1>8. claim'.uid = claim.uid /\ ~\E k \in Own : writer["prepare"].desired[k].net
  BY <1>1, AcceptSound DEF OrderInv, LoopsInOrder
<1>9. \A k \in Own : Known(claim'.devices[k], pod', queue')
  BY <1>6, <1>7, <1>8 DEF OrderInv, Known
<1>10. \A k \in Own : Known(writer'["nri"].desired[k], pod', queue')
  BY <1>2, <1>3, <1>6, IdleInOrder DEF OrderInv, Known
<1>11. LoopsInOrder(writer'["prepare"], writer'["nri"], claim')
  <2>1. \A k \in Own : /\ writer'["prepare"].claim.devices[k] = writer'["prepare"].desired[k]
                       /\ ~writer'["prepare"].desired[k].net
    BY <1>2, <1>3, <1>8, IdleInOrder
  <2>2. \A k \in Own : writer'["nri"].claim.devices[k] = writer'["nri"].desired[k]
    BY <1>2, <1>3, IdleInOrder
  <2>3. ASSUME claim'.uid = writer'["nri"].claim.uid, NEW k \in Own,
               claim'.devices[k].net, writer'["nri"].desired[k].net
        PROVE  claim'.devices[k].pod <= writer'["nri"].desired[k].pod
    <3>1. /\ writer'["nri"].desired = writer["nri"].desired
          /\ writer'["nri"].claim.uid = writer["nri"].claim.uid
      BY <1>2, <1>3, <2>3, IdleInOrder
    <3>2. writer["nri"].desired[k].pod \in Nat
      BY <1>3 DEF StatusInv, TypeOK, Loop, Entry, Keys
    <3> QED
      BY <1>7, <1>8, <2>3, <3>1, <3>2 DEF OrderInv, LoopsInOrder
  <2> QED
    BY <2>1, <2>2, <2>3 DEF LoopsInOrder
<1> QED
  BY <1>1, <1>5, <1>9, <1>10, <1>11 DEF OrderInv

\* Taking the oldest update from the channel.
LEMMA TailInOrder ==
    ASSUME NEW q \in Seq(Items), q # <<>>, NEW p, QueueInOrder(q, p)
    PROVE  /\ QueueInOrder(Tail(q), p)
           /\ Past(Head(q).number, p)
           /\ \A i \in 1..Len(Tail(q)) : Head(q).number < Tail(q)[i].number
           /\ \A e : Known(e, p, q) => Known(e, p, Tail(q))
           /\ \A e : Known(e, p, q) /\ e.net => e.pod < Head(q).number
<1>1. /\ Len(q) \in Nat \ {0} /\ Len(Tail(q)) = Len(q) - 1 /\ Head(q) = q[1]
      /\ \A i \in 1..Len(Tail(q)) : Tail(q)[i] = q[i + 1]
  OBVIOUS
<1>2. QueueInOrder(Tail(q), p)
  BY <1>1 DEF QueueInOrder
<1>3. \A i \in 1..Len(Tail(q)) : Head(q).number < Tail(q)[i].number
  BY <1>1 DEF QueueInOrder
<1>4. Past(Head(q).number, p)
  BY <1>1 DEF QueueInOrder
<1>5. \A e : Known(e, p, q) => Known(e, p, Tail(q))
  BY <1>1 DEF Known
<1>6. \A e : Known(e, p, q) /\ e.net => e.pod < Head(q).number
  BY <1>1 DEF Known
<1> QED
  BY <1>2, <1>3, <1>4, <1>5, <1>6

\* The update runner taking an item off the channel keeps the ordering invariant.
LEMMA OrderRunner == ASSUME StatusInv, OrderInv, RunnerStep PROVE OrderInv'
<1>1. /\ queue \in Seq(Items) /\ queue # <<>> /\ queue' = Tail(queue)
      /\ claim' = claim /\ pod' = pod /\ writer \in [Writers -> Loop]
      /\ "prepare" \in Writers /\ "nri" \in Writers /\ claim \in Object
  BY DEF StatusInv, TypeOK, Items, RunnerStep, UpdateNetworkDeviceData,
         UpdateNetworkDeviceDataFails, Writers
<1>2. /\ QueueInOrder(queue', pod')
      /\ \A e : Known(e, pod, queue) => Known(e, pod', queue')
  BY <1>1, TailInOrder DEF OrderInv
<1>3. CASE writer' = writer
  BY <1>1, <1>2, <1>3 DEF OrderInv
<1>4. ASSUME NEW saved \in SUBSET Own, SetNetworkData(Head(queue), saved),
             writer' # writer
      PROVE  OrderInv'
  <2> DEFINE found == {k \in saved : claim.devices[k] # NoStatus}
             new == [uid |-> Head(queue).uid, pod |-> Head(queue).number, net |-> TRUE]
             devs == [k \in Keys |-> IF k \in found THEN new ELSE claim.devices[k]]
             obj == [claim EXCEPT !.devices = devs]
  <2>1. writer' = [writer EXCEPT !["nri"] = [phase |-> "update", claim |-> obj,
                                             desired |-> obj.devices, attempts |-> 0]]
    BY <1>4 DEF SetNetworkData, Enter, Skip
  <2>2. obj.devices = devs
    BY <1>1 DEF Object
  <2>3. /\ writer'["prepare"] = writer["prepare"]
        /\ writer'["nri"].desired = devs /\ writer'["nri"].claim.devices = devs
    BY <1>1, <2>1, <2>2
  <2>4. \A k \in Own : devs[k] = new \/ devs[k] = claim.devices[k]
    BY DEF Keys
  <2>5. Known(new, pod', queue')
    BY <1>1, TailInOrder DEF OrderInv, Known
  <2>6. \A k \in Own : claim.devices[k].net => claim.devices[k].pod < new.pod
    BY <1>1, TailInOrder DEF OrderInv
  <2>7. \A k \in Own : claim.devices[k].pod \in Nat
    BY <1>1 DEF Object, Entry, Keys
  <2>8. new.pod \in Nat
    <3>1. Head(queue) \in Items
      BY <1>1
    <3> QED
      BY <3>1 DEF Items
  <2> HIDE DEF devs, new, obj
  <2>9. \A k \in Own : Known(writer'["nri"].desired[k], pod', queue')
    BY <1>2, <2>3, <2>4, <2>5 DEF OrderInv
  <2>10. LoopsInOrder(writer'["prepare"], writer'["nri"], claim')
    BY <1>1, <2>3, <2>4, <2>6, <2>7, <2>8 DEF OrderInv, LoopsInOrder
  <2> QED
    BY <1>1, <1>2, <2>3, <2>9, <2>10 DEF OrderInv
<1> QED
  BY <1>3, <1>4 DEF RunnerStep, UpdateNetworkDeviceData, UpdateNetworkDeviceDataFails, Skip

\* Preparing the claim for a new pod keeps the ordering invariant.
LEMMA OrderPrepare == ASSUME StatusInv, OrderInv, Prepare PROVE OrderInv'
<1> DEFINE devs == [k \in Keys |->
               IF k \in Own THEN [uid |-> claim.uid, pod |-> pod.number + 1, net |-> FALSE]
                            ELSE claim.devices[k]]
           obj == [claim EXCEPT !.devices = devs]
<1>1. /\ claim \in Object /\ writer \in [Writers -> Loop] /\ pod.number \in Nat
      /\ "prepare" \in Writers /\ "nri" \in Writers
  BY DEF StatusInv, TypeOK, Writers
<1>2. /\ Enter("prepare", obj) /\ claim' = claim /\ queue' = queue
      /\ pod'.number = pod.number + 1 /\ pod'.phase = "preparing"
  BY DEF Prepare
<1>3. \A k \in Own : ~devs[k].net
  BY DEF Keys
<1> HIDE DEF devs
<1>4. obj.devices = devs
  BY <1>1 DEF Object
<1> HIDE DEF obj
<1>5. /\ writer'["nri"] = writer["nri"]
      /\ writer'["prepare"].desired = devs /\ writer'["prepare"].claim.devices = devs
  BY <1>1, <1>2, <1>4 DEF Enter
<1>6. ASSUME NEW n \in Nat, Past(n, pod) PROVE Past(n, pod')
  BY <1>1, <1>2, <1>6 DEF Past
<1>7. \A i \in 1..Len(queue) : queue[i].number \in Nat
  <2>1. queue \in Seq(Items)
    BY DEF StatusInv, TypeOK, Items
  <2>2. \A i \in 1..Len(queue) : queue[i] \in Items
    BY <2>1
  <2> QED
    BY <2>2 DEF Items
<1>8. QueueInOrder(queue', pod')
  BY <1>2, <1>6, <1>7 DEF OrderInv, QueueInOrder
<1>9. \A k \in Own : claim.devices[k].pod \in Nat /\ writer["nri"].desired[k].pod \in Nat
  BY <1>1 DEF Object, Loop, Entry, Keys
<1>10. ASSUME NEW e, e.pod \in Nat, Known(e, pod, queue) PROVE Known(e, pod', queue')
  BY <1>2, <1>6, <1>10 DEF Known
<1>11. \A k \in Own : /\ Known(claim'.devices[k], pod', queue')
                      /\ Known(writer'["nri"].desired[k], pod', queue')
  BY <1>2, <1>5, <1>9, <1>10 DEF OrderInv
<1>12. LoopsInOrder(writer'["prepare"], writer'["nri"], claim')
  BY <1>2, <1>3, <1>5 DEF OrderInv, LoopsInOrder
<1> QED
  BY <1>2, <1>8, <1>11, <1>12 DEF OrderInv
\* A sandbox queueing its update keeps the ordering invariant.
LEMMA OrderSandbox ==
    ASSUME StatusInv, OrderInv, RunPodSandbox \/ RunPodSandboxAgain PROVE OrderInv'
<1>1. /\ queue \in Seq(Items) /\ pod \in Pods /\ pod.phase \in {"prepared", "attached"}
      /\ UNCHANGED <<claim, writer>>
  BY DEF StatusInv, TypeOK, Items, Pods, RunPodSandbox, RunPodSandboxAgain
<1>2. /\ pod'.phase = "attached" /\ pod.number \in Nat /\ pod'.number \in Nat
      /\ pod'.number = IF pod.phase = "prepared" THEN pod.number ELSE pod.number + 1
      /\ queue' = Append(queue, [uid |-> pod.uid, number |-> pod'.number])
  BY <1>1 DEF RunPodSandbox, RunPodSandboxAgain, Pods
<1>3. /\ Len(queue) \in Nat /\ Len(queue') = Len(queue) + 1
      /\ \A i \in 1..Len(queue) : queue'[i] = queue[i]
      /\ queue'[Len(queue) + 1].number = pod'.number
  BY <1>1, <1>2
<1>4. ASSUME NEW n \in Nat, Past(n, pod) PROVE Past(n, pod') /\ n < pod'.number
  BY <1>1, <1>2, <1>4 DEF Past
<1>5. /\ Past(pod'.number, pod')
      /\ \A i \in 1..Len(queue) : queue[i].number \in Nat
  <2>1. Past(pod'.number, pod')
    BY <1>2 DEF Past
  <2>2. \A i \in 1..Len(queue) : queue[i] \in Items
    BY <1>1
  <2> QED
    BY <2>1, <2>2 DEF Items
<1>6. QueueInOrder(queue', pod')
  <2>1. ASSUME NEW i \in 1..Len(queue') PROVE Past(queue'[i].number, pod')
    <3>1. CASE i \in 1..Len(queue)
      BY <1>3, <1>4, <1>5, <3>1 DEF OrderInv, QueueInOrder
    <3>2. CASE i = Len(queue) + 1
      BY <1>3, <1>5, <3>2
    <3> QED
      BY <1>3, <3>1, <3>2
  <2>2. ASSUME NEW i \in 1..Len(queue'), NEW j \in 1..Len(queue'), i < j
        PROVE  queue'[i].number < queue'[j].number
    <3>1. i \in 1..Len(queue)
      BY <1>3, <2>2
    <3>2. CASE j \in 1..Len(queue)
      BY <1>3, <2>2, <3>1, <3>2 DEF OrderInv, QueueInOrder
    <3>3. CASE j = Len(queue) + 1
      BY <1>3, <1>4, <1>5, <3>1, <3>3 DEF OrderInv, QueueInOrder
    <3> QED
      BY <1>3, <3>2, <3>3
  <2> QED
    BY <2>1, <2>2 DEF QueueInOrder
<1>7. ASSUME NEW e, e.pod \in Nat, Known(e, pod, queue) PROVE Known(e, pod', queue')
  <2> SUFFICES ASSUME e.net
               PROVE  Past(e.pod, pod') /\ \A i \in 1..Len(queue') : e.pod < queue'[i].number
    BY DEF Known
  <2>1. Past(e.pod, pod) /\ \A i \in 1..Len(queue) : e.pod < queue[i].number
    BY <1>7 DEF Known
  <2>2. Past(e.pod, pod') /\ e.pod < pod'.number
    BY <1>4, <1>7, <2>1
  <2>3. ASSUME NEW i \in 1..Len(queue') PROVE e.pod < queue'[i].number
    <3>1. CASE i \in 1..Len(queue)
      BY <1>3, <2>1, <3>1
    <3>2. CASE i = Len(queue) + 1
      BY <1>3, <2>2, <3>2
    <3> QED
      BY <1>3, <3>1, <3>2
  <2> QED
    BY <2>2, <2>3
<1>8. writer["prepare"].phase = "idle"
  BY <1>1 DEF OrderInv
<1>9. \A k \in Own : claim.devices[k].pod \in Nat /\ writer["nri"].desired[k].pod \in Nat
  BY DEF StatusInv, TypeOK, Object, Loop, Entry, Keys, Writers
<1> QED
  BY <1>1, <1>6, <1>7, <1>8, <1>9 DEF OrderInv

\* The ordering invariant is inductive, relative to the status invariant.
LEMMA OrderNext == StatusInv /\ OrderInv /\ [Next]_vars => OrderInv'
<1> SUFFICES ASSUME StatusInv, OrderInv, [Next]_vars PROVE OrderInv'
  OBVIOUS
<1>1. CASE \E w \in Writers : RetryStep(w)
  BY <1>1, OrderRetry
<1>2. CASE RunnerStep
  BY <1>2, OrderRunner
<1>3. CASE Prepare
  BY <1>3, OrderPrepare
<1>4. CASE RunPodSandbox \/ RunPodSandboxAgain
  BY <1>4, OrderSandbox
<1>5. CASE Delete
  BY <1>5 DEF Delete, OrderInv
<1>6. CASE Create
  <2>1. UNCHANGED <<pod, queue, writer>> /\ \A k \in Own : ~claim'.devices[k].net
    BY <1>6 DEF Create, Keys, NoStatus
  <2> QED
    BY <2>1 DEF OrderInv, Known, LoopsInOrder
<1>7. CASE Restart
  <2>1. /\ claim' = claim /\ queue' = <<>>
        /\ writer'["prepare"] = IdleWriter /\ writer'["nri"] = IdleWriter
    BY <1>7 DEF Restart, Writers
  <2>2. pod'.number = pod.number /\ (pod'.phase = "attached" <=> pod.phase = "attached")
    BY <1>7 DEF Restart, StatusInv, TypeOK
  <2>3. \A n : Past(n, pod) => Past(n, pod')
    BY <2>2 DEF Past
  <2>4. QueueInOrder(queue', pod')
    BY <2>1 DEF QueueInOrder
  <2>5. \A k \in Own : Known(claim'.devices[k], pod', queue')
    BY <2>1, <2>3 DEF OrderInv, Known
  <2>6. writer'["prepare"].phase = "idle"
    BY <2>1 DEF IdleWriter
  <2> QED
    BY <2>1, <2>4, <2>5, <2>6, IdleInOrder DEF OrderInv, Known, LoopsInOrder
<1>8. ASSUME NEW k \in Foreign, ForeignWrite(k) PROVE OrderInv'
  <2>1. UNCHANGED <<pod, queue, writer>>
    BY <1>8 DEF ForeignWrite
  <2>2. claim'.uid = claim.uid /\ \A l \in Own : claim'.devices[l] = claim.devices[l]
    BY <1>8, ForeignWriteEffect, StatusAssumption DEF Keys
  <2> QED
    BY <2>1, <2>2 DEF OrderInv, LoopsInOrder
<1>9. CASE UNCHANGED vars
  BY <1>9 DEF vars, OrderInv
<1> QED
  BY <1>1, <1>2, <1>3, <1>4, <1>5, <1>6, <1>7, <1>8, <1>9 DEF Next

\* A step that replaces network data replaces it by that of a sandbox at least as new.
LEMMA NetworkDataStep ==
    ASSUME StatusInv, OrderInv, [Next]_vars, claim'.uid = claim.uid, NEW k \in Own,
           claim.devices[k].net, claim'.devices[k].net
    PROVE  claim'.devices[k].pod >= claim.devices[k].pod
<1>1. claim \in Object /\ k \in Keys /\ claim.devices[k].pod \in Nat
  BY DEF StatusInv, TypeOK, Object, Keys, Entry
<1>2. CASE claim'.devices[k] = claim.devices[k]
  BY <1>1, <1>2
<1>3. ASSUME NEW w \in Writers, Accept(w)
      PROVE  claim'.devices[k].pod >= claim.devices[k].pod
  <2>1. claim'.devices[k] = writer[w].claim.devices[k] /\ claim.uid = writer[w].claim.uid
    BY <1>3, AcceptSound DEF Accept
  <2>2. w = "nri"
    BY <2>1 DEF OrderInv, LoopsInOrder, Writers
  <2>3. writer["nri"].desired[k].pod \in Nat
    BY <1>1 DEF StatusInv, TypeOK, Loop, Entry, Writers
  <2> QED
    BY <1>1, <2>1, <2>2, <2>3 DEF OrderInv, LoopsInOrder
<1>4. ASSUME NEW l \in Foreign, ForeignWrite(l) PROVE claim'.devices[k] = claim.devices[k]
  BY <1>1, <1>4, ForeignWriteEffect, StatusAssumption
<1>5. CASE Create
  BY <1>1, <1>5 DEF Create, Object
<1>6. ASSUME NEW w \in Writers, RetryStep(w) PROVE claim' = claim \/ Accept(w)
  BY <1>6 DEF RetryStep, UpdateStatus, UpdateConflict, UpdateRefused, UpdateTransient,
              Refresh, RefreshRefused, RefreshTransient
<1>7. RunnerStep \/ Prepare \/ RunPodSandbox \/ RunPodSandboxAgain \/ Delete \/ Restart
          \/ UNCHANGED vars => claim' = claim
  BY DEF RunnerStep, UpdateNetworkDeviceData, UpdateNetworkDeviceDataFails, Prepare,
         RunPodSandbox, RunPodSandboxAgain, Delete, Restart, vars
<1> QED
  BY <1>2, <1>3, <1>4, <1>5, <1>6, <1>7 DEF Next

\* For any number of pods, devices and queued updates: the network data of a sandbox
\* is never replaced by that of a sandbox that used the claim before it.
THEOREM NetworkDataStaysInOrder == Spec => NetworkDataInOrder
<1>1. StatusInv /\ OrderInv /\ [Next]_vars =>
          [claim'.uid = claim.uid => \A k \in Own :
             claim.devices[k].net /\ claim'.devices[k].net
                 => claim'.devices[k].pod >= claim.devices[k].pod]_vars
  BY NetworkDataStep
<1>2. Spec => []StatusInv
  BY StatusInvariant
<1> QED
  BY <1>1, <1>2, OrderInit, OrderNext, PTL DEF Spec, NetworkDataInOrder
-------------------------------------------------------------------------------
(***************************************************************************)
(* Nothing is left out: the last sandbox's update is on its way, or        *)
(* written.                                                                *)
(***************************************************************************)

\* The entry that reports the network data of the sandbox of p.
Report(p) == [uid |-> p.uid, pod |-> p.number, net |-> TRUE]

\* The update of the sandbox of p is the last one queued in q; or the runner's loop r
\* is writing it; or all is done and the claim c has it.
Reported(p, q, r, c) ==
    \/ q # <<>> /\ q[Len(q)] = [uid |-> p.uid, number |-> p.number]
    \/ q = <<>> /\ r.phase # "idle" /\ \A k \in Own : r.desired[k] = Report(p)
    \/ q = <<>> /\ r.phase = "idle" /\ \A k \in Own : c.devices[k] = Report(p)

\* A pod was never prepared for a claim that is yet to be created, and unless a
\* status write was given up, the network data of an attached pod is not lost.
CompleteInv ==
    /\ pod.uid <= claim.uid
    /\ ~missed /\ pod.phase = "attached" /\ claim.uid = pod.uid
          => Reported(pod, queue, writer["nri"], claim)

\* A step of the runner's loop in which nothing is given up: the loop goes on with
\* what it reapplies, or what it reapplies is in the claim.
LEMMA NriProgress ==
    ASSUME StatusInv, OrderInv, RetryStep("nri"), ~missed'
    PROVE  /\ pod' = pod /\ ~missed /\ queue' = queue /\ writer["nri"].phase # "idle"
           /\ \/ writer'["nri"].phase # "idle" /\ writer'["nri"].desired = writer["nri"].desired
              \/ /\ writer'["nri"].phase = "idle"
                 /\ \A k \in Own : claim'.devices[k] = writer["nri"].desired[k]
<1>1. /\ writer \in [Writers -> Loop] /\ "nri" \in Writers /\ writer["nri"] \in Loop
      /\ "nri" # "prepare"
  BY DEF StatusInv, TypeOK, Writers
<1>2. \A k \in Own : writer["nri"].claim.devices[k] = writer["nri"].desired[k]
  BY DEF OrderInv, LoopsInOrder
<1>3. CASE UpdateStatus("nri")
  <2>1. Accept("nri") /\ Leave("nri") /\ UNCHANGED <<queue, missed>> /\ At("nri", "update")
    BY <1>3 DEF UpdateStatus
  <2>2. claim'.devices = writer["nri"].claim.devices
    BY <1>1, <2>1, AcceptSound
  <2>3. pod' = pod /\ writer'["nri"].phase = "idle"
    BY <1>1, <2>1 DEF Leave, IdleWriter
  <2> QED
    BY <1>2, <2>1, <2>2, <2>3 DEF At
<1>4. CASE UpdateConflict("nri")
  <2>1. /\ writer' = [writer EXCEPT !["nri"].phase = "refresh"]
        /\ UNCHANGED <<pod, queue, missed>> /\ At("nri", "update")
    BY <1>4 DEF UpdateConflict
  <2>2. writer'["nri"] = [writer["nri"] EXCEPT !.phase = "refresh"]
    BY <1>1, <2>1
  <2>3. writer'["nri"].phase = "refresh" /\ writer'["nri"].desired = writer["nri"].desired
    BY <1>1, <2>2 DEF Loop
  <2> QED
    BY <2>1, <2>3 DEF At
<1>5. ASSUME NEW obj, Retry("nri", obj)
      PROVE  /\ pod' = pod /\ ~missed /\ writer'["nri"].phase # "idle"
             /\ writer'["nri"].desired = writer["nri"].desired
  <2>1. /\ writer' = [writer EXCEPT !["nri"].phase = "update", !["nri"].claim = obj,
                                    !["nri"].attempts = @ + 1]
        /\ UNCHANGED <<pod, missed>>
    BY <1>5 DEF Retry, GiveUp
  <2>2. writer'["nri"] = [writer["nri"] EXCEPT !.phase = "update", !.claim = obj,
                                               !.attempts = @ + 1]
    BY <1>1, <2>1 DEF Loop
  <2>3. writer'["nri"].phase = "update" /\ writer'["nri"].desired = writer["nri"].desired
    BY <1>1, <2>2 DEF Loop
  <2> QED
    BY <2>1, <2>3
<1>6. CASE UpdateTransient("nri") \/ RefreshTransient("nri")
  <2>1. Retry("nri", writer["nri"].claim) /\ queue' = queue /\ writer["nri"].phase # "idle"
    BY <1>6 DEF UpdateTransient, RefreshTransient, At
  <2> QED
    BY <1>5, <2>1
<1>7. CASE Refresh("nri")
  <2>1. /\ Retry("nri", [claim EXCEPT !.devices =
                             MergeDeviceStatuses(@, writer["nri"].desired)])
        /\ queue' = queue /\ writer["nri"].phase # "idle"
    BY <1>7 DEF Refresh, GiveUp, At
  <2> QED
    BY <1>5, <2>1
<1>8. ~UpdateRefused("nri") /\ ~RefreshRefused("nri")
  BY DEF UpdateRefused, RefreshRefused, GiveUp
<1> QED
  BY <1>3, <1>4, <1>6, <1>7, <1>8 DEF RetryStep

\* Every step of the conflict-retry loops keeps the report of the attached pod.
LEMMA CompleteRetry ==
    ASSUME StatusInv, OrderInv, CompleteInv, NEW w \in Writers, RetryStep(w)
    PROVE  CompleteInv'
<1>1. /\ w = "prepare" \/ w = "nri"
      /\ "nri" \in Writers
      /\ pod'.phase = "attached" <=> pod.phase = "attached"
      /\ claim' = claim \/ Accept(w)
  BY RetryEffect DEF Writers
<1>2. claim'.uid = claim.uid
  BY <1>1, AcceptSound
<1>3. pod'.uid = pod.uid
  <2>1. pod \in Pods
    BY DEF StatusInv, TypeOK, Pods
  <2>2. pod' = pod \/ pod' = [pod EXCEPT !.phase = "prepared"]
    BY DEF RetryStep, UpdateStatus, UpdateConflict, UpdateRefused, UpdateTransient, Refresh,
           RefreshRefused, RefreshTransient, Retry, GiveUp, Leave
  <2> QED
    BY <2>1, <2>2 DEF Pods
<1>4. ASSUME ~missed', pod'.phase = "attached", claim'.uid = pod'.uid
      PROVE  Reported(pod', queue', writer'["nri"], claim')
  <2>1. writer[w].phase # "idle"
    BY DEF RetryStep, UpdateStatus, UpdateConflict, UpdateRefused, UpdateTransient, Refresh,
           RefreshRefused, RefreshTransient, At
  <2>2. w = "nri"
    BY <1>1, <1>4, <2>1 DEF OrderInv
  <2>3. /\ pod' = pod /\ ~missed /\ queue' = queue /\ writer["nri"].phase # "idle"
        /\ \/ writer'["nri"].phase # "idle" /\ writer'["nri"].desired = writer["nri"].desired
           \/ /\ writer'["nri"].phase = "idle"
              /\ \A k \in Own : claim'.devices[k] = writer["nri"].desired[k]
    BY <1>4, <2>2, NriProgress
  <2>4. Reported(pod, queue, writer["nri"], claim)
    BY <1>1, <1>2, <1>3, <1>4, <2>3 DEF CompleteInv
  <2> QED
    BY <2>3, <2>4 DEF Reported
<1> QED
  BY <1>2, <1>3, <1>4 DEF CompleteInv

\* A channel that is empty once an update is taken had one update.
LEMMA LastUpdate ==
    ASSUME NEW q \in Seq(Items), q # <<>>, Tail(q) = <<>>
    PROVE  Len(q) = 1
<1>1. Len(q) \in Nat \ {0} /\ Len(Tail(q)) = Len(q) - 1
  OBVIOUS
<1>2. Len(<<>>) = 0
  OBVIOUS
<1> QED
  BY <1>1, <1>2

\* The runner takes the last update off the channel: unless it is skipped or some
\* device is left out, the loop it enters writes the network data of that sandbox.
LEMMA CompleteRunner == ASSUME StatusInv, CompleteInv, RunnerStep PROVE CompleteInv'
<1>1. /\ queue \in Seq(Items) /\ queue # <<>> /\ queue' = Tail(queue)
      /\ claim' = claim /\ pod' = pod /\ writer \in [Writers -> Loop]
      /\ "nri" \in Writers /\ claim \in Object
  BY DEF StatusInv, TypeOK, Items, RunnerStep, UpdateNetworkDeviceData,
         UpdateNetworkDeviceDataFails, Writers
<1> SUFFICES ASSUME ~missed', pod.phase = "attached", claim.uid = pod.uid
             PROVE  Reported(pod, queue', writer'["nri"], claim)
  BY <1>1 DEF CompleteInv
<1>2. PICK saved \in SUBSET Own : SetNetworkData(Head(queue), saved)
  BY DEF RunnerStep, UpdateNetworkDeviceData, UpdateNetworkDeviceDataFails, Skip
<1> DEFINE item == Head(queue)
           new == [uid |-> item.uid, pod |-> item.number, net |-> TRUE]
           devs == [k \in Keys |-> IF k \in Own THEN new ELSE claim.devices[k]]
           obj == [claim EXCEPT !.devices = devs]
<1>3. /\ ~missed
      /\ Enter("nri", obj)
  <2> DEFINE found == {k \in saved : claim.devices[k] # NoStatus}
  <2>1. found # {} /\ missed' = (missed \/ found # Own)
    BY <1>2 DEF SetNetworkData, Skip
  <2>2. found = Own /\ ~missed
    BY <2>1
  <2>3. Enter("nri", [claim EXCEPT !.devices = [k \in Keys |->
              IF k \in found THEN new ELSE claim.devices[k]]])
    BY <1>2, <2>1 DEF SetNetworkData
  <2> HIDE DEF found
  <2> QED
    BY <2>2, <2>3
<1>4. obj.devices = devs
  BY <1>1 DEF Object
<1>5. writer'["nri"].phase = "update" /\ writer'["nri"].desired = devs
  <2>1. writer' = [writer EXCEPT !["nri"] = [phase |-> "update", claim |-> obj,
                                             desired |-> obj.devices, attempts |-> 0]]
    BY <1>3 DEF Enter
  <2> HIDE DEF obj, devs
  <2> QED
    BY <1>1, <1>4, <2>1
<1>6. queue[Len(queue)] = [uid |-> pod.uid, number |-> pod.number]
  BY <1>1, <1>3 DEF CompleteInv, Reported
<1>7. CASE queue' = <<>>
  <2>1. Len(queue) = 1
    BY <1>1, <1>7, LastUpdate
  <2>2. item = [uid |-> pod.uid, number |-> pod.number]
    BY <1>1, <1>6, <2>1
  <2>3. item.uid = pod.uid /\ item.number = pod.number
    BY <2>2
  <2>4. new = Report(pod)
    BY <2>3 DEF Report
  <2>5. \A k \in Own : devs[k] = Report(pod)
    BY <2>4 DEF Keys
  <2> HIDE DEF devs
  <2> QED
    BY <1>5, <1>7, <2>5 DEF Reported
<1>8. CASE queue' # <<>>
  <2>1. queue'[Len(queue')] = queue[Len(queue)]
    BY <1>1, <1>8
  <2> QED
    BY <1>6, <1>8, <2>1 DEF Reported
<1> QED
  BY <1>7, <1>8

\* The report of the attached pod is inductive, relative to the other invariants.
LEMMA CompleteNext ==
    StatusInv /\ OrderInv /\ CompleteInv /\ [Next]_vars => CompleteInv'
<1> SUFFICES ASSUME StatusInv, OrderInv, CompleteInv, [Next]_vars PROVE CompleteInv'
  OBVIOUS
<1>0. claim.uid \in Nat /\ pod.uid \in Nat /\ pod \in Pods /\ queue \in Seq(Items)
  BY DEF StatusInv, TypeOK, Object, Pods, Items
<1>1. CASE \E w \in Writers : RetryStep(w)
  BY <1>1, CompleteRetry
<1>2. CASE RunnerStep
  BY <1>2, CompleteRunner
<1>3. CASE Prepare
  <2>1. pod'.phase = "preparing" /\ pod'.uid = claim.uid /\ claim' = claim
    BY <1>3 DEF Prepare
  <2> QED
    BY <1>0, <2>1 DEF CompleteInv
<1>4. CASE RunPodSandbox \/ RunPodSandboxAgain
  <2>1. /\ claim' = claim /\ pod'.uid = pod.uid
        /\ queue' = Append(queue, [uid |-> pod'.uid, number |-> pod'.number])
    BY <1>0, <1>4 DEF RunPodSandbox, RunPodSandboxAgain, Pods
  <2>2. queue' # <<>> /\ queue'[Len(queue')] = [uid |-> pod'.uid, number |-> pod'.number]
    BY <1>0, <2>1
  <2> QED
    BY <2>1, <2>2 DEF CompleteInv, Reported
<1>5. CASE Delete
  BY <1>5 DEF Delete, CompleteInv
<1>6. CASE Create
  <2>1. claim'.uid = claim.uid + 1 /\ pod' = pod
    BY <1>6 DEF Create
  <2> QED
    BY <1>0, <2>1 DEF CompleteInv
<1>7. CASE Restart
  <2>1. missed' = TRUE /\ claim' = claim /\ pod'.uid = pod.uid
    BY <1>0, <1>7 DEF Restart, Pods
  <2> QED
    BY <2>1 DEF CompleteInv
<1>8. ASSUME NEW k \in Foreign, ForeignWrite(k) PROVE CompleteInv'
  <2>1. UNCHANGED <<pod, queue, writer, missed>>
    BY <1>8 DEF ForeignWrite
  <2>2. claim'.uid = claim.uid /\ \A l \in Own : claim'.devices[l] = claim.devices[l]
    BY <1>8, ForeignWriteEffect, StatusAssumption DEF Keys
  <2> QED
    BY <2>1, <2>2 DEF CompleteInv, Reported
<1>9. CASE UNCHANGED vars
  BY <1>9 DEF vars, CompleteInv
<1> QED
  BY <1>1, <1>2, <1>3, <1>4, <1>5, <1>6, <1>7, <1>8, <1>9 DEF Next

\* For any number of pods, devices, claims and retries: once the runner is idle and
\* nothing was given up, the claim reports the network data of the attached pod.
THEOREM StatusIsComplete == Spec => []StatusComplete
<1>1. Init => CompleteInv
  BY DEF Init, CompleteInv
<1>2. CompleteInv => StatusComplete
  BY DEF CompleteInv, StatusComplete, Reported, Report, At
<1>3. Spec => []StatusInv
  BY StatusInvariant
<1>4. Spec => []OrderInv
  BY <1>3, OrderInit, OrderNext, PTL DEF Spec
<1> QED
  BY <1>1, <1>2, <1>3, <1>4, CompleteNext, PTL DEF Spec
===============================================================================
