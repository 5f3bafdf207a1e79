------------------------------ MODULE PodNetwork ------------------------------
(***************************************************************************)
(* The networks of pod sandboxes in STANDALONE mode, and the process that  *)
(* attaches them: the NRI plugin (pkg/nri/nri.go), the CNI runtime it      *)
(* calls (pkg/cni), the order in which RunPlugin starts and stops the      *)
(* parts (cmd/dra-driver-sriov/main.go, pkg/driver/driver.go), and the     *)
(* pod manager.  Preparing a pod is one step here; ClaimLifecycle.tla has  *)
(* its inside, ClaimStatus.tla the status that the runner writes.          *)
(*                                                                         *)
(* External: the kubelet, the kubelet plugin helper, which writes the      *)
(* request metadata of every successful prepare, the CNI plugin, and the   *)
(* container runtime.  The runtime hands out one event at a time; a plugin *)
(* that is not connected is passed over, and it is up to the runtime what  *)
(* becomes of a sandbox whose event failed.  Sandboxes are numbered; a     *)
(* number stands for the sandbox, its network namespace and the network    *)
(* data of its devices.                                                    *)
(***************************************************************************)
EXTENDS PodManager, Naturals, Sequences, FiniteSets

CONSTANTS Devices,
          Uses,         \* Uses[p]: the claims of pod p
          Results,      \* Results[c]: the devices allocated to claim c
          RequestOf,    \* RequestOf[d]: the request that device d was allocated for
          HostNetwork,  \* pods without a network namespace of their own
          EnableDeviceMetadata,
          ChanSize,     \* capacity of networkDeviceDataUpdateChan
          FaultKinds,
          MaxEvents     \* bound on pods and faults together

VARIABLES process,         \* how far RunPlugin has come
          nri,             \* the plugin is connected to the runtime
          handler,         \* the event being handled
          queue,           \* networkDeviceDataUpdateChan
          attached,        \* <<sandbox, device>> with a CNI ADD and no DEL
          metadata,        \* metadata[k]: whose network data the file of k has
          pod,             \* pod[p]: where pod p stands
          kubeletPrepared, \* pods the kubelet holds for prepared
          sandbox,         \* sandbox[p]: the sandbox of pod p
          made,            \* sandboxes made so far
          faults,
          forgotten,       \* pods whose entry the driver dropped or lost
          bypassed,        \* sandboxes started without the plugin or the entry
          leaked,          \* sandboxes ended without a successful stop event
          overwritten      \* metadata rewritten by a repeated prepare

pluginVars == <<process, nri, handler, queue>>
kubeletVars == <<pod, kubeletPrepared, sandbox, made>>
historyVars == <<forgotten, bypassed, leaked, overwritten>>
vars == <<podManagerVars, pluginVars, kubeletVars, attached, metadata, faults, historyVars>>

AllFaults == {"attach", "detach", "busy", "metadata", "claim", "checkpoint", "nri", "cancel",
              "start", "crash", "kubelet", "sandbox", "partial", "rollback"}

ASSUME NetworkAssumption ==
    /\ Pods # {}
    /\ Uses \in [Pods -> SUBSET Claims] /\ \A p \in Pods : Uses[p] # {}
    /\ \A p, q \in Pods : p # q => Uses[p] \cap Uses[q] = {}
    /\ Results \in [Claims -> SUBSET Devices] /\ \A c \in Claims : Results[c] # {}
    /\ HostNetwork \subseteq Pods
    /\ EnableDeviceMetadata \in BOOLEAN
    /\ ChanSize \in Nat \ {0} /\ MaxEvents \in Nat
    /\ FaultKinds \subseteq AllFaults

\* The devices and the request metadata files of some claims.
DevicesOf(claims) == UNION {Results[c] : c \in claims}
MetadataKeys(claims) == UNION {{<<c, RequestOf[d]>> : d \in Results[c]} : c \in claims}

\* What the model keeps of the prepared devices of one claim: NetworkDeviceData,
\* by its sandbox; 0 is none.
Entry(n) == <<n>>

\* The claims that GetDevicesByPodUID finds.
PreparedFor(p) == {c \in Claims : Get(p, c)}

\* The map with this network data in the entries of some claims of a pod.
WithEntries(p, claims, n) ==
    [preparedClaims EXCEPT ![p] = [c \in Claims |-> IF c \in claims THEN Entry(n) ELSE @[c]]]

NoSandbox == [number |-> 0, state |-> "none"]

NoEvent == [op |-> "none", pod |-> CHOOSE p \in Pods : TRUE, sandbox |-> 0,
            claims |-> {}, todo |-> {}, keys |-> {}, current |-> FALSE, lost |-> FALSE]

WithinBound == faults + Cardinality({p \in Pods : pod[p] # "new"}) < MaxEvents

Fault(kind) == kind \in FaultKinds /\ WithinBound /\ faults' = faults + 1
NoFault == UNCHANGED faults

\* The kubelet can call the driver.
Serving == process # "down"
-------------------------------------------------------------------------------
(***************************************************************************)
(* The process                                                             *)
(***************************************************************************)

\* The connection is lost: an event under way is answered by nobody.  The
\* runtime passes over the plugin, or gives the sandbox up.
Disconnect ==
    /\ nri' = FALSE
    /\ IF handler.op = "none" \/ handler.lost
       THEN UNCHANGED <<sandbox, bypassed, leaked>>
       ELSE \/ /\ handler.op = "run"
               /\ sandbox' = [sandbox EXCEPT ![handler.pod].state = "ready"]
               /\ bypassed' = bypassed \cup {handler.sandbox}
               /\ UNCHANGED leaked
            \/ /\ handler.op = "run"
               /\ sandbox' = [sandbox EXCEPT ![handler.pod].state = "failed"]
               /\ UNCHANGED <<bypassed, leaked>>
            \/ /\ handler.op = "stop"
               /\ sandbox' = [sandbox EXCEPT ![handler.pod] = NoSandbox]
               /\ leaked' = leaked \cup {handler.sandbox}
               /\ UNCHANGED bypassed
            \/ /\ handler.op = "stop"
               /\ UNCHANGED <<sandbox, bypassed, leaked>>

\* A handler that goes on while nobody waits for it.
Orphaned == IF handler.op = "none" THEN handler ELSE [handler EXCEPT !.lost = TRUE]

Exit == process' = "down" /\ handler' = NoEvent /\ queue' = <<>>

\* RunPlugin up to driver.Start: the checkpoint is read, the kubelet may call.
StartDriver ==
    /\ process = "down"
    /\ process' = "driver"
    /\ Load
    /\ forgotten' = forgotten \cup {p \in Pods : \E c \in PreparedFor(p) : checkpoint[p][c] = NoEntry}
    /\ UNCHANGED <<nri, handler, queue, kubeletVars, attached, metadata, faults, bypassed,
                   leaked, overwritten>>

\* Registration, publication, the controller's cache or the NRI stub fails, or a
\* signal comes first.
StartFails ==
    /\ process = "driver"
    /\ Fault("start")
    /\ Exit
    /\ UNCHANGED <<podManagerVars, nri, kubeletVars, attached, metadata, historyVars>>

\* The NRI plugin comes last.
StartNRI ==
    /\ process = "driver"
    /\ process' = "running"
    /\ nri' = TRUE
    /\ UNCHANGED <<podManagerVars, handler, queue, kubeletVars, attached, metadata, faults,
                   historyVars>>

\* Bug variant of OnClose: the main context is not cancelled.
OnCloseIgnored ==
    /\ nri
    /\ Fault("nri")
    /\ Disconnect
    /\ handler' = Orphaned
    /\ UNCHANGED <<podManagerVars, process, queue, pod, kubeletPrepared, made, attached,
                   metadata, forgotten, overwritten>>

\* The runtime closes the connection, of a plugin that took too long or because
\* it restarts itself: the main context is cancelled.
OnClose ==
    /\ nri
    /\ Fault("nri")
    /\ Disconnect
    /\ handler' = Orphaned
    /\ process' = "cancelled"
    /\ UNCHANGED <<podManagerVars, queue, pod, kubeletPrepared, made, attached, metadata,
                   forgotten, overwritten>>

\* A signal, a fatal background error of the helper, or the controller manager.
CancelMainCtx ==
    /\ process = "running"
    /\ Fault("cancel")
    /\ process' = "cancelled"
    /\ UNCHANGED <<podManagerVars, nri, handler, queue, kubeletVars, attached, metadata,
                   historyVars>>

\* Bug variant of Stop: the stub is left connected.
StopChannelOnly ==
    /\ process = "cancelled"
    /\ process' = "stopped"
    /\ UNCHANGED <<podManagerVars, nri, handler, queue, kubeletVars, attached, metadata, faults,
                   historyVars>>

\* The stub is stopped and the channel closed, whatever the handler is doing.
Stop ==
    /\ process = "cancelled"
    /\ process' = "stopped"
    /\ Disconnect
    /\ handler' = Orphaned
    /\ UNCHANGED <<podManagerVars, queue, pod, kubeletPrepared, made, attached, metadata,
                   faults, forgotten, overwritten>>

Shutdown ==
    /\ process = "stopped"
    /\ Exit
    /\ UNCHANGED <<podManagerVars, nri, kubeletVars, attached, metadata, faults, historyVars>>

Crash ==
    /\ process # "down"
    /\ Fault("crash")
    /\ Disconnect
    /\ Exit
    /\ UNCHANGED <<podManagerVars, pod, kubeletPrepared, made, attached, metadata, forgotten, overwritten>>
-------------------------------------------------------------------------------
(***************************************************************************)
(* Events of the runtime                                                   *)
(***************************************************************************)

Begin(op, p) ==
    handler' = [op |-> op, pod |-> p, sandbox |-> sandbox[p].number,
                claims |-> PreparedFor(p), todo |-> DevicesOf(PreparedFor(p)),
                keys |-> IF op = "run" /\ EnableDeviceMetadata
                         THEN MetadataKeys(PreparedFor(p)) ELSE {},
                current |-> TRUE, lost |-> FALSE]

\* The sandbox of a pod whose entry is gone or incomplete.
Unknown(p) == IF p \in forgotten THEN {sandbox[p].number} ELSE {}

Deliver(p, state) == nri /\ handler.op = "none" /\ sandbox[p].state = state

\* A pod without devices, or without a network namespace, is left alone.
RunPodSandbox(p) ==
    /\ Deliver(p, "starting")
    /\ IF HasDevices(p) /\ p \notin HostNetwork
       THEN Begin("run", p) /\ UNCHANGED sandbox
       ELSE sandbox' = [sandbox EXCEPT ![p].state = "ready"] /\ UNCHANGED handler
    /\ bypassed' = bypassed \cup Unknown(p)
    /\ UNCHANGED <<podManagerVars, process, nri, queue, pod, kubeletPrepared, made, attached,
                   metadata, faults, forgotten, leaked, overwritten>>

\* The runtime goes on without the plugin, whose handler sees no event later.
RunWithoutPlugin(p) ==
    /\ ~nri /\ sandbox[p].state = "starting"
    /\ sandbox' = [sandbox EXCEPT ![p].state = "ready"]
    /\ bypassed' = bypassed \cup {sandbox[p].number}
    /\ UNCHANGED <<podManagerVars, pluginVars, pod, kubeletPrepared, made, attached, metadata,
                   faults, forgotten, leaked, overwritten>>

\* The handler returns; nobody hears it when the connection is lost.
Return(op, ok) ==
    /\ handler' = NoEvent
    /\ \/ handler.lost /\ UNCHANGED <<sandbox, leaked>>
       \/ /\ ~handler.lost /\ op = "run"
          /\ sandbox' = [sandbox EXCEPT ![handler.pod].state = IF ok THEN "ready" ELSE "failed"]
          /\ UNCHANGED leaked
       \/ /\ ~handler.lost /\ op = "stop"
          /\ sandbox' = [sandbox EXCEPT ![handler.pod] = NoSandbox]
          /\ leaked' = IF ok THEN leaked ELSE leaked \cup {handler.sandbox}
       \/ /\ ~handler.lost /\ op = "stop" /\ ~ok
          /\ UNCHANGED <<sandbox, leaked>>

Handling(op) == handler.op = op

AttachNetwork(d) ==
    /\ Handling("run") /\ d \in handler.todo
    /\ attached' = attached \cup {<<handler.sandbox, d>>}
    /\ handler' = [handler EXCEPT !.todo = @ \ {d}]
    /\ UNCHANGED <<podManagerVars, process, nri, queue, kubeletVars, metadata, faults,
                   historyVars>>

\* Bug variant of AttachFails: the error is logged and the next device is tried.
AttachFailsSilently(d) ==
    /\ Handling("run") /\ d \in handler.todo
    /\ Fault("attach")
    /\ handler' = [handler EXCEPT !.todo = @ \ {d}]
    /\ UNCHANGED <<podManagerVars, process, nri, queue, kubeletVars, attached, metadata,
                   historyVars>>

\* The configuration does not parse, the plugin fails, or its result is missing
\* or cannot be converted: the ADD may have been done.  Earlier devices stay.
AttachFails(d) ==
    /\ Handling("run") /\ d \in handler.todo
    /\ Fault("attach")
    /\ \/ UNCHANGED attached
       \/ attached' = attached \cup {<<handler.sandbox, d>>}
    /\ Return("run", FALSE)
    /\ UNCHANGED <<podManagerVars, process, nri, queue, pod, kubeletPrepared, made, metadata,
                   forgotten, bypassed, overwritten>>

UpdateRequestMetadata(k) ==
    /\ Handling("run") /\ handler.todo = {} /\ k \in handler.keys
    /\ metadata' = [metadata EXCEPT ![k] = {handler.sandbox}]
    /\ overwritten' = overwritten \ {k}
    /\ handler' = [handler EXCEPT !.keys = @ \ {k}]
    /\ UNCHANGED <<podManagerVars, process, nri, queue, kubeletVars, attached, faults,
                   forgotten, bypassed, leaked>>

UpdateMetadataFails ==
    /\ Handling("run") /\ handler.todo = {} /\ handler.keys # {}
    /\ Fault("metadata")
    /\ Return("run", FALSE)
    /\ UNCHANGED <<podManagerVars, process, nri, queue, pod, kubeletPrepared, made, attached,
                   metadata, forgotten, bypassed, overwritten>>

\* Bug variant of Send: the metadata is left to the runner.
SendBeforeMetadata ==
    /\ Handling("run") /\ handler.todo = {}
    /\ process # "stopped"
    /\ Len(queue) < ChanSize
    /\ queue' = Append(queue, [pod |-> handler.pod, sandbox |-> handler.sandbox,
                               claims |-> handler.claims, current |-> handler.current])
    /\ Return("run", TRUE)
    /\ UNCHANGED <<podManagerVars, process, nri, pod, kubeletPrepared, made, attached, metadata,
                   faults, forgotten, bypassed, overwritten>>

\* Bug variant of Send: the channel counts as full with one place free.
SendOffByOne ==
    /\ Handling("run") /\ handler.todo = {} /\ handler.keys = {}
    /\ process # "stopped"
    /\ Len(queue) + 1 < ChanSize
    /\ queue' = Append(queue, [pod |-> handler.pod, sandbox |-> handler.sandbox,
                               claims |-> handler.claims, current |-> handler.current])
    /\ Return("run", TRUE)
    /\ UNCHANGED <<podManagerVars, process, nri, pod, kubeletPrepared, made, attached, metadata,
                   faults, forgotten, bypassed, overwritten>>

\* The handler waits while the channel is full.
Send ==
    /\ Handling("run") /\ handler.todo = {} /\ handler.keys = {}
    /\ process # "stopped"
    /\ Len(queue) < ChanSize
    /\ queue' = Append(queue, [pod |-> handler.pod, sandbox |-> handler.sandbox,
                               claims |-> handler.claims, current |-> handler.current])
    /\ Return("run", TRUE)
    /\ UNCHANGED <<podManagerVars, process, nri, pod, kubeletPrepared, made, attached, metadata,
                   faults, forgotten, bypassed, overwritten>>

\* A send on the closed channel is a panic, also of a handler that was waiting.
SendPanics ==
    /\ Handling("run") /\ handler.todo = {} /\ handler.keys = {}
    /\ process = "stopped"
    /\ Exit
    /\ UNCHANGED <<podManagerVars, nri, kubeletVars, attached, metadata, faults, historyVars>>
-------------------------------------------------------------------------------
\* A pod without an entry is left alone.
StopPodSandbox(p) ==
    /\ Deliver(p, "stopping")
    /\ \/ /\ HasDevices(p) /\ p \notin HostNetwork
          /\ Begin("stop", p)
          /\ UNCHANGED sandbox
       \/ /\ ~HasDevices(p)
          /\ sandbox' = [sandbox EXCEPT ![p] = NoSandbox]
          /\ UNCHANGED handler
    /\ leaked' = leaked \cup Unknown(p)
    /\ UNCHANGED <<podManagerVars, process, nri, queue, pod, kubeletPrepared, made, attached,
                   metadata, faults, forgotten, bypassed, overwritten>>

\* Without a network namespace the stop is an error, every time.  The runtime
\* ignores it at last, or retries for ever.
StopWithoutNamespace(p) ==
    /\ Deliver(p, "stopping") /\ HasDevices(p) /\ p \in HostNetwork
    /\ sandbox' = [sandbox EXCEPT ![p] = NoSandbox]
    /\ UNCHANGED <<podManagerVars, pluginVars, pod, kubeletPrepared, made, attached, metadata,
                   faults, historyVars>>

StopWithoutPlugin(p) ==
    /\ ~nri /\ sandbox[p].state = "stopping"
    /\ sandbox' = [sandbox EXCEPT ![p] = NoSandbox]
    /\ leaked' = leaked \cup {sandbox[p].number}
    /\ UNCHANGED <<podManagerVars, pluginVars, pod, kubeletPrepared, made, attached, metadata,
                   faults, forgotten, bypassed, overwritten>>

DetachNetwork(d) ==
    /\ Handling("stop") /\ d \in handler.todo
    /\ attached' = attached \ {<<handler.sandbox, d>>}
    /\ handler' = [handler EXCEPT !.todo = @ \ {d}]
    /\ UNCHANGED <<podManagerVars, process, nri, queue, kubeletVars, metadata, faults,
                   historyVars>>

\* ExecPlugin gives up on a plugin whose file stays busy, and reports success.
DetachSkipped(d) ==
    /\ Handling("stop") /\ d \in handler.todo
    /\ Fault("busy")
    /\ leaked' = leaked \cup {handler.sandbox}
    /\ handler' = [handler EXCEPT !.todo = @ \ {d}]
    /\ UNCHANGED <<podManagerVars, process, nri, queue, kubeletVars, attached, metadata,
                   forgotten, bypassed, overwritten>>

\* Bug variant of DetachFails: the stop is reported as done.
DetachFailsSilently(d) ==
    /\ Handling("stop") /\ d \in handler.todo
    /\ Fault("detach")
    /\ UNCHANGED attached
    /\ Return("stop", TRUE)
    /\ UNCHANGED <<podManagerVars, process, nri, queue, pod, kubeletPrepared, made, metadata,
                   forgotten, bypassed, overwritten>>

\* The first error ends the loop; the devices after it stay attached.
DetachFails(d) ==
    /\ Handling("stop") /\ d \in handler.todo
    /\ Fault("detach")
    /\ attached' \in {attached, attached \ {<<handler.sandbox, d>>}}
    /\ Return("stop", FALSE)
    /\ UNCHANGED <<podManagerVars, process, nri, queue, pod, kubeletPrepared, made, metadata,
                   forgotten, bypassed, overwritten>>

Detached ==
    /\ Handling("stop") /\ handler.todo = {}
    /\ Return("stop", TRUE)
    /\ UNCHANGED <<podManagerVars, process, nri, queue, pod, kubeletPrepared, made, attached,
                   metadata, faults, forgotten, bypassed, overwritten>>
-------------------------------------------------------------------------------
(***************************************************************************)
(* updateNetworkDeviceDataRunner                                           *)
(***************************************************************************)

\* The item points at the prepared devices of its event, which are the stored
\* ones unless the entry was deleted since.  A claim that cannot be read, or was
\* replaced, is skipped; so is every claim once the context is cancelled.  The
\* checkpoint is written after each, and has what the last write found.
UpdateFor(item) ==
    \E updated \in SUBSET item.claims : \E written \in SUBSET updated :
        /\ \/ /\ updated = item.claims \/ process = "cancelled"
              /\ written = updated
              /\ NoFault
           \/ updated # item.claims /\ written = updated /\ Fault("claim")
           \/ updated = item.claims /\ written # updated /\ Fault("checkpoint")
        /\ LET In(claims) == WithEntries(item.pod, IF item.current THEN claims ELSE {},
                                         item.sandbox)
           IN  /\ preparedClaims' = In(updated)
               /\ checkpoint' = IF written = {} THEN checkpoint ELSE In(written)

UpdateNetworkDeviceData ==
    /\ process \in {"running", "cancelled"} /\ queue # <<>>
    /\ UpdateFor(Head(queue))
    /\ queue' = Tail(queue)
    /\ UNCHANGED <<process, nri, handler, kubeletVars, attached, metadata, historyVars>>
-------------------------------------------------------------------------------
(***************************************************************************)
(* The kubelet                                                             *)
(***************************************************************************)

Schedule(p) ==
    /\ pod[p] = "new" /\ WithinBound
    /\ pod' = [pod EXCEPT ![p] = "active"]
    /\ UNCHANGED <<podManagerVars, pluginVars, kubeletPrepared, sandbox, made, attached,
                   metadata, faults, historyVars>>

Terminate(p) ==
    /\ pod[p] = "active"
    /\ pod' = [pod EXCEPT ![p] = "terminating"]
    /\ UNCHANGED <<podManagerVars, pluginVars, kubeletPrepared, sandbox, made, attached,
                   metadata, faults, historyVars>>

\* Prepared devices carry the network data the driver has stored for them; the
\* helper writes it to the metadata of the claims that were prepared, the first
\* time and every other time.
WriteMetadata(p, claims) ==
    LET keys == IF EnableDeviceMetadata THEN MetadataKeys(claims) ELSE {}
    IN  /\ metadata' = [k \in DOMAIN metadata |->
                          IF k \in keys THEN {preparedClaims'[p][k[1]][1]} ELSE metadata[k]]
        /\ overwritten' = IF sandbox[p].number = 0
                          THEN overwritten \ keys
                          ELSE overwritten \cup {k \in keys : metadata'[k] # metadata[k]}

\* Set, one claim after the other: the checkpoint has what the last write that
\* succeeded found in the map.
Store(p, claims, written) ==
    /\ preparedClaims' = WithEntries(p, claims, 0)
    /\ checkpoint' = IF written = {} THEN checkpoint ELSE WithEntries(p, written, 0)

WantsPrepare(p) == Serving /\ pod[p] = "active" /\ p \notin kubeletPrepared

\* Claims in the map are not prepared again.
Prepare(p) ==
    /\ WantsPrepare(p)
    /\ LET new == Uses[p] \ PreparedFor(p) IN Store(p, new, new)
    /\ WriteMetadata(p, Uses[p])
    /\ kubeletPrepared' = kubeletPrepared \cup {p}
    /\ forgotten' = forgotten \ {p}
    /\ UNCHANGED <<pluginVars, pod, sandbox, made, attached, faults, bypassed, leaked>>

\* Some claims fail, those that were stored when the checkpoint could not be
\* written; they stay in the map.
PrepareFails(p) ==
    /\ WantsPrepare(p)
    /\ Fault("partial")
    /\ \E stored \in SUBSET (Uses[p] \ PreparedFor(p)) : \E written \in SUBSET stored :
       \E done \in SUBSET written :
          /\ done # Uses[p] \ PreparedFor(p)
          /\ done = {} => written = {}
          /\ Store(p, stored, written)
          /\ WriteMetadata(p, PreparedFor(p) \cup done)
    /\ UNCHANGED <<pluginVars, kubeletVars, attached, forgotten, bypassed, leaked>>

\* What points at a deleted entry still writes to it, without effect.
Unlink(p) ==
    /\ queue' = [i \in DOMAIN queue |-> IF queue[i].pod = p
                                        THEN [queue[i] EXCEPT !.current = FALSE] ELSE queue[i]]
    /\ handler' = IF handler.pod = p THEN [handler EXCEPT !.current = FALSE] ELSE handler

\* The pod's CDI file or one of its devices is missing: every claim is unprepared,
\* also in a prepare that was repeated for a running pod.
Rollback(p) ==
    /\ WantsPrepare(p) /\ HasDevices(p)
    /\ Fault("rollback")
    /\ \E c \in PreparedFor(p), ok \in BOOLEAN : DeleteClaim(c, ok)
    /\ Unlink(p)
    /\ forgotten' = forgotten \cup {p}
    /\ UNCHANGED <<process, nri, kubeletVars, attached, metadata, bypassed, leaked, overwritten>>

\* The kubelet forgets what it prepared, and asks again.
KubeletRestart ==
    /\ kubeletPrepared # {}
    /\ Fault("kubelet")
    /\ kubeletPrepared' = {}
    /\ UNCHANGED <<podManagerVars, pluginVars, pod, sandbox, made, attached, metadata,
                   historyVars>>

StartSandbox(p) ==
    /\ pod[p] = "active" /\ p \in kubeletPrepared /\ sandbox[p] = NoSandbox
    /\ made' = made + 1
    /\ sandbox' = [sandbox EXCEPT ![p] = [number |-> made + 1, state |-> "starting"]]
    /\ UNCHANGED <<podManagerVars, pluginVars, pod, kubeletPrepared, attached, metadata, faults,
                   historyVars>>

SandboxDies(p) ==
    /\ sandbox[p].state = "ready"
    /\ Fault("sandbox")
    /\ sandbox' = [sandbox EXCEPT ![p].state = "dead"]
    /\ UNCHANGED <<podManagerVars, pluginVars, pod, kubeletPrepared, made, attached, metadata,
                   historyVars>>

StopSandbox(p) ==
    /\ \/ sandbox[p].state \in {"dead", "failed"}
       \/ sandbox[p].state = "ready" /\ pod[p] = "terminating"
    /\ sandbox' = [sandbox EXCEPT ![p].state = "stopping"]
    /\ UNCHANGED <<podManagerVars, pluginVars, pod, kubeletPrepared, made, attached, metadata,
                   faults, historyVars>>

\* A sandbox that failed to start may be removed without a stop event.
DiscardSandbox(p) ==
    /\ sandbox[p].state = "failed"
    /\ leaked' = leaked \cup {sandbox[p].number}
    /\ sandbox' = [sandbox EXCEPT ![p] = NoSandbox]
    /\ UNCHANGED <<podManagerVars, pluginVars, pod, kubeletPrepared, made, attached, metadata,
                   faults, forgotten, bypassed, overwritten>>

WantsUnprepare(p) == Serving /\ pod[p] = "terminating" /\ sandbox[p] = NoSandbox

\* Bug variant of Unprepare: a claim without an entry is an error.
UnprepareStrict(p) ==
    /\ WantsUnprepare(p) /\ HasDevices(p)
    /\ (\E c \in PreparedFor(p) : DeleteClaim(c, TRUE)) /\ Unlink(p)
    /\ metadata' = [k \in DOMAIN metadata |->
                      IF k \in MetadataKeys(Uses[p]) THEN {} ELSE metadata[k]]
    /\ pod' = [pod EXCEPT ![p] = "gone"]
    /\ kubeletPrepared' = kubeletPrepared \ {p}
    /\ UNCHANGED <<process, nri, sandbox, made, attached, faults, historyVars>>

\* The driver finds nothing to do for a claim it has no entry of.
Unprepare(p) ==
    /\ WantsUnprepare(p)
    /\ IF HasDevices(p)
       THEN (\E c \in PreparedFor(p) : DeleteClaim(c, TRUE)) /\ Unlink(p)
       ELSE UNCHANGED <<podManagerVars, queue, handler>>
    /\ metadata' = [k \in DOMAIN metadata |->
                      IF k \in MetadataKeys(Uses[p]) THEN {} ELSE metadata[k]]
    /\ pod' = [pod EXCEPT ![p] = "gone"]
    /\ kubeletPrepared' = kubeletPrepared \ {p}
    /\ UNCHANGED <<process, nri, sandbox, made, attached, faults, historyVars>>

\* The entry is gone from the map, not from the checkpoint.
UnprepareFails(p) ==
    /\ WantsUnprepare(p) /\ HasDevices(p)
    /\ Fault("checkpoint")
    /\ \E c \in PreparedFor(p) : DeleteClaim(c, FALSE)
    /\ Unlink(p)
    /\ UNCHANGED <<process, nri, kubeletVars, attached, metadata, historyVars>>
-------------------------------------------------------------------------------
Init ==
    /\ PodManagerInit
    /\ process = "down" /\ nri = FALSE /\ handler = NoEvent /\ queue = <<>>
    /\ attached = {} /\ metadata = [k \in MetadataKeys(Claims) |-> {}]
    /\ pod = [p \in Pods |-> "new"] /\ kubeletPrepared = {}
    /\ sandbox = [p \in Pods |-> NoSandbox] /\ made = 0 /\ faults = 0
    /\ forgotten = {} /\ bypassed = {} /\ leaked = {} /\ overwritten = {}

ProcessStep == StartDriver \/ StartNRI \/ Stop \/ Shutdown

HandlerStep ==
    \/ \E d \in Devices : AttachNetwork(d) \/ DetachNetwork(d)
    \/ \E k \in DOMAIN metadata : UpdateRequestMetadata(k)
    \/ Send \/ SendPanics \/ Detached

RuntimeStep(p) ==
    RunPodSandbox(p) \/ RunWithoutPlugin(p) \/ StopPodSandbox(p) \/ StopWithoutPlugin(p)

KubeletStep(p) == Prepare(p) \/ StartSandbox(p) \/ StopSandbox(p) \/ Unprepare(p)

Next ==
    \/ ProcessStep \/ HandlerStep \/ UpdateNetworkDeviceData
    \/ StartFails \/ OnClose \/ CancelMainCtx \/ Crash
    \/ UpdateMetadataFails
    \/ \E d \in Devices : AttachFails(d) \/ DetachFails(d) \/ DetachSkipped(d)
    \/ KubeletRestart
    \/ \E p \in Pods :
          \/ RuntimeStep(p) \/ StopWithoutNamespace(p) \/ KubeletStep(p)
          \/ Schedule(p) \/ Terminate(p) \/ SandboxDies(p) \/ DiscardSandbox(p)
          \/ PrepareFails(p) \/ Rollback(p) \/ UnprepareFails(p)

\* The container is restarted, goroutines run, the runtime and the kubelet go on
\* with what they began.  Nothing makes a user end a pod, or a fault happen.
Fairness ==
    /\ WF_vars(ProcessStep) /\ WF_vars(HandlerStep) /\ WF_vars(UpdateNetworkDeviceData)
    /\ \A p \in Pods : WF_vars(RuntimeStep(p)) /\ WF_vars(KubeletStep(p))

Spec == Init /\ [][Next]_vars /\ Fairness
-------------------------------------------------------------------------------
Event == [op : {"none", "run", "stop"}, pod : Pods, sandbox : Nat, claims : SUBSET Claims,
          todo : SUBSET Devices, keys : SUBSET DOMAIN metadata, current : BOOLEAN,
          lost : BOOLEAN]

Item == [pod : Pods, sandbox : Nat, claims : SUBSET Claims, current : BOOLEAN]

TypeOK ==
    /\ preparedClaims \in [Pods -> [Claims -> {NoEntry} \cup {Entry(n) : n \in 0 .. made}]]
    /\ checkpoint \in [Pods -> [Claims -> {NoEntry} \cup {Entry(n) : n \in 0 .. made}]]
    /\ process \in {"down", "driver", "running", "cancelled", "stopped"}
    /\ nri \in BOOLEAN /\ (nri => process \in {"running", "cancelled"})
    /\ handler \in Event
    /\ Len(queue) <= ChanSize /\ \A i \in DOMAIN queue : queue[i] \in Item
    /\ attached \subseteq (1 .. made) \X Devices
    /\ metadata \in [MetadataKeys(Claims) -> SUBSET (0 .. made)]
    /\ pod \in [Pods -> {"new", "active", "terminating", "gone"}]
    /\ kubeletPrepared \subseteq Pods /\ forgotten \subseteq Pods
    /\ sandbox \in [Pods -> [number : 0 .. made, state : {"none", "starting", "ready", "failed",
                                                          "dead", "stopping"}]]
    /\ made \in Nat /\ faults \in Nat
    /\ bypassed \subseteq 1 .. made /\ leaked \subseteq 1 .. made
    /\ overwritten \subseteq MetadataKeys(Claims)

\* The sandboxes the plugin has started for its pods.
Started(p) == sandbox[p].state = "ready" /\ sandbox[p].number \notin bypassed
              /\ p \notin HostNetwork

\* A sandbox that the plugin let start has every device of the pod's claims,
\* whatever failed, restarted or was retried before: RunPodSandbox returns an error
\* at the first device it cannot attach, and the devices come from the map that
\* the prepare filled.
StartedIsAttached ==
    \A p \in Pods : Started(p) =>
        \A d \in DevicesOf(Uses[p]) : <<sandbox[p].number, d>> \in attached

\* What is attached belongs to a sandbox that still exists, or to one whose end the
\* plugin was not told of, could not finish, or no longer had the entry for: an
\* entry outlives the sandboxes it describes.
StoppedIsDetached ==
    \A x \in attached : x[1] \in leaked \/ \E p \in Pods : sandbox[p].number = x[1]

\* The pod finds the network data of the sandbox it runs in, not that of an earlier
\* one, and finds it at once: the metadata is written before RunPodSandbox returns.
\* Only a repeated prepare can take it away again.
MetadataOfThisSandbox ==
    EnableDeviceMetadata =>
        \A p \in Pods : Started(p) =>
            \A k \in MetadataKeys(Uses[p]) \ overwritten : metadata[k] = {sandbox[p].number}

(***************************************************************************)
(* Faults, and what users do, are bounded: what follows is about the time  *)
(* after the last of them.                                                 *)
(***************************************************************************)

\* The plugin is connected again and stays so: a closed connection cancels the main
\* context, and the restarted process registers.
PluginComesBack == <>[](process = "running" /\ nri)

\* Pods have their sandbox: a full channel, a failed attempt and a lost connection
\* hold it up only for a time.  A pod without a network namespace may wait for ever
\* for a dead sandbox to be stopped.
PodsStart ==
    <>[](\A p \in Pods \ HostNetwork : pod[p] = "active" => sandbox[p].state = "ready")

\* Pods that end are stopped and unprepared, with their entry or without; only a pod
\* without a network namespace depends on the runtime ignoring the error.
PodsEnd ==
    <>[](\A p \in Pods \ HostNetwork : pod[p] # "terminating")
===============================================================================
