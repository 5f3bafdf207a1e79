--------------------------- MODULE PodNetworkProofs ---------------------------
(***************************************************************************)
(* Theorems about PodNetwork: for any number of pods, claims, devices and  *)
(* faults, any capacity of the channel, and any pods without a network     *)
(* namespace.                                                              *)
(***************************************************************************)
EXTENDS PodNetwork, TLAPS

States == {"none", "starting", "ready", "failed", "dead", "stopping"}

\* A map of prepared claims: a pod has entries of its own claims only, and n
\* sandboxes were made.
EntriesOK(map, n) ==
    /\ map \in [Pods -> [Claims -> {NoEntry} \cup {Entry(i) : i \in 0 .. n}]]
    /\ \A p \in Pods, c \in Claims : map[p][c] # NoEntry => c \in Uses[p]

\* The event under way is about one pod, its own claims, devices and files.
EventOK(h, n) ==
    /\ h \in [op : {"none", "run", "stop"}, pod : Pods, sandbox : 0 .. n,
              claims : SUBSET Claims, todo : SUBSET Devices,
              keys : SUBSET MetadataKeys(Claims), current : BOOLEAN, lost : BOOLEAN]
    /\ h.claims \subseteq Uses[h.pod]
    /\ h.todo \subseteq DevicesOf(Uses[h.pod])
    /\ h.keys \subseteq MetadataKeys(Uses[h.pod])
    /\ h.op # "none" => h.sandbox # 0 /\ h.pod \notin HostNetwork

\* So is what waits for the runner.
Items(n) == {x \in [pod : Pods, sandbox : 0 .. n, claims : SUBSET Claims, current : BOOLEAN] :
                x.claims \subseteq Uses[x.pod]}

QueueOK(q, n) == q \in Seq(Items(n)) /\ Len(q) <= ChanSize

\* Every sandbox has a number of its own.
SandboxOK(s, n) ==
    /\ s \in [Pods -> [number : 0 .. n, state : States]]
    /\ \A p \in Pods : s[p].number = 0 <=> s[p].state = "none"
    /\ \A p, q \in Pods : s[p].number = s[q].number /\ s[p].number # 0 => p = q

MetadataOK(m, n) == m \in [MetadataKeys(Claims) -> SUBSET (0 .. n)]

ProcessOK ==
    /\ process \in {"down", "driver", "running", "cancelled", "stopped"}
    /\ nri \in BOOLEAN /\ (nri => process \in {"running", "cancelled"})
    /\ process \in {"down", "driver"} => handler.op = "none"

PodsOK ==
    /\ pod \in [Pods -> {"new", "active", "terminating", "gone"}]
    /\ kubeletPrepared \subseteq Pods /\ \A p \in kubeletPrepared : pod[p] # "new"
    /\ forgotten \subseteq Pods

HistoryOK ==
    /\ attached \subseteq (1 .. made) \X Devices
    /\ bypassed \subseteq 1 .. made /\ leaked \subseteq 1 .. made
    /\ overwritten \subseteq MetadataKeys(Claims)

CountersOK == made \in Nat /\ faults \in Nat

TypeInv ==
    /\ EntriesOK(preparedClaims, made) /\ EntriesOK(checkpoint, made)
    /\ EventOK(handler, made)
    /\ QueueOK(queue, made)
    /\ SandboxOK(sandbox, made)
    /\ MetadataOK(metadata, made)
    /\ ProcessOK /\ PodsOK /\ HistoryOK /\ CountersOK
-------------------------------------------------------------------------------
(***************************************************************************)
(* The operators of the model.                                             *)
(***************************************************************************)

\* The devices of a pod's claims are devices, and more claims have more of them.
LEMMA DevicesFacts ==
    /\ \A A \in SUBSET Claims : DevicesOf(A) \subseteq Devices
    /\ \A A, B \in SUBSET Claims : A \subseteq B => DevicesOf(A) \subseteq DevicesOf(B)
  BY NetworkAssumption DEF DevicesOf

\* A metadata file belongs to one claim.
LEMMA KeysFacts ==
    /\ \A A \in SUBSET Claims : MetadataKeys(A) \subseteq MetadataKeys(Claims)
    /\ \A A \in SUBSET Claims : \A k \in MetadataKeys(A) : k[1] \in A
    /\ \A A, B \in SUBSET Claims : A \subseteq B => MetadataKeys(A) \subseteq MetadataKeys(B)
  BY NetworkAssumption DEF MetadataKeys

\* Two pods share no metadata file.
LEMMA KeysDisjoint ==
    \A p, q \in Pods : p # q => MetadataKeys(Uses[p]) \cap MetadataKeys(Uses[q]) = {}
  BY KeysFacts, NetworkAssumption

\* The claims of a pod are claims.
LEMMA UsesFacts == \A p \in Pods : Uses[p] \in SUBSET Claims
  BY NetworkAssumption

\* A later sandbox disturbs no part of the state.
LEMMA OneMore ==
    ASSUME NEW n \in Nat
    PROVE  /\ \A map : EntriesOK(map, n) => EntriesOK(map, n + 1)
           /\ \A h : EventOK(h, n) => EventOK(h, n + 1)
           /\ \A q : QueueOK(q, n) => QueueOK(q, n + 1)
           /\ \A m : MetadataOK(m, n) => MetadataOK(m, n + 1)
<1>1. 0 .. n \subseteq 0 .. n + 1
  OBVIOUS
<1>2. \A map : EntriesOK(map, n) => EntriesOK(map, n + 1)
  BY <1>1 DEF EntriesOK
<1>3. \A h : EventOK(h, n) => EventOK(h, n + 1)
  BY <1>1 DEF EventOK
<1>4. \A m : MetadataOK(m, n) => MetadataOK(m, n + 1)
  BY <1>1 DEF MetadataOK
<1>5. Items(n) \subseteq Items(n + 1)
  BY <1>1 DEF Items
<1>6. \A q : QueueOK(q, n) => QueueOK(q, n + 1)
  BY <1>5 DEF QueueOK
<1> QED
  BY <1>2, <1>3, <1>4, <1>6

\* No event is under way.
LEMMA NoEventOK ==
    ASSUME NEW n \in Nat
    PROVE  EventOK(NoEvent, n) /\ NoEvent.op = "none"
  BY NetworkAssumption, UsesFacts DEF EventOK, NoEvent

\* An empty channel.
LEMMA NoItemsOK == ASSUME NEW n \in Nat PROVE QueueOK(<<>>, n)
  BY NetworkAssumption DEF QueueOK

\* A pod's sandbox changes its state, or is gone.
LEMMA StateOK ==
    ASSUME NEW n \in Nat, NEW s, SandboxOK(s, n), NEW p \in Pods, s[p].state # "none",
           NEW st \in States \ {"none"}
    PROVE  SandboxOK([s EXCEPT ![p].state = st], n)
  BY DEF SandboxOK, States

\* A sandbox may go.
LEMMA GoneOK ==
    ASSUME NEW n \in Nat, NEW s, SandboxOK(s, n), NEW p \in Pods
    PROVE  SandboxOK([s EXCEPT ![p] = NoSandbox], n)
  BY DEF SandboxOK, States, NoSandbox

\* The sandboxes t are s but for the state of pod p's.
InState(t, s, p, st) ==
    /\ t[p].state = st /\ t[p].number = s[p].number
    /\ \A q \in Pods \ {p} : t[q] = s[q]

\* The sandboxes t are s without that of pod p.
Without(t, s, p) ==
    /\ t[p].state = "none" /\ t[p].number = 0
    /\ \A q \in Pods \ {p} : t[q] = s[q]

\* What changes, and what does not, when a sandbox changes its state.
LEMMA StateIs ==
    ASSUME NEW n, NEW s, SandboxOK(s, n), NEW p \in Pods, NEW st, NEW t,
           t = [s EXCEPT ![p].state = st]
    PROVE  InState(t, s, p, st)
  BY DEF SandboxOK, InState

\* What changes, and what does not, when a sandbox goes.
LEMMA GoneIs ==
    ASSUME NEW n, NEW s, SandboxOK(s, n), NEW p \in Pods, NEW t,
           t = [s EXCEPT ![p] = NoSandbox]
    PROVE  Without(t, s, p)
  BY DEF SandboxOK, NoSandbox, Without

\* A pod gets a new sandbox.
LEMMA MadeOK ==
    ASSUME NEW n \in Nat, NEW s, SandboxOK(s, n), NEW p \in Pods
    PROVE  SandboxOK([s EXCEPT ![p] = [number |-> n + 1, state |-> "starting"]], n + 1)
  BY DEF SandboxOK, States

\* A pod without a sandbox is one whose number is 0.
LEMMA NoSandboxIff ==
    ASSUME NEW n \in Nat, NEW s, SandboxOK(s, n), NEW p \in Pods
    PROVE  s[p] = NoSandbox <=> s[p].number = 0
  BY DEF SandboxOK, NoSandbox, States
-------------------------------------------------------------------------------
(***************************************************************************)
(* The parts of an action.                                                 *)
(***************************************************************************)

\* The event under way and the sandboxes: while the plugin is connected, the
\* runtime waits for the event with the sandbox as it was; a handler that nobody
\* waits for keeps a sandbox that the runtime gives up only as one that is leaked.
LinkInv ==
    handler.op # "none" =>
        /\ handler.lost <=> ~nri
        /\ \A q \in Pods : sandbox[q].number = handler.sandbox => q = handler.pod
        /\ handler.sandbox \in leaked \/ sandbox[handler.pod].number = handler.sandbox
        /\ ~handler.lost =>
              /\ sandbox[handler.pod].number = handler.sandbox
              /\ sandbox[handler.pod].state = IF handler.op = "run" THEN "starting"
                                              ELSE "stopping"
        /\ handler.op = "stop" /\ sandbox[handler.pod].number = handler.sandbox =>
              sandbox[handler.pod].state = "stopping"
        /\ handler.op = "run" => ~Started(handler.pod)

\* An event begins with the entries of its pod.
LEMMA BeginOK ==
    ASSUME TypeInv, NEW p \in Pods, sandbox[p].state # "none", p \notin HostNetwork,
           NEW op \in {"run", "stop"}, Begin(op, p)
    PROVE  /\ EventOK(handler', made)
           /\ handler'.op = op /\ handler'.pod = p /\ handler'.sandbox = sandbox[p].number
           /\ handler'.todo = DevicesOf(PreparedFor(p))
           /\ op = "run" /\ EnableDeviceMetadata => handler'.keys = MetadataKeys(PreparedFor(p))
           /\ ~handler'.lost
<1>1. PreparedFor(p) \in SUBSET Claims /\ PreparedFor(p) \subseteq Uses[p]
  BY DEF TypeInv, EntriesOK, PreparedFor, Get
<1>2. /\ DevicesOf(PreparedFor(p)) \subseteq DevicesOf(Uses[p])
      /\ DevicesOf(PreparedFor(p)) \subseteq Devices
  BY <1>1, UsesFacts, DevicesFacts
<1>3. /\ MetadataKeys(PreparedFor(p)) \subseteq MetadataKeys(Uses[p])
      /\ MetadataKeys(PreparedFor(p)) \subseteq MetadataKeys(Claims)
  BY <1>1, UsesFacts, KeysFacts
<1>4. sandbox[p].number \in 0 .. made /\ sandbox[p].number # 0
  BY DEF TypeInv, SandboxOK
<1> QED
  BY <1>1, <1>2, <1>3, <1>4 DEF Begin, EventOK

\* The same event, as far as the runtime can tell.
Continues(g, h) ==
    g.op = h.op /\ g.pod = h.pod /\ g.sandbox = h.sandbox /\ g.claims = h.claims

\* An event is done with one device.
LEMMA TodoStep ==
    ASSUME NEW n, NEW h, EventOK(h, n), NEW d, NEW g, g = [h EXCEPT !.todo = @ \ {d}]
    PROVE  /\ EventOK(g, n) /\ Continues(g, h) /\ g.lost = h.lost
           /\ g.todo = h.todo \ {d} /\ g.keys = h.keys
  BY DEF EventOK, Continues

\* An event is done with one metadata file.
LEMMA KeysStep ==
    ASSUME NEW n, NEW h, EventOK(h, n), NEW k, NEW g, g = [h EXCEPT !.keys = @ \ {k}]
    PROVE  /\ EventOK(g, n) /\ Continues(g, h) /\ g.lost = h.lost
           /\ g.todo = h.todo /\ g.keys = h.keys \ {k}
  BY DEF EventOK, Continues

\* A handler loses its connection.
LEMMA OrphanedOK ==
    ASSUME NEW n, EventOK(handler, n)
    PROVE  /\ EventOK(Orphaned, n)
           /\ Continues(Orphaned, handler) /\ Orphaned.todo = handler.todo
           /\ handler.op # "none" => Orphaned.lost
  BY DEF Orphaned, EventOK, Continues

\* What points at an entry that was deleted loses it.
LEMMA UnlinkOK ==
    ASSUME TypeInv, NEW p \in Pods, Unlink(p)
    PROVE  /\ EventOK(handler', made) /\ QueueOK(queue', made)
           /\ Continues(handler', handler) /\ handler'.lost = handler.lost
           /\ handler'.todo = handler.todo /\ handler'.keys = handler.keys
<1>1. queue \in Seq(Items(made)) /\ Len(queue) <= ChanSize /\ DOMAIN queue = 1 .. Len(queue)
  BY DEF TypeInv, QueueOK
<1>2. \A x \in Items(made) : [x EXCEPT !.current = FALSE] \in Items(made)
  BY DEF Items
<1>3. /\ DOMAIN queue' = 1 .. Len(queue)
      /\ \A i \in 1 .. Len(queue) : queue'[i] \in Items(made)
  BY <1>1, <1>2 DEF Unlink
<1>4. queue' \in [1 .. Len(queue) -> Items(made)] /\ Len(queue) \in Nat
  BY <1>1, <1>3 DEF Unlink
<1>5. queue' \in Seq(Items(made)) /\ Len(queue') = Len(queue)
  BY <1>4
<1>6. /\ EventOK(handler', made)
      /\ Continues(handler', handler) /\ handler'.lost = handler.lost
      /\ handler'.todo = handler.todo /\ handler'.keys = handler.keys
  BY DEF TypeInv, Unlink, EventOK, Continues
<1> QED
  BY <1>1, <1>5, <1>6 DEF QueueOK

\* The connection is lost.
LEMMA DisconnectOK ==
    ASSUME TypeInv, LinkInv, Disconnect
    PROVE  /\ SandboxOK(sandbox', made) /\ nri' = FALSE
           /\ bypassed' \subseteq 1 .. made /\ leaked' \subseteq 1 .. made
<1>1. CASE handler.op = "none" \/ handler.lost
  BY <1>1 DEF Disconnect, TypeInv, HistoryOK
<1>2. CASE handler.op # "none" /\ ~handler.lost
  <2>1. /\ handler.pod \in Pods /\ sandbox[handler.pod].state # "none"
        /\ handler.sandbox \in 1 .. made
    BY <1>2 DEF TypeInv, EventOK, LinkInv, CountersOK
  <2>2. SandboxOK(sandbox, made) /\ made \in Nat /\ bypassed \subseteq 1 .. made
        /\ leaked \subseteq 1 .. made /\ {"ready", "failed"} \subseteq States \ {"none"}
    BY DEF TypeInv, CountersOK, HistoryOK, States
  <2>3. /\ SandboxOK([sandbox EXCEPT ![handler.pod].state = "ready"], made)
        /\ SandboxOK([sandbox EXCEPT ![handler.pod].state = "failed"], made)
        /\ SandboxOK([sandbox EXCEPT ![handler.pod] = NoSandbox], made)
    BY <2>1, <2>2, StateOK, GoneOK
  <2> QED
    BY <1>2, <2>1, <2>2, <2>3 DEF Disconnect
<1> QED
  BY <1>1, <1>2

\* The handler returns.
LEMMA ReturnOK ==
    ASSUME TypeInv, LinkInv, NEW op \in {"run", "stop"}, handler.op = op, NEW ok \in BOOLEAN,
           Return(op, ok)
    PROVE  /\ SandboxOK(sandbox', made) /\ EventOK(handler', made) /\ handler'.op = "none"
           /\ leaked' \subseteq 1 .. made
<1>1. SandboxOK(sandbox, made) /\ made \in Nat
      /\ leaked \subseteq 1 .. made /\ {"ready", "failed"} \subseteq States \ {"none"}
  BY DEF TypeInv, CountersOK, HistoryOK, States
<1>2. EventOK(handler', made) /\ handler'.op = "none"
  BY <1>1, NoEventOK DEF Return
<1>3. CASE handler.lost
  BY <1>1, <1>2, <1>3 DEF Return
<1>4. CASE ~handler.lost
  <2>1. /\ handler.pod \in Pods /\ sandbox[handler.pod].state # "none"
        /\ handler.sandbox \in 1 .. made
    BY <1>4 DEF TypeInv, EventOK, LinkInv, CountersOK
  <2>2. /\ SandboxOK([sandbox EXCEPT ![handler.pod].state = "ready"], made)
        /\ SandboxOK([sandbox EXCEPT ![handler.pod].state = "failed"], made)
        /\ SandboxOK([sandbox EXCEPT ![handler.pod] = NoSandbox], made)
    BY <1>1, <2>1, StateOK, GoneOK
  <2> QED
    BY <1>1, <1>2, <1>4, <2>1, <2>2 DEF Return
<1> QED
  BY <1>3, <1>4

\* An entry is not the absence of one.
LEMMA EntryIsEntry == \A i : Entry(i) # NoEntry /\ Entry(i)[1] = i
  BY DEF Entry, NoEntry

\* Entries of a pod's own claims are stored; none is lost.
LEMMA WithEntriesOK ==
    ASSUME NEW n \in Nat, EntriesOK(preparedClaims, n), NEW p \in Pods,
           NEW claims \in SUBSET Uses[p], NEW i \in 0 .. n
    PROVE  /\ EntriesOK(WithEntries(p, claims, i), n)
           /\ \A q \in Pods, c \in Claims :
                 Get(q, c) => WithEntries(p, claims, i)[q][c] # NoEntry
           /\ \A c \in claims : WithEntries(p, claims, i)[p][c] # NoEntry
<1>1. \A q \in Pods, c \in Claims :
        WithEntries(p, claims, i)[q][c] = IF q = p /\ c \in claims THEN Entry(i)
                                          ELSE preparedClaims[q][c]
  BY DEF WithEntries, EntriesOK
<1>2. WithEntries(p, claims, i)
        \in [Pods -> [Claims -> {NoEntry} \cup {Entry(j) : j \in 0 .. n}]]
  BY DEF WithEntries, EntriesOK
<1>3. \A q \in Pods, c \in Claims : WithEntries(p, claims, i)[q][c] # NoEntry => c \in Uses[q]
  BY <1>1 DEF EntriesOK
<1> QED
  BY <1>1, <1>2, <1>3, EntryIsEntry, UsesFacts DEF EntriesOK, Get

\* The entries of one pod are deleted, whichever claim it was asked for.
LEMMA DeleteOK ==
    ASSUME TypeInv, NEW p \in Pods, NEW c \in PreparedFor(p), NEW ok \in BOOLEAN,
           DeleteClaim(c, ok)
    PROVE  /\ EntriesOK(preparedClaims', made) /\ EntriesOK(checkpoint', made)
           /\ \A q \in Pods \ {p} : preparedClaims'[q] = preparedClaims[q]
<1>1. c \in Claims /\ Get(p, c)
  BY DEF PreparedFor
<1>2. PICK r \in PodsWithClaim(c) : preparedClaims' = [preparedClaims EXCEPT ![r] = NoClaims]
  BY DEF DeleteClaim
<1>3. r = p
  BY <1>1, NetworkAssumption DEF PodsWithClaim, Get, TypeInv, EntriesOK
<1>4. EntriesOK(preparedClaims', made) /\ \A q \in Pods \ {p} : preparedClaims'[q] = preparedClaims[q]
  BY <1>2, <1>3 DEF TypeInv, EntriesOK, NoClaims
<1>5. checkpoint' \in {checkpoint, preparedClaims'}
  BY DEF DeleteClaim, syncToCheckpoint
<1> QED
  BY <1>4, <1>5 DEF TypeInv

\* The prepared devices of a pod's own claims go to its metadata.
LEMMA WriteMetadataOK ==
    ASSUME TypeInv, NEW p \in Pods, EntriesOK(preparedClaims', made), NEW claims \in SUBSET Uses[p],
           \A c \in claims : preparedClaims'[p][c] # NoEntry, WriteMetadata(p, claims)
    PROVE  /\ MetadataOK(metadata', made) /\ overwritten' \subseteq MetadataKeys(Claims)
           /\ \A k \in MetadataKeys(Claims) \ MetadataKeys(Uses[p]) :
                 metadata'[k] = metadata[k] /\ (k \in overwritten' <=> k \in overwritten)
           /\ sandbox[p].number # 0 => \A k \in MetadataKeys(Claims) :
                 k \in overwritten' \/ (metadata'[k] = metadata[k] /\ k \notin overwritten)
<1> DEFINE keys == IF EnableDeviceMetadata THEN MetadataKeys(claims) ELSE {}
<1>1. claims \in SUBSET Claims /\ Uses[p] \in SUBSET Claims
  BY UsesFacts
<1>2. /\ keys \subseteq MetadataKeys(Claims) /\ keys \subseteq MetadataKeys(Uses[p])
      /\ \A k \in keys : k[1] \in claims
  BY <1>1, KeysFacts
<1>3. \A c \in claims : preparedClaims'[p][c][1] \in 0 .. made
  BY <1>1, EntryIsEntry DEF EntriesOK
<1>4. DOMAIN metadata = MetadataKeys(Claims) /\ \A k \in MetadataKeys(Claims) : metadata[k] \in SUBSET (0 .. made)
  BY DEF TypeInv, MetadataOK
<1>5. metadata' = [k \in MetadataKeys(Claims) |->
                     IF k \in keys THEN {preparedClaims'[p][k[1]][1]} ELSE metadata[k]]
  BY <1>4 DEF WriteMetadata
<1>6. overwritten' = IF sandbox[p].number = 0 THEN overwritten \ keys
                     ELSE overwritten \cup {k \in keys : metadata'[k] # metadata[k]}
  BY DEF WriteMetadata
<1>7. overwritten \subseteq MetadataKeys(Claims)
  BY DEF TypeInv, HistoryOK
<1> HIDE DEF keys
<1>8. MetadataOK(metadata', made)
  BY <1>2, <1>3, <1>4, <1>5 DEF MetadataOK
<1> QED
  BY <1>2, <1>5, <1>6, <1>7, <1>8

\* The runner stores the network data of one item.
LEMMA UpdateForOK ==
    ASSUME TypeInv, NEW x \in Items(made), UpdateFor(x)
    PROVE  /\ EntriesOK(preparedClaims', made) /\ EntriesOK(checkpoint', made)
           /\ \A p \in Pods, c \in Claims : Get(p, c) => preparedClaims'[p][c] # NoEntry
           /\ faults' \in Nat
<1> DEFINE In(claims) == WithEntries(x.pod, IF x.current THEN claims ELSE {}, x.sandbox)
<1>1. PICK updated \in SUBSET x.claims, written \in SUBSET x.claims :
        /\ preparedClaims' = In(updated)
        /\ checkpoint' = IF written = {} THEN checkpoint ELSE In(written)
  BY DEF UpdateFor
<1>2. x.pod \in Pods /\ x.claims \subseteq Uses[x.pod] /\ x.sandbox \in 0 .. made /\ made \in Nat
  BY DEF Items, TypeInv, CountersOK
<1>3. \A claims \in SUBSET x.claims : EntriesOK(In(claims), made)
  BY <1>2, WithEntriesOK DEF TypeInv
<1>4. \A p \in Pods, c \in Claims : Get(p, c) => In(updated)[p][c] # NoEntry
  BY <1>2, WithEntriesOK DEF TypeInv
<1>5. faults' \in Nat
  BY DEF UpdateFor, NoFault, Fault, TypeInv, CountersOK
<1> QED
  BY <1>1, <1>3, <1>4, <1>5 DEF TypeInv

\* Prepared claims are stored.
LEMMA StoreOK ==
    ASSUME TypeInv, NEW p \in Pods, NEW claims \in SUBSET Uses[p], NEW written \in SUBSET Uses[p],
           Store(p, claims, written)
    PROVE  /\ EntriesOK(preparedClaims', made) /\ EntriesOK(checkpoint', made)
           /\ \A q \in Pods, c \in Claims : Get(q, c) => preparedClaims'[q][c] # NoEntry
           /\ \A c \in claims : preparedClaims'[p][c] # NoEntry
<1>1. made \in Nat /\ 0 \in 0 .. made /\ EntriesOK(preparedClaims, made) /\ EntriesOK(checkpoint, made)
  BY DEF TypeInv, CountersOK
<1>2. EntriesOK(WithEntries(p, claims, 0), made) /\ EntriesOK(WithEntries(p, written, 0), made)
  BY <1>1, WithEntriesOK
<1>3. \A q \in Pods, c \in Claims : Get(q, c) => WithEntries(p, claims, 0)[q][c] # NoEntry
  BY <1>1, WithEntriesOK
<1>4. \A c \in claims : WithEntries(p, claims, 0)[p][c] # NoEntry
  BY <1>1, WithEntriesOK
<1> QED
  BY <1>1, <1>2, <1>3, <1>4 DEF Store

\* The event's result is sent to the runner.
LEMMA SendOK ==
    ASSUME TypeInv, LinkInv, Send
    PROVE  /\ QueueOK(queue', made) /\ SandboxOK(sandbox', made) /\ EventOK(handler', made)
           /\ handler'.op = "none" /\ leaked' \subseteq 1 .. made
<1> DEFINE x == [pod |-> handler.pod, sandbox |-> handler.sandbox,
                 claims |-> handler.claims, current |-> handler.current]
<1>1. x \in Items(made)
  BY DEF TypeInv, EventOK, Items
<1>2. queue \in Seq(Items(made)) /\ Len(queue) < ChanSize /\ queue' = Append(queue, x)
  BY DEF TypeInv, QueueOK, Send
<1>3. QueueOK(queue', made)
  <2> HIDE DEF x
  <2> QED BY <1>1, <1>2, NetworkAssumption DEF QueueOK
<1>4. SandboxOK(sandbox', made) /\ EventOK(handler', made) /\ handler'.op = "none"
      /\ leaked' \subseteq 1 .. made
  BY ReturnOK DEF Send, Handling
<1> QED
  BY <1>3, <1>4
-------------------------------------------------------------------------------
(***************************************************************************)
(* The state stays within its types.                                       *)
(***************************************************************************)

\* Every step of the process, the handler, the runner, the runtime and the kubelet
\* leaves every part of the state well formed.
LEMMA TypeStep ==
    ASSUME TypeInv, LinkInv, Next
    PROVE  TypeInv'
<1> USE DEF podManagerVars, pluginVars, kubeletVars, historyVars
<1>1. CASE StartDriver
  BY <1>1 DEF StartDriver, Load, TypeInv, ProcessOK, PodsOK, HistoryOK, CountersOK
<1>2. CASE StartNRI
  BY <1>2 DEF StartNRI, TypeInv, ProcessOK, PodsOK, HistoryOK, CountersOK
<1>3. CASE Stop
  <2>1. SandboxOK(sandbox', made) /\ nri' = FALSE /\ bypassed' \subseteq 1 .. made
        /\ leaked' \subseteq 1 .. made
    BY <1>3, DisconnectOK DEF Stop
  <2>2. EventOK(handler', made) /\ handler'.op \in {handler.op, "none"}
    BY <1>3, OrphanedOK DEF Stop, TypeInv, Continues
  <2> QED
    BY <1>3, <2>1, <2>2 DEF Stop, TypeInv, ProcessOK, PodsOK, HistoryOK, CountersOK
<1>4. CASE Shutdown
  BY <1>4, NoEventOK, NoItemsOK DEF Shutdown, Exit, TypeInv, ProcessOK, PodsOK, HistoryOK,
     CountersOK
<1>5. CASE Send
  BY <1>5, SendOK DEF Send, TypeInv, ProcessOK, PodsOK, HistoryOK, CountersOK
<1>6. CASE SendPanics
  BY <1>6, NoEventOK, NoItemsOK DEF SendPanics, Exit, TypeInv, ProcessOK, PodsOK, HistoryOK,
     CountersOK
<1>7. CASE Detached
  <2>1. EventOK(handler', made) /\ handler'.op = "none" /\ SandboxOK(sandbox', made)
        /\ leaked' \subseteq 1 .. made
    BY <1>7, ReturnOK DEF Detached, Handling
  <2> QED
    BY <1>7, <2>1 DEF Detached, TypeInv, ProcessOK, PodsOK, HistoryOK, CountersOK
<1>8. CASE UpdateNetworkDeviceData
  <2>1. queue \in Seq(Items(made)) /\ queue # <<>> /\ Len(queue) <= ChanSize
    BY <1>8 DEF UpdateNetworkDeviceData, TypeInv, QueueOK
  <2>2. Head(queue) \in Items(made) /\ QueueOK(Tail(queue), made)
    BY <2>1, NetworkAssumption DEF QueueOK
  <2>3. EntriesOK(preparedClaims', made) /\ EntriesOK(checkpoint', made) /\ faults' \in Nat
    BY <1>8, <2>2, UpdateForOK DEF UpdateNetworkDeviceData
  <2> QED
    BY <1>8, <2>1, <2>2, <2>3 DEF UpdateNetworkDeviceData, TypeInv, ProcessOK, PodsOK,
       HistoryOK, CountersOK
<1>9. CASE StartFails
  BY <1>9, NoEventOK, NoItemsOK DEF StartFails, Exit, Fault, TypeInv, ProcessOK, PodsOK,
     HistoryOK, CountersOK
<1>10. CASE OnClose
  <2>1. faults' \in Nat /\ made' = made
    BY <1>10 DEF OnClose, Fault, TypeInv, CountersOK
  <2>2. SandboxOK(sandbox', made) /\ nri' = FALSE /\ bypassed' \subseteq 1 .. made
        /\ leaked' \subseteq 1 .. made
    BY <1>10, DisconnectOK DEF OnClose
  <2>3. EventOK(handler', made) /\ handler'.op \in {handler.op, "none"}
    BY <1>10, OrphanedOK DEF OnClose, TypeInv, Continues
  <2> QED
    BY <1>10, <2>1, <2>2, <2>3 DEF OnClose, TypeInv, ProcessOK, PodsOK, HistoryOK, CountersOK
<1>11. CASE CancelMainCtx
  BY <1>11 DEF CancelMainCtx, Fault, TypeInv, ProcessOK, PodsOK, HistoryOK, CountersOK
<1>12. CASE Crash
  <2>1. faults' \in Nat /\ made' = made
    BY <1>12 DEF Crash, Fault, TypeInv, CountersOK
  <2>2. SandboxOK(sandbox', made) /\ nri' = FALSE /\ bypassed' \subseteq 1 .. made
        /\ leaked' \subseteq 1 .. made
    BY <1>12, DisconnectOK DEF Crash
  <2> QED
    BY <1>12, <2>1, <2>2, NoEventOK, NoItemsOK DEF Crash, Exit, TypeInv, ProcessOK, PodsOK,
       HistoryOK, CountersOK
<1>13. CASE UpdateMetadataFails
  <2>1. EventOK(handler', made) /\ handler'.op = "none" /\ SandboxOK(sandbox', made)
        /\ leaked' \subseteq 1 .. made
    BY <1>13, ReturnOK DEF UpdateMetadataFails, Handling
  <2> QED
    BY <1>13, <2>1 DEF UpdateMetadataFails, Fault, TypeInv, ProcessOK, PodsOK, HistoryOK,
       CountersOK
<1>14. CASE KubeletRestart
  BY <1>14 DEF KubeletRestart, Fault, TypeInv, ProcessOK, PodsOK, HistoryOK, CountersOK
<1>15. ASSUME NEW d \in Devices, AttachNetwork(d) PROVE TypeInv'
  <2>1. handler.sandbox \in 1 .. made
    BY <1>15 DEF AttachNetwork, Handling, TypeInv, EventOK, CountersOK
  <2>2. EventOK(handler', made) /\ handler'.op = handler.op
    BY <1>15, TodoStep DEF AttachNetwork, TypeInv, Continues
  <2> QED
    BY <1>15, <2>1, <2>2 DEF AttachNetwork, TypeInv, ProcessOK, PodsOK, HistoryOK, CountersOK
<1>16. ASSUME NEW d \in Devices, DetachNetwork(d) PROVE TypeInv'
  <2>1. EventOK(handler', made) /\ handler'.op = handler.op
    BY <1>16, TodoStep DEF DetachNetwork, TypeInv, Continues
  <2> QED
    BY <1>16, <2>1 DEF DetachNetwork, TypeInv, ProcessOK, PodsOK, HistoryOK, CountersOK
<1>17. ASSUME NEW d \in Devices, AttachFails(d) PROVE TypeInv'
  <2>1. handler.sandbox \in 1 .. made
    BY <1>17 DEF AttachFails, Handling, TypeInv, EventOK, CountersOK
  <2>2. EventOK(handler', made) /\ handler'.op = "none" /\ SandboxOK(sandbox', made)
        /\ leaked' \subseteq 1 .. made
    BY <1>17, ReturnOK DEF AttachFails, Handling
  <2> QED
    BY <1>17, <2>1, <2>2 DEF AttachFails, Fault, TypeInv, ProcessOK, PodsOK, HistoryOK,
       CountersOK
<1>18. ASSUME NEW d \in Devices, DetachFails(d) PROVE TypeInv'
  <2>1. EventOK(handler', made) /\ handler'.op = "none" /\ SandboxOK(sandbox', made)
        /\ leaked' \subseteq 1 .. made
    BY <1>18, ReturnOK DEF DetachFails, Handling
  <2> QED
    BY <1>18, <2>1 DEF DetachFails, Fault, TypeInv, ProcessOK, PodsOK, HistoryOK, CountersOK
<1>19. ASSUME NEW d \in Devices, DetachSkipped(d) PROVE TypeInv'
  <2>1. handler.sandbox \in 1 .. made
    BY <1>19 DEF DetachSkipped, Handling, TypeInv, EventOK, CountersOK
  <2>2. EventOK(handler', made) /\ handler'.op = handler.op
    BY <1>19, TodoStep DEF DetachSkipped, TypeInv, Continues
  <2> QED
    BY <1>19, <2>1, <2>2 DEF DetachSkipped, Fault, TypeInv, ProcessOK, PodsOK, HistoryOK,
       CountersOK
<1>20. ASSUME NEW k \in DOMAIN metadata, UpdateRequestMetadata(k) PROVE TypeInv'
  <2>1. handler.sandbox \in 0 .. made
    BY DEF TypeInv, EventOK
  <2>2. EventOK(handler', made) /\ handler'.op = handler.op
    BY <1>20, KeysStep DEF UpdateRequestMetadata, TypeInv, Continues
  <2>3. MetadataOK(metadata', made)
    BY <1>20, <2>1 DEF UpdateRequestMetadata, TypeInv, MetadataOK
  <2> QED
    BY <1>20, <2>1, <2>2, <2>3 DEF UpdateRequestMetadata, TypeInv, ProcessOK, PodsOK,
       HistoryOK, CountersOK
<1>21. ASSUME NEW p \in Pods, RunPodSandbox(p) PROVE TypeInv'
  <2>1. SandboxOK(sandbox, made) /\ made \in Nat /\ sandbox[p].number \in 0 .. made
    BY DEF TypeInv, CountersOK, SandboxOK
  <2>2. sandbox[p].state # "none" /\ sandbox[p].number \in 1 .. made
    BY <1>21 DEF RunPodSandbox, Deliver, TypeInv, SandboxOK, CountersOK
  <2>3. SandboxOK([sandbox EXCEPT ![p].state = "ready"], made)
    BY <2>1, <2>2, StateOK DEF States
  <2>4. handler' = handler \/ EventOK(handler', made)
    BY <1>21, <2>2, BeginOK DEF RunPodSandbox
  <2>5. process \notin {"down", "driver"}
    BY <1>21 DEF RunPodSandbox, Deliver, TypeInv, ProcessOK
  <2> QED
    BY <1>21, <2>1, <2>2, <2>3, <2>4, <2>5 DEF RunPodSandbox, Unknown, TypeInv, ProcessOK,
       PodsOK, HistoryOK, CountersOK
<1>22. ASSUME NEW p \in Pods, RunWithoutPlugin(p) PROVE TypeInv'
  <2>1. SandboxOK(sandbox, made) /\ made \in Nat /\ sandbox[p].number \in 0 .. made
    BY DEF TypeInv, CountersOK, SandboxOK
  <2>2. sandbox[p].state # "none" /\ sandbox[p].number \in 1 .. made
    BY <1>22 DEF RunWithoutPlugin, Deliver, TypeInv, SandboxOK, CountersOK
  <2>3. SandboxOK([sandbox EXCEPT ![p].state = "ready"], made)
    BY <2>1, <2>2, StateOK DEF States
  <2> QED
    BY <1>22, <2>1, <2>2, <2>3 DEF RunWithoutPlugin, TypeInv, ProcessOK, PodsOK, HistoryOK,
       CountersOK
<1>23. ASSUME NEW p \in Pods, StopPodSandbox(p) PROVE TypeInv'
  <2>1. SandboxOK(sandbox, made) /\ made \in Nat /\ sandbox[p].number \in 0 .. made
    BY DEF TypeInv, CountersOK, SandboxOK
  <2>2. sandbox[p].state # "none" /\ sandbox[p].number \in 1 .. made
    BY <1>23 DEF StopPodSandbox, Deliver, TypeInv, SandboxOK, CountersOK
  <2>3. SandboxOK([sandbox EXCEPT ![p] = NoSandbox], made)
    BY <2>1, GoneOK
  <2>4. handler' = handler \/ EventOK(handler', made)
    BY <1>23, <2>2, BeginOK DEF StopPodSandbox
  <2>5. process \notin {"down", "driver"}
    BY <1>23 DEF StopPodSandbox, Deliver, TypeInv, ProcessOK
  <2> QED
    BY <1>23, <2>1, <2>2, <2>3, <2>4, <2>5 DEF StopPodSandbox, Unknown, TypeInv, ProcessOK,
       PodsOK, HistoryOK, CountersOK
<1>24. ASSUME NEW p \in Pods, StopWithoutPlugin(p) PROVE TypeInv'
  <2>1. SandboxOK(sandbox, made) /\ made \in Nat /\ sandbox[p].number \in 0 .. made
    BY DEF TypeInv, CountersOK, SandboxOK
  <2>2. sandbox[p].state # "none" /\ sandbox[p].number \in 1 .. made
    BY <1>24 DEF StopWithoutPlugin, Deliver, TypeInv, SandboxOK, CountersOK
  <2>3. SandboxOK([sandbox EXCEPT ![p] = NoSandbox], made)
    BY <2>1, GoneOK
  <2> QED
    BY <1>24, <2>1, <2>2, <2>3 DEF StopWithoutPlugin, TypeInv, ProcessOK, PodsOK, HistoryOK,
       CountersOK
<1>25. ASSUME NEW p \in Pods, Prepare(p) PROVE TypeInv'
  <2>1. PreparedFor(p) \subseteq Uses[p] /\ Uses[p] \subseteq Claims
    BY UsesFacts DEF TypeInv, EntriesOK, PreparedFor, Get
  <2>2. /\ EntriesOK(preparedClaims', made) /\ EntriesOK(checkpoint', made)
        /\ \A c \in Uses[p] : preparedClaims'[p][c] # NoEntry
    BY <1>25, <2>1, StoreOK DEF Prepare, PreparedFor
  <2>3. MetadataOK(metadata', made) /\ overwritten' \subseteq MetadataKeys(Claims)
    BY <1>25, <2>2, WriteMetadataOK DEF Prepare
  <2> QED
    BY <1>25, <2>1, <2>2, <2>3 DEF Prepare, WantsPrepare, TypeInv, ProcessOK, PodsOK,
       HistoryOK, CountersOK
<1>26. ASSUME NEW p \in Pods, StartSandbox(p) PROVE TypeInv'
  <2>1. SandboxOK(sandbox, made) /\ made \in Nat /\ sandbox[p].number \in 0 .. made
    BY DEF TypeInv, CountersOK, SandboxOK
  <2>2. SandboxOK(sandbox', made') /\ made' = made + 1
    BY <1>26, <2>1, MadeOK DEF StartSandbox
  <2>3. /\ EntriesOK(preparedClaims, made + 1) /\ EntriesOK(checkpoint, made + 1)
        /\ EventOK(handler, made + 1) /\ QueueOK(queue, made + 1)
              /\ MetadataOK(metadata, made + 1)
    BY <2>1, OneMore DEF TypeInv
  <2>4. 1 .. made \subseteq 1 .. made + 1
    BY <2>1
  <2> QED
    BY <1>26, <2>1, <2>2, <2>3, <2>4 DEF StartSandbox, TypeInv, ProcessOK, PodsOK, HistoryOK,
       CountersOK
<1>27. ASSUME NEW p \in Pods, StopSandbox(p) PROVE TypeInv'
  <2>1. SandboxOK(sandbox, made) /\ made \in Nat /\ sandbox[p].number \in 0 .. made
    BY DEF TypeInv, CountersOK, SandboxOK
  <2>2. sandbox[p].state # "none" /\ sandbox[p].number \in 1 .. made
    BY <1>27 DEF StopSandbox, Deliver, TypeInv, SandboxOK, CountersOK
  <2>3. SandboxOK([sandbox EXCEPT ![p].state = "stopping"], made)
    BY <2>1, <2>2, StateOK DEF States
  <2> QED
    BY <1>27, <2>1, <2>2, <2>3 DEF StopSandbox, TypeInv, ProcessOK, PodsOK, HistoryOK,
       CountersOK
<1>28. ASSUME NEW p \in Pods, Unprepare(p) PROVE TypeInv'
  <2>1. EntriesOK(preparedClaims', made) /\ EntriesOK(checkpoint', made)
    BY <1>28, DeleteOK DEF Unprepare, TypeInv
  <2>2. EventOK(handler', made) /\ QueueOK(queue', made) /\ handler'.op = handler.op
    BY <1>28, UnlinkOK DEF Unprepare, TypeInv, Continues
  <2>3. MetadataOK(metadata', made)
    BY <1>28 DEF Unprepare, TypeInv, MetadataOK
  <2> QED
    BY <1>28, <2>1, <2>2, <2>3 DEF Unprepare, TypeInv, ProcessOK, PodsOK, HistoryOK, CountersOK
<1>29. ASSUME NEW p \in Pods, StopWithoutNamespace(p) PROVE TypeInv'
  <2>1. SandboxOK(sandbox, made) /\ made \in Nat /\ sandbox[p].number \in 0 .. made
    BY DEF TypeInv, CountersOK, SandboxOK
  <2>2. SandboxOK([sandbox EXCEPT ![p] = NoSandbox], made)
    BY <2>1, GoneOK
  <2> QED
    BY <1>29, <2>1, <2>2 DEF StopWithoutNamespace, TypeInv, ProcessOK, PodsOK, HistoryOK,
       CountersOK
<1>30. ASSUME NEW p \in Pods, Schedule(p) PROVE TypeInv'
  BY <1>30 DEF Schedule, TypeInv, ProcessOK, PodsOK, HistoryOK, CountersOK
<1>31. ASSUME NEW p \in Pods, Terminate(p) PROVE TypeInv'
  BY <1>31 DEF Terminate, TypeInv, ProcessOK, PodsOK, HistoryOK, CountersOK
<1>32. ASSUME NEW p \in Pods, SandboxDies(p) PROVE TypeInv'
  <2>1. SandboxOK(sandbox, made) /\ made \in Nat /\ sandbox[p].number \in 0 .. made
    BY DEF TypeInv, CountersOK, SandboxOK
  <2>2. sandbox[p].state # "none" /\ sandbox[p].number \in 1 .. made
    BY <1>32 DEF SandboxDies, Deliver, TypeInv, SandboxOK, CountersOK
  <2>3. SandboxOK([sandbox EXCEPT ![p].state = "dead"], made)
    BY <2>1, <2>2, StateOK DEF States
  <2> QED
    BY <1>32, <2>1, <2>2, <2>3 DEF SandboxDies, Fault, TypeInv, ProcessOK, PodsOK, HistoryOK,
       CountersOK
<1>33. ASSUME NEW p \in Pods, DiscardSandbox(p) PROVE TypeInv'
  <2>1. SandboxOK(sandbox, made) /\ made \in Nat /\ sandbox[p].number \in 0 .. made
    BY DEF TypeInv, CountersOK, SandboxOK
  <2>2. sandbox[p].state # "none" /\ sandbox[p].number \in 1 .. made
    BY <1>33 DEF DiscardSandbox, Deliver, TypeInv, SandboxOK, CountersOK
  <2>3. SandboxOK([sandbox EXCEPT ![p] = NoSandbox], made)
    BY <2>1, GoneOK
  <2> QED
    BY <1>33, <2>1, <2>2, <2>3 DEF DiscardSandbox, TypeInv, ProcessOK, PodsOK, HistoryOK,
       CountersOK
<1>34. ASSUME NEW p \in Pods, PrepareFails(p) PROVE TypeInv'
  <2>1. PreparedFor(p) \subseteq Uses[p] /\ Uses[p] \subseteq Claims
    BY UsesFacts DEF TypeInv, EntriesOK, PreparedFor, Get
  <2>2. PICK stored \in SUBSET Uses[p], written \in SUBSET Uses[p], done \in SUBSET Uses[p] :
           done \subseteq stored /\ Store(p, stored, written)
                 /\ WriteMetadata(p, PreparedFor(p) \cup done)
    BY <1>34 DEF PrepareFails
  <2>3. /\ EntriesOK(preparedClaims', made) /\ EntriesOK(checkpoint', made)
        /\ \A c \in PreparedFor(p) \cup done : preparedClaims'[p][c] # NoEntry
    BY <2>1, <2>2, StoreOK DEF PreparedFor
  <2>4. MetadataOK(metadata', made) /\ overwritten' \subseteq MetadataKeys(Claims)
    BY <2>1, <2>2, <2>3, WriteMetadataOK
  <2> QED
    BY <1>34, <2>1, <2>2, <2>3, <2>4 DEF PrepareFails, Fault, TypeInv, ProcessOK, PodsOK,
       HistoryOK, CountersOK
<1>35. ASSUME NEW p \in Pods, Rollback(p) PROVE TypeInv'
  <2>1. EntriesOK(preparedClaims', made) /\ EntriesOK(checkpoint', made)
    BY <1>35, DeleteOK DEF Rollback
  <2>2. EventOK(handler', made) /\ QueueOK(queue', made) /\ handler'.op = handler.op
    BY <1>35, UnlinkOK DEF Rollback, Continues
  <2> QED
    BY <1>35, <2>1, <2>2 DEF Rollback, Fault, TypeInv, ProcessOK, PodsOK, HistoryOK, CountersOK
<1>36. ASSUME NEW p \in Pods, UnprepareFails(p) PROVE TypeInv'
  <2>1. EntriesOK(preparedClaims', made) /\ EntriesOK(checkpoint', made)
    BY <1>36, DeleteOK DEF UnprepareFails
  <2>2. EventOK(handler', made) /\ QueueOK(queue', made) /\ handler'.op = handler.op
    BY <1>36, UnlinkOK DEF UnprepareFails, Continues
  <2> QED
    BY <1>36, <2>1, <2>2 DEF UnprepareFails, Fault, TypeInv, ProcessOK, PodsOK, HistoryOK,
       CountersOK
<1> QED
  BY <1>1, <1>2, <1>3, <1>4, <1>5, <1>6, <1>7, <1>8, <1>9, <1>10, <1>11, <1>12, <1>13, <1>14,
     <1>15, <1>16, <1>17, <1>18, <1>19, <1>20, <1>21, <1>22, <1>23, <1>24, <1>25, <1>26, <1>27,
     <1>28, <1>29, <1>30, <1>31, <1>32, <1>33, <1>34, <1>35, <1>36 DEF Next, ProcessStep,
     HandlerStep, RuntimeStep, KubeletStep
-------------------------------------------------------------------------------
(***************************************************************************)
(* The event under way and its sandbox.                                    *)
(***************************************************************************)

\* A handler that loses its connection leaves a sandbox that is given up, or goes
\* on without its devices.
LEMMA DisconnectLink ==
    ASSUME TypeInv, LinkInv, Disconnect, handler' = Orphaned
    PROVE  LinkInv'
<1>1. CASE handler.op = "none" \/ handler.lost
  BY <1>1, OrphanedOK DEF Disconnect, LinkInv, Started, Continues, TypeInv
<1>2. CASE handler.op # "none" /\ ~handler.lost
  <2>1. /\ SandboxOK(sandbox, made) /\ made \in Nat /\ EventOK(handler, made)
        /\ handler.pod \in Pods /\ handler.op \in {"run", "stop"}
        /\ sandbox[handler.pod].state # "none" /\ sandbox[handler.pod].number = handler.sandbox
        /\ \A q \in Pods : sandbox[q].number = handler.sandbox => q = handler.pod
        /\ handler.op = "stop" => sandbox[handler.pod].state = "stopping"
    BY <1>2 DEF TypeInv, CountersOK, EventOK, LinkInv
  <2>2. Continues(handler', handler) /\ handler'.lost = TRUE /\ nri' = FALSE
    BY <1>2, OrphanedOK DEF TypeInv, Disconnect, Orphaned, EventOK
  <2>3. \/ /\ handler.op = "run" /\ InState(sandbox', sandbox, handler.pod, "ready")
           /\ handler.sandbox \in bypassed' /\ leaked' = leaked
        \/ /\ handler.op = "run" /\ InState(sandbox', sandbox, handler.pod, "failed")
           /\ leaked' = leaked
        \/ /\ handler.op = "stop" /\ Without(sandbox', sandbox, handler.pod)
           /\ handler.sandbox \in leaked'
        \/ handler.op = "stop" /\ sandbox' = sandbox /\ leaked' = leaked
    BY <1>2, <2>1, StateIs, GoneIs DEF Disconnect
  <2> QED
    BY <1>2, <2>1, <2>2, <2>3 DEF LinkInv, Started, Continues, EventOK, InState, Without
<1> QED
  BY <1>1, <1>2

\* Every step keeps the event under way and its sandbox together.
LEMMA LinkStep ==
    ASSUME TypeInv, LinkInv, Next
    PROVE  LinkInv'
<1> USE DEF podManagerVars, pluginVars, kubeletVars, historyVars
<1>1. CASE StartDriver
  <2>1. handler.op = "none"
    BY <1>1 DEF StartDriver, TypeInv, ProcessOK
  <2> QED
    BY <1>1, <2>1 DEF StartDriver, LinkInv, Started
<1>2. CASE StartNRI
  <2>1. handler.op = "none"
    BY <1>2 DEF StartNRI, TypeInv, ProcessOK
  <2> QED
    BY <1>2, <2>1 DEF StartNRI, LinkInv, Started
<1>3. CASE Stop
  BY <1>3, DisconnectLink DEF Stop, LinkInv, Started
<1>4. CASE Shutdown
  <2>1. made \in Nat
    BY DEF TypeInv, CountersOK
  <2> QED
    BY <1>4, <2>1, NoEventOK DEF Shutdown, Exit, LinkInv, Started
<1>5. CASE Send
  BY <1>5, SendOK DEF Send, LinkInv, Started
<1>6. CASE SendPanics
  <2>1. made \in Nat
    BY DEF TypeInv, CountersOK
  <2> QED
    BY <1>6, <2>1, NoEventOK DEF SendPanics, Exit, LinkInv, Started
<1>7. CASE Detached
  <2>1. handler'.op = "none"
    BY <1>7, ReturnOK DEF Detached, Handling
  <2> QED
    BY <1>7, <2>1 DEF Detached, LinkInv, Started
<1>8. CASE UpdateNetworkDeviceData
  BY <1>8 DEF UpdateNetworkDeviceData, LinkInv, Started
<1>9. CASE StartFails
  <2>1. made \in Nat
    BY DEF TypeInv, CountersOK
  <2> QED
    BY <1>9, <2>1, NoEventOK DEF StartFails, Exit, LinkInv, Started
<1>10. CASE OnClose
  BY <1>10, DisconnectLink DEF OnClose, LinkInv, Started
<1>11. CASE CancelMainCtx
  BY <1>11 DEF CancelMainCtx, LinkInv, Started
<1>12. CASE Crash
  <2>1. made \in Nat
    BY DEF TypeInv, CountersOK
  <2> QED
    BY <1>12, <2>1, NoEventOK DEF Crash, Exit, LinkInv, Started
<1>13. CASE UpdateMetadataFails
  <2>1. handler'.op = "none"
    BY <1>13, ReturnOK DEF UpdateMetadataFails, Handling
  <2> QED
    BY <1>13, <2>1 DEF UpdateMetadataFails, LinkInv, Started
<1>14. CASE KubeletRestart
  BY <1>14 DEF KubeletRestart, LinkInv, Started
<1>15. ASSUME NEW d \in Devices, AttachNetwork(d) PROVE LinkInv'
  <2>1. Continues(handler', handler) /\ handler'.lost = handler.lost
    BY <1>15, TodoStep DEF AttachNetwork, TypeInv
  <2> QED
    BY <1>15, <2>1 DEF AttachNetwork, Continues, LinkInv, Started
<1>16. ASSUME NEW d \in Devices, DetachNetwork(d) PROVE LinkInv'
  <2>1. Continues(handler', handler) /\ handler'.lost = handler.lost
    BY <1>16, TodoStep DEF DetachNetwork, TypeInv
  <2> QED
    BY <1>16, <2>1 DEF DetachNetwork, Continues, LinkInv, Started
<1>17. ASSUME NEW d \in Devices, AttachFails(d) PROVE LinkInv'
  <2>1. handler'.op = "none"
    BY <1>17, ReturnOK DEF AttachFails, Handling
  <2> QED
    BY <1>17, <2>1 DEF AttachFails, LinkInv, Started
<1>18. ASSUME NEW d \in Devices, DetachFails(d) PROVE LinkInv'
  <2>1. handler'.op = "none"
    BY <1>18, ReturnOK DEF DetachFails, Handling
  <2> QED
    BY <1>18, <2>1 DEF DetachFails, LinkInv, Started
<1>19. ASSUME NEW d \in Devices, DetachSkipped(d) PROVE LinkInv'
  <2>1. Continues(handler', handler) /\ handler'.lost = handler.lost
    BY <1>19, TodoStep DEF DetachSkipped, TypeInv
  <2> QED
    BY <1>19, <2>1 DEF DetachSkipped, Continues, LinkInv, Started
<1>20. ASSUME NEW k \in DOMAIN metadata, UpdateRequestMetadata(k) PROVE LinkInv'
  <2>1. Continues(handler', handler) /\ handler'.lost = handler.lost
    BY <1>20, KeysStep DEF UpdateRequestMetadata, TypeInv
  <2> QED
    BY <1>20, <2>1 DEF UpdateRequestMetadata, Continues, LinkInv, Started
<1>21. ASSUME NEW p \in Pods, RunPodSandbox(p) PROVE LinkInv'
  <2>1. SandboxOK(sandbox, made) /\ made \in Nat /\ EventOK(handler, made)
    BY DEF TypeInv, CountersOK
  <2>2. sandbox[p].state # "none" /\ sandbox[p].number # 0
    BY <1>21, <2>1 DEF RunPodSandbox, Deliver, SandboxOK
  <2>3. CASE HasDevices(p) /\ p \notin HostNetwork
    BY <1>21, <2>1, <2>2, <2>3, BeginOK DEF RunPodSandbox, Deliver, SandboxOK, LinkInv, Started
  <2>4. CASE ~(HasDevices(p) /\ p \notin HostNetwork)
    BY <1>21, <2>4 DEF RunPodSandbox, Deliver, LinkInv
  <2> QED
    BY <1>21, <2>1, <2>2, <2>3, <2>4 DEF RunPodSandbox, LinkInv, Started
<1>22. ASSUME NEW p \in Pods, RunWithoutPlugin(p) PROVE LinkInv'
  <2>1. SandboxOK(sandbox, made) /\ made \in Nat /\ EventOK(handler, made)
    BY DEF TypeInv, CountersOK
  <2>2. sandbox[p].state # "none" /\ sandbox[p].number # 0
    BY <1>22, <2>1 DEF RunWithoutPlugin, Deliver, SandboxOK
  <2>3. InState(sandbox', sandbox, p, "ready")
    BY <1>22, <2>1, <2>2, StateIs DEF RunWithoutPlugin
  <2> QED
    BY <1>22, <2>1, <2>2, <2>3 DEF RunWithoutPlugin, EventOK, LinkInv, Started, InState
<1>23. ASSUME NEW p \in Pods, StopPodSandbox(p) PROVE LinkInv'
  <2>1. SandboxOK(sandbox, made) /\ made \in Nat /\ EventOK(handler, made)
    BY DEF TypeInv, CountersOK
  <2>2. sandbox[p].state # "none" /\ sandbox[p].number # 0
    BY <1>23, <2>1 DEF StopPodSandbox, Deliver, SandboxOK
  <2>3. CASE HasDevices(p)
    BY <1>23, <2>1, <2>2, <2>3, BeginOK DEF StopPodSandbox, Deliver, SandboxOK, LinkInv, Started
  <2>4. CASE ~HasDevices(p)
    BY <1>23, <2>4 DEF StopPodSandbox, Deliver, LinkInv
  <2> QED
    BY <1>23, <2>1, <2>2, <2>3, <2>4 DEF StopPodSandbox, LinkInv, Started
<1>24. ASSUME NEW p \in Pods, StopWithoutPlugin(p) PROVE LinkInv'
  <2>1. SandboxOK(sandbox, made) /\ made \in Nat /\ EventOK(handler, made)
    BY DEF TypeInv, CountersOK
  <2>2. sandbox[p].state # "none" /\ sandbox[p].number # 0
    BY <1>24, <2>1 DEF StopWithoutPlugin, Deliver, SandboxOK
  <2>3. Without(sandbox', sandbox, p)
    BY <1>24, <2>1, GoneIs DEF StopWithoutPlugin
  <2> QED
    BY <1>24, <2>1, <2>2, <2>3 DEF StopWithoutPlugin, EventOK, LinkInv, Started, Without
<1>25. ASSUME NEW p \in Pods, Prepare(p) PROVE LinkInv'
  BY <1>25 DEF Prepare, LinkInv, Started
<1>26. ASSUME NEW p \in Pods, StartSandbox(p) PROVE LinkInv'
  <2>1. SandboxOK(sandbox, made) /\ made \in Nat /\ EventOK(handler, made)
    BY DEF TypeInv, CountersOK
  <2>2. /\ sandbox'[p].state = "starting" /\ sandbox'[p].number = made + 1
        /\ \A q \in Pods \ {p} : sandbox'[q] = sandbox[q]
    BY <1>26, <2>1 DEF StartSandbox, SandboxOK
  <2>3. sandbox[p].number = 0 /\ handler.sandbox # made + 1
    BY <1>26, <2>1, NoSandboxIff DEF StartSandbox, EventOK
  <2> QED
    BY <1>26, <2>1, <2>2, <2>3 DEF StartSandbox, EventOK, LinkInv, Started
<1>27. ASSUME NEW p \in Pods, StopSandbox(p) PROVE LinkInv'
  <2>1. SandboxOK(sandbox, made) /\ made \in Nat /\ EventOK(handler, made)
    BY DEF TypeInv, CountersOK
  <2>2. sandbox[p].state # "none" /\ sandbox[p].number # 0
    BY <1>27, <2>1 DEF StopSandbox, Deliver, SandboxOK
  <2>3. InState(sandbox', sandbox, p, "stopping")
    BY <1>27, <2>1, <2>2, StateIs DEF StopSandbox
  <2> QED
    BY <1>27, <2>1, <2>2, <2>3 DEF StopSandbox, EventOK, LinkInv, Started, InState
<1>28. ASSUME NEW p \in Pods, Unprepare(p) PROVE LinkInv'
  <2>1. Continues(handler', handler) /\ handler'.lost = handler.lost
    BY <1>28, UnlinkOK DEF Unprepare, Continues
  <2> QED
    BY <1>28, <2>1 DEF Unprepare, Continues, LinkInv, Started
<1>29. ASSUME NEW p \in Pods, StopWithoutNamespace(p) PROVE LinkInv'
  BY <1>29 DEF StopWithoutNamespace, Deliver, LinkInv, Started
<1>30. ASSUME NEW p \in Pods, Schedule(p) PROVE LinkInv'
  BY <1>30 DEF Schedule, LinkInv, Started
<1>31. ASSUME NEW p \in Pods, Terminate(p) PROVE LinkInv'
  BY <1>31 DEF Terminate, LinkInv, Started
<1>32. ASSUME NEW p \in Pods, SandboxDies(p) PROVE LinkInv'
  <2>1. SandboxOK(sandbox, made) /\ made \in Nat /\ EventOK(handler, made)
    BY DEF TypeInv, CountersOK
  <2>2. sandbox[p].state # "none" /\ sandbox[p].number # 0
    BY <1>32, <2>1 DEF SandboxDies, Deliver, SandboxOK
  <2>3. InState(sandbox', sandbox, p, "dead")
    BY <1>32, <2>1, <2>2, StateIs DEF SandboxDies
  <2> QED
    BY <1>32, <2>1, <2>2, <2>3 DEF SandboxDies, EventOK, LinkInv, Started, InState
<1>33. ASSUME NEW p \in Pods, DiscardSandbox(p) PROVE LinkInv'
  <2>1. SandboxOK(sandbox, made) /\ made \in Nat /\ EventOK(handler, made)
    BY DEF TypeInv, CountersOK
  <2>2. sandbox[p].state # "none" /\ sandbox[p].number # 0
    BY <1>33, <2>1 DEF DiscardSandbox, Deliver, SandboxOK
  <2>3. Without(sandbox', sandbox, p)
    BY <1>33, <2>1, GoneIs DEF DiscardSandbox
  <2> QED
    BY <1>33, <2>1, <2>2, <2>3 DEF DiscardSandbox, EventOK, LinkInv, Started, Without
<1>34. ASSUME NEW p \in Pods, PrepareFails(p) PROVE LinkInv'
  BY <1>34 DEF PrepareFails, LinkInv, Started
<1>35. ASSUME NEW p \in Pods, Rollback(p) PROVE LinkInv'
  <2>1. Continues(handler', handler) /\ handler'.lost = handler.lost
    BY <1>35, UnlinkOK DEF Rollback, Continues
  <2> QED
    BY <1>35, <2>1 DEF Rollback, Continues, LinkInv, Started
<1>36. ASSUME NEW p \in Pods, UnprepareFails(p) PROVE LinkInv'
  <2>1. Continues(handler', handler) /\ handler'.lost = handler.lost
    BY <1>36, UnlinkOK DEF UnprepareFails, Continues
  <2> QED
    BY <1>36, <2>1 DEF UnprepareFails, Continues, LinkInv, Started
<1> QED
  BY <1>1, <1>2, <1>3, <1>4, <1>5, <1>6, <1>7, <1>8, <1>9, <1>10, <1>11, <1>12, <1>13, <1>14,
     <1>15, <1>16, <1>17, <1>18, <1>19, <1>20, <1>21, <1>22, <1>23, <1>24, <1>25, <1>26, <1>27,
     <1>28, <1>29, <1>30, <1>31, <1>32, <1>33, <1>34, <1>35, <1>36 DEF Next, ProcessStep,
     HandlerStep, RuntimeStep, KubeletStep
-------------------------------------------------------------------------------
(***************************************************************************)
(* The entries that the driver still needs.                                *)
(***************************************************************************)

\* A pod that has a sandbox, or may get one.
Needed(p) == sandbox[p].number # 0 \/ (pod[p] = "active" /\ p \in kubeletPrepared)

\* Unless it was dropped, the entry of such a pod is complete.
CompleteInv ==
    \A p \in Pods : Needed(p) /\ p \notin forgotten => Uses[p] \subseteq PreparedFor(p)

\* No pod gets a sandbox in this step.
NoneMade == \A q \in Pods : sandbox'[q].number # 0 => sandbox'[q].number = sandbox[q].number

\* What becomes of the sandboxes when the connection is lost.
LEMMA DisconnectIs ==
    ASSUME TypeInv, Disconnect
    PROVE  /\ NoneMade
           /\ \/ /\ handler.op = "none" \/ handler.lost
                 /\ sandbox' = sandbox /\ bypassed' = bypassed /\ leaked' = leaked
              \/ /\ handler.op = "run" /\ ~handler.lost
                 /\ InState(sandbox', sandbox, handler.pod, "ready")
                 /\ bypassed' = bypassed \cup {handler.sandbox} /\ leaked' = leaked
              \/ /\ handler.op = "run" /\ ~handler.lost
                 /\ InState(sandbox', sandbox, handler.pod, "failed")
                 /\ bypassed' = bypassed /\ leaked' = leaked
              \/ /\ handler.op = "stop" /\ ~handler.lost
                 /\ Without(sandbox', sandbox, handler.pod)
                 /\ bypassed' = bypassed /\ leaked' = leaked \cup {handler.sandbox}
              \/ /\ handler.op = "stop" /\ ~handler.lost
                 /\ sandbox' = sandbox /\ bypassed' = bypassed /\ leaked' = leaked
<1>1. SandboxOK(sandbox, made) /\ handler.pod \in Pods
  BY DEF TypeInv, EventOK
<1> QED
  BY <1>1, StateIs, GoneIs DEF Disconnect, NoneMade, InState, Without

\* What becomes of them when a handler returns.
LEMMA ReturnIs ==
    ASSUME TypeInv, NEW op, NEW ok, Return(op, ok)
    PROVE  /\ NoneMade
           /\ \/ handler.lost /\ sandbox' = sandbox /\ leaked' = leaked
              \/ /\ ~handler.lost /\ op = "run" /\ leaked' = leaked
                 /\ InState(sandbox', sandbox, handler.pod, IF ok THEN "ready" ELSE "failed")
              \/ /\ ~handler.lost /\ op = "stop"
                 /\ Without(sandbox', sandbox, handler.pod)
                 /\ leaked' = IF ok THEN leaked ELSE leaked \cup {handler.sandbox}
              \/ /\ ~handler.lost /\ op = "stop" /\ ~ok
                 /\ sandbox' = sandbox /\ leaked' = leaked
<1>1. SandboxOK(sandbox, made) /\ handler.pod \in Pods
  BY DEF TypeInv, EventOK
<1> QED
  BY <1>1, StateIs, GoneIs DEF Return, NoneMade, InState, Without

\* Every step keeps the entries that are needed: only a rollback and a restart lose
\* one, and those are on record.
LEMMA CompleteStep ==
    ASSUME TypeInv, LinkInv, CompleteInv, Next
    PROVE  CompleteInv'
<1> USE DEF podManagerVars, pluginVars, kubeletVars, historyVars
<1>1. CASE StartDriver
  BY <1>1 DEF StartDriver, Load, CompleteInv, Needed, PreparedFor, Get
<1>2. CASE StartNRI
  BY <1>2 DEF StartNRI, CompleteInv, Needed, PreparedFor, Get
<1>3. CASE Stop
  <2>1. NoneMade
    BY <1>3, DisconnectIs DEF Stop, Handling
  <2> QED
    BY <1>3, <2>1 DEF Stop, NoneMade, CompleteInv, Needed, PreparedFor, Get
<1>4. CASE Shutdown
  BY <1>4 DEF Shutdown, CompleteInv, Needed, PreparedFor, Get
<1>5. CASE Send
  <2>1. NoneMade
    BY <1>5, ReturnIs DEF Send, Handling
  <2> QED
    BY <1>5, <2>1 DEF Send, NoneMade, CompleteInv, Needed, PreparedFor, Get
<1>6. CASE SendPanics
  BY <1>6 DEF SendPanics, CompleteInv, Needed, PreparedFor, Get
<1>7. CASE Detached
  <2>1. NoneMade
    BY <1>7, ReturnIs DEF Detached, Handling
  <2> QED
    BY <1>7, <2>1 DEF Detached, NoneMade, CompleteInv, Needed, PreparedFor, Get
<1>8. CASE UpdateNetworkDeviceData
  <2>1. Head(queue) \in Items(made)
    BY <1>8 DEF UpdateNetworkDeviceData, TypeInv, QueueOK
  <2>2. \A q \in Pods, k \in Claims : Get(q, k) => preparedClaims'[q][k] # NoEntry
    BY <1>8, <2>1, UpdateForOK DEF UpdateNetworkDeviceData
  <2> QED
    BY <1>8, <2>1, <2>2 DEF UpdateNetworkDeviceData, CompleteInv, Needed, PreparedFor, Get
<1>9. CASE StartFails
  BY <1>9 DEF StartFails, CompleteInv, Needed, PreparedFor, Get
<1>10. CASE OnClose
  <2>1. NoneMade
    BY <1>10, DisconnectIs DEF OnClose, Handling
  <2> QED
    BY <1>10, <2>1 DEF OnClose, NoneMade, CompleteInv, Needed, PreparedFor, Get
<1>11. CASE CancelMainCtx
  BY <1>11 DEF CancelMainCtx, CompleteInv, Needed, PreparedFor, Get
<1>12. CASE Crash
  <2>1. NoneMade
    BY <1>12, DisconnectIs DEF Crash, Handling
  <2> QED
    BY <1>12, <2>1 DEF Crash, NoneMade, CompleteInv, Needed, PreparedFor, Get
<1>13. CASE UpdateMetadataFails
  <2>1. NoneMade
    BY <1>13, ReturnIs DEF UpdateMetadataFails, Handling
  <2> QED
    BY <1>13, <2>1 DEF UpdateMetadataFails, NoneMade, CompleteInv, Needed, PreparedFor, Get
<1>14. CASE KubeletRestart
  BY <1>14 DEF KubeletRestart, CompleteInv, Needed, PreparedFor, Get
<1>15. ASSUME NEW d \in Devices, AttachNetwork(d) PROVE CompleteInv'
  BY <1>15 DEF AttachNetwork, CompleteInv, Needed, PreparedFor, Get
<1>16. ASSUME NEW d \in Devices, DetachNetwork(d) PROVE CompleteInv'
  BY <1>16 DEF DetachNetwork, CompleteInv, Needed, PreparedFor, Get
<1>17. ASSUME NEW d \in Devices, AttachFails(d) PROVE CompleteInv'
  <2>1. NoneMade
    BY <1>17, ReturnIs DEF AttachFails, Handling
  <2> QED
    BY <1>17, <2>1 DEF AttachFails, NoneMade, CompleteInv, Needed, PreparedFor, Get
<1>18. ASSUME NEW d \in Devices, DetachFails(d) PROVE CompleteInv'
  <2>1. NoneMade
    BY <1>18, ReturnIs DEF DetachFails, Handling
  <2> QED
    BY <1>18, <2>1 DEF DetachFails, NoneMade, CompleteInv, Needed, PreparedFor, Get
<1>19. ASSUME NEW d \in Devices, DetachSkipped(d) PROVE CompleteInv'
  BY <1>19 DEF DetachSkipped, CompleteInv, Needed, PreparedFor, Get
<1>20. ASSUME NEW k \in DOMAIN metadata, UpdateRequestMetadata(k) PROVE CompleteInv'
  BY <1>20 DEF UpdateRequestMetadata, CompleteInv, Needed, PreparedFor, Get
<1>21. ASSUME NEW p \in Pods, RunPodSandbox(p) PROVE CompleteInv'
  <2>1. NoneMade
    BY <1>21, StateIs, GoneIs DEF RunPodSandbox, TypeInv, NoneMade, InState, Without
  <2> QED
    BY <1>21, <2>1 DEF RunPodSandbox, NoneMade, CompleteInv, Needed, PreparedFor, Get
<1>22. ASSUME NEW p \in Pods, RunWithoutPlugin(p) PROVE CompleteInv'
  <2>1. NoneMade
    BY <1>22, StateIs, GoneIs DEF RunWithoutPlugin, TypeInv, NoneMade, InState, Without
  <2> QED
    BY <1>22, <2>1 DEF RunWithoutPlugin, NoneMade, CompleteInv, Needed, PreparedFor, Get
<1>23. ASSUME NEW p \in Pods, StopPodSandbox(p) PROVE CompleteInv'
  <2>1. NoneMade
    BY <1>23, StateIs, GoneIs DEF StopPodSandbox, TypeInv, NoneMade, InState, Without
  <2> QED
    BY <1>23, <2>1 DEF StopPodSandbox, NoneMade, CompleteInv, Needed, PreparedFor, Get
<1>24. ASSUME NEW p \in Pods, StopWithoutPlugin(p) PROVE CompleteInv'
  <2>1. NoneMade
    BY <1>24, StateIs, GoneIs DEF StopWithoutPlugin, TypeInv, NoneMade, InState, Without
  <2> QED
    BY <1>24, <2>1 DEF StopWithoutPlugin, NoneMade, CompleteInv, Needed, PreparedFor, Get
<1>25. ASSUME NEW p \in Pods, Prepare(p) PROVE CompleteInv'
  <2>1. PreparedFor(p) \subseteq Uses[p] /\ Uses[p] \subseteq Claims
    BY UsesFacts DEF TypeInv, EntriesOK, PreparedFor, Get
  <2>2. /\ \A q \in Pods, c \in Claims : Get(q, c) => preparedClaims'[q][c] # NoEntry
        /\ \A c \in Uses[p] : preparedClaims'[p][c] # NoEntry
    BY <1>25, <2>1, StoreOK DEF Prepare, PreparedFor
  <2>3. \A q \in Pods : Uses[q] \subseteq Claims
    BY UsesFacts
  <2> QED
    BY <1>25, <2>1, <2>2, <2>3 DEF Prepare, CompleteInv, Needed, PreparedFor, Get
<1>26. ASSUME NEW p \in Pods, StartSandbox(p) PROVE CompleteInv'
  <2>1. \A q \in Pods \ {p} : sandbox'[q] = sandbox[q]
    BY <1>26 DEF StartSandbox, TypeInv, SandboxOK
  <2> QED
    BY <1>26, <2>1 DEF StartSandbox, CompleteInv, Needed, PreparedFor, Get
<1>27. ASSUME NEW p \in Pods, StopSandbox(p) PROVE CompleteInv'
  <2>1. NoneMade
    BY <1>27, StateIs, GoneIs DEF StopSandbox, TypeInv, NoneMade, InState, Without
  <2> QED
    BY <1>27, <2>1 DEF StopSandbox, NoneMade, CompleteInv, Needed, PreparedFor, Get
<1>28. ASSUME NEW p \in Pods, Unprepare(p) PROVE CompleteInv'
  <2>1. sandbox[p].number = 0
    BY <1>28, NoSandboxIff DEF Unprepare, WantsUnprepare, TypeInv, CountersOK
  <2>2. \A q \in Pods \ {p} : preparedClaims'[q] = preparedClaims[q]
    BY <1>28, DeleteOK DEF Unprepare
  <2> QED
    BY <1>28, <2>1, <2>2 DEF Unprepare, CompleteInv, Needed, PreparedFor, Get
<1>29. ASSUME NEW p \in Pods, StopWithoutNamespace(p) PROVE CompleteInv'
  <2>1. NoneMade
    BY <1>29, StateIs, GoneIs DEF StopWithoutNamespace, TypeInv, NoneMade, InState, Without
  <2> QED
    BY <1>29, <2>1 DEF StopWithoutNamespace, NoneMade, CompleteInv, Needed, PreparedFor, Get
<1>30. ASSUME NEW p \in Pods, Schedule(p) PROVE CompleteInv'
  <2>1. \A q \in Pods \ {p} : pod'[q] = pod[q]
    BY <1>30 DEF Schedule, TypeInv, PodsOK
  <2>2. p \notin kubeletPrepared
    BY <1>30 DEF Schedule, TypeInv, PodsOK
  <2> QED
    BY <1>30, <2>1, <2>2 DEF Schedule, CompleteInv, Needed, PreparedFor, Get
<1>31. ASSUME NEW p \in Pods, Terminate(p) PROVE CompleteInv'
  <2>1. /\ pod'[p] = "terminating" /\ \A q \in Pods \ {p} : pod'[q] = pod[q]
    BY <1>31 DEF Terminate, TypeInv, PodsOK
  <2> QED
    BY <1>31, <2>1 DEF Terminate, CompleteInv, Needed, PreparedFor, Get
<1>32. ASSUME NEW p \in Pods, SandboxDies(p) PROVE CompleteInv'
  <2>1. NoneMade
    BY <1>32, StateIs, GoneIs DEF SandboxDies, TypeInv, NoneMade, InState, Without
  <2> QED
    BY <1>32, <2>1 DEF SandboxDies, NoneMade, CompleteInv, Needed, PreparedFor, Get
<1>33. ASSUME NEW p \in Pods, DiscardSandbox(p) PROVE CompleteInv'
  <2>1. NoneMade
    BY <1>33, StateIs, GoneIs DEF DiscardSandbox, TypeInv, NoneMade, InState, Without
  <2> QED
    BY <1>33, <2>1 DEF DiscardSandbox, NoneMade, CompleteInv, Needed, PreparedFor, Get
<1>34. ASSUME NEW p \in Pods, PrepareFails(p) PROVE CompleteInv'
  <2>1. PICK stored \in SUBSET Uses[p], written \in SUBSET Uses[p] : Store(p, stored, written)
    BY <1>34, UsesFacts DEF PrepareFails
  <2>2. \A q \in Pods, c \in Claims : Get(q, c) => preparedClaims'[q][c] # NoEntry
    BY <2>1, StoreOK
  <2> QED
    BY <1>34, <2>1, <2>2 DEF PrepareFails, CompleteInv, Needed, PreparedFor, Get
<1>35. ASSUME NEW p \in Pods, Rollback(p) PROVE CompleteInv'
  <2>1. \A q \in Pods \ {p} : preparedClaims'[q] = preparedClaims[q]
    BY <1>35, DeleteOK DEF Rollback
  <2> QED
    BY <1>35, <2>1 DEF Rollback, CompleteInv, Needed, PreparedFor, Get
<1>36. ASSUME NEW p \in Pods, UnprepareFails(p) PROVE CompleteInv'
  <2>1. sandbox[p].number = 0 /\ pod[p] = "terminating"
    BY <1>36, NoSandboxIff DEF UnprepareFails, WantsUnprepare, TypeInv, CountersOK
  <2>2. \A q \in Pods \ {p} : preparedClaims'[q] = preparedClaims[q]
    BY <1>36, DeleteOK DEF UnprepareFails
  <2> QED
    BY <1>36, <2>1, <2>2 DEF UnprepareFails, CompleteInv, Needed, PreparedFor, Get
<1> QED
  BY <1>1, <1>2, <1>3, <1>4, <1>5, <1>6, <1>7, <1>8, <1>9, <1>10, <1>11, <1>12, <1>13, <1>14,
     <1>15, <1>16, <1>17, <1>18, <1>19, <1>20, <1>21, <1>22, <1>23, <1>24, <1>25, <1>26, <1>27,
     <1>28, <1>29, <1>30, <1>31, <1>32, <1>33, <1>34, <1>35, <1>36 DEF Next, ProcessStep,
     HandlerStep, RuntimeStep, KubeletStep
-------------------------------------------------------------------------------
(***************************************************************************)
(* A started sandbox has its devices.                                      *)
(***************************************************************************)

\* A start event that the runtime waits for has attached what is not left to do.
AttachInv ==
    /\ StartedIsAttached
    /\ handler.op = "run" /\ ~handler.lost /\ handler.sandbox \notin bypassed =>
          \A d \in DevicesOf(Uses[handler.pod]) \ handler.todo :
              <<handler.sandbox, d>> \in attached

\* Every step keeps it: the entry is complete when the event begins, and nothing is
\* detached from a sandbox that runs.
LEMMA AttachStep ==
    ASSUME TypeInv, LinkInv, CompleteInv, AttachInv, Next
    PROVE  AttachInv'
<1> USE DEF podManagerVars, pluginVars, kubeletVars, historyVars
<1>1. CASE StartDriver
  BY <1>1 DEF StartDriver, AttachInv, StartedIsAttached, Started
<1>2. CASE StartNRI
  BY <1>2 DEF StartNRI, AttachInv, StartedIsAttached, Started
<1>3. CASE Stop
  <2>1. /\ handler.pod \in Pods /\ SandboxOK(sandbox, made) /\ EventOK(handler, made)
        /\ made \in Nat /\ handler.op \in {"none", "run", "stop"}
    BY DEF TypeInv, EventOK, CountersOK
  <2>2. nri' = FALSE /\ Continues(handler', handler) /\ (handler.op # "none" => handler'.lost)
    BY <1>3, OrphanedOK, DisconnectOK DEF Stop, TypeInv
  <2>3. /\ \A p \in Pods : Started(p)' => Started(p) /\ sandbox'[p].number = sandbox[p].number
    BY <1>3, <2>1, DisconnectIs DEF Stop, InState, Without, Started, LinkInv
  <2> QED
    BY <1>3, <2>1, <2>2, <2>3 DEF Stop, Continues, AttachInv, StartedIsAttached, Started
<1>4. CASE Shutdown
  <2>1. handler'.op = "none"
    BY <1>4, NoEventOK DEF Shutdown, Exit, TypeInv, CountersOK
  <2> QED
    BY <1>4, <2>1 DEF Shutdown, AttachInv, StartedIsAttached, Started
<1>5. CASE Send
  <2>1. /\ handler.pod \in Pods /\ SandboxOK(sandbox, made) /\ EventOK(handler, made)
        /\ made \in Nat /\ handler.op \in {"none", "run", "stop"}
    BY DEF TypeInv, EventOK, CountersOK
  <2>2. handler'.op = "none"
    BY <1>5, SendOK
  <2>3. /\ \A p \in Pods : sandbox'[p].number = sandbox[p].number
        /\ \A p \in Pods : Started(p)' =>
              \/ Started(p)
              \/ p = handler.pod /\ ~handler.lost /\ sandbox[p].number = handler.sandbox
    BY <1>5, <2>1, ReturnIs DEF Send, Handling, InState, Without, Started, LinkInv
  <2> QED
    BY <1>5, <2>1, <2>2, <2>3 DEF Send, Handling, AttachInv, StartedIsAttached, Started
<1>6. CASE SendPanics
  <2>1. handler'.op = "none"
    BY <1>6, NoEventOK DEF SendPanics, Exit, TypeInv, CountersOK
  <2> QED
    BY <1>6, <2>1 DEF SendPanics, AttachInv, StartedIsAttached, Started
<1>7. CASE Detached
  <2>1. /\ handler.pod \in Pods /\ SandboxOK(sandbox, made) /\ EventOK(handler, made)
        /\ made \in Nat /\ handler.op \in {"none", "run", "stop"}
    BY DEF TypeInv, EventOK, CountersOK
  <2>2. handler'.op = "none"
    BY <1>7, ReturnOK DEF Detached, Handling
  <2>3. \A p \in Pods : Started(p)' => Started(p) /\ sandbox'[p].number = sandbox[p].number
    BY <1>7, <2>1, ReturnIs DEF Detached, InState, Without, Started
  <2> QED
    BY <1>7, <2>1, <2>2, <2>3 DEF Detached, AttachInv, StartedIsAttached, Started
<1>8. CASE UpdateNetworkDeviceData
  BY <1>8 DEF UpdateNetworkDeviceData, AttachInv, StartedIsAttached, Started
<1>9. CASE StartFails
  <2>1. handler'.op = "none"
    BY <1>9, NoEventOK DEF StartFails, Exit, TypeInv, CountersOK
  <2> QED
    BY <1>9, <2>1 DEF StartFails, AttachInv, StartedIsAttached, Started
<1>10. CASE OnClose
  <2>1. /\ handler.pod \in Pods /\ SandboxOK(sandbox, made) /\ EventOK(handler, made)
        /\ made \in Nat /\ handler.op \in {"none", "run", "stop"}
    BY DEF TypeInv, EventOK, CountersOK
  <2>2. nri' = FALSE /\ Continues(handler', handler) /\ (handler.op # "none" => handler'.lost)
    BY <1>10, OrphanedOK, DisconnectOK DEF OnClose, TypeInv
  <2>3. /\ \A p \in Pods : Started(p)' => Started(p) /\ sandbox'[p].number = sandbox[p].number
    BY <1>10, <2>1, DisconnectIs DEF OnClose, InState, Without, Started, LinkInv
  <2> QED
    BY <1>10, <2>1, <2>2, <2>3 DEF OnClose, Continues, AttachInv, StartedIsAttached, Started
<1>11. CASE CancelMainCtx
  BY <1>11 DEF CancelMainCtx, AttachInv, StartedIsAttached, Started
<1>12. CASE Crash
  <2>1. /\ handler.pod \in Pods /\ SandboxOK(sandbox, made) /\ EventOK(handler, made)
        /\ made \in Nat /\ handler.op \in {"none", "run", "stop"}
    BY DEF TypeInv, EventOK, CountersOK
  <2>2. handler'.op = "none"
    BY <1>12, NoEventOK DEF Crash, Exit, TypeInv, CountersOK
  <2>3. /\ \A p \in Pods : Started(p)' => Started(p) /\ sandbox'[p].number = sandbox[p].number
    BY <1>12, <2>1, DisconnectIs DEF Crash, InState, Without, Started, LinkInv
  <2> QED
    BY <1>12, <2>1, <2>2, <2>3 DEF Crash, AttachInv, StartedIsAttached, Started
<1>13. CASE UpdateMetadataFails
  <2>1. /\ handler.pod \in Pods /\ SandboxOK(sandbox, made) /\ EventOK(handler, made)
        /\ made \in Nat /\ handler.op \in {"none", "run", "stop"}
    BY DEF TypeInv, EventOK, CountersOK
  <2>2. handler'.op = "none"
    BY <1>13, ReturnOK DEF UpdateMetadataFails, Handling
  <2>3. \A p \in Pods : Started(p)' => Started(p) /\ sandbox'[p].number = sandbox[p].number
    BY <1>13, <2>1, ReturnIs DEF UpdateMetadataFails, InState, Without, Started
  <2> QED
    BY <1>13, <2>1, <2>2, <2>3 DEF UpdateMetadataFails, AttachInv, StartedIsAttached, Started
<1>14. CASE KubeletRestart
  BY <1>14 DEF KubeletRestart, AttachInv, StartedIsAttached, Started
<1>15. ASSUME NEW d \in Devices, AttachNetwork(d) PROVE AttachInv'
  <2>1. Continues(handler', handler) /\ handler'.lost = handler.lost
        /\ handler'.todo = handler.todo \ {d}
    BY <1>15, TodoStep DEF AttachNetwork, TypeInv
  <2> QED
    BY <1>15, <2>1 DEF AttachNetwork, Continues, Handling, AttachInv, StartedIsAttached, Started
<1>16. ASSUME NEW d \in Devices, DetachNetwork(d) PROVE AttachInv'
  <2>1. Continues(handler', handler) /\ handler'.lost = handler.lost
        /\ handler'.todo = handler.todo \ {d}
    BY <1>16, TodoStep DEF DetachNetwork, TypeInv
  <2>2. \A p \in Pods : Started(p) => sandbox[p].number # handler.sandbox
    BY <1>16 DEF DetachNetwork, Handling, LinkInv, Started, TypeInv, EventOK
  <2> QED
    BY <1>16, <2>1, <2>2 DEF DetachNetwork, Continues, Handling, AttachInv, StartedIsAttached,
       Started
<1>17. ASSUME NEW d \in Devices, AttachFails(d) PROVE AttachInv'
  <2>1. /\ handler.pod \in Pods /\ SandboxOK(sandbox, made) /\ EventOK(handler, made)
        /\ made \in Nat /\ handler.op \in {"none", "run", "stop"}
    BY DEF TypeInv, EventOK, CountersOK
  <2>2. handler'.op = "none"
    BY <1>17, ReturnOK DEF AttachFails, Handling
  <2>3. \A p \in Pods : Started(p)' => Started(p) /\ sandbox'[p].number = sandbox[p].number
    BY <1>17, <2>1, ReturnIs DEF AttachFails, InState, Without, Started
  <2> QED
    BY <1>17, <2>1, <2>2, <2>3 DEF AttachFails, AttachInv, StartedIsAttached, Started
<1>18. ASSUME NEW d \in Devices, DetachFails(d) PROVE AttachInv'
  <2>1. /\ handler.pod \in Pods /\ SandboxOK(sandbox, made) /\ EventOK(handler, made)
        /\ made \in Nat /\ handler.op \in {"none", "run", "stop"}
    BY DEF TypeInv, EventOK, CountersOK
  <2>2. handler'.op = "none"
    BY <1>18, ReturnOK DEF DetachFails, Handling
  <2>3. \A p \in Pods : Started(p)' => Started(p) /\ sandbox'[p].number = sandbox[p].number
    BY <1>18, <2>1, ReturnIs DEF DetachFails, InState, Without, Started
  <2>4. \A p \in Pods : Started(p) => sandbox[p].number # handler.sandbox
    BY <1>18 DEF DetachFails, Handling, LinkInv, Started, TypeInv, EventOK
  <2> QED
    BY <1>18, <2>1, <2>2, <2>3, <2>4 DEF DetachFails, AttachInv, StartedIsAttached, Started
<1>19. ASSUME NEW d \in Devices, DetachSkipped(d) PROVE AttachInv'
  <2>1. Continues(handler', handler) /\ handler'.lost = handler.lost
        /\ handler'.todo = handler.todo \ {d}
    BY <1>19, TodoStep DEF DetachSkipped, TypeInv
  <2> QED
    BY <1>19, <2>1 DEF DetachSkipped, Continues, Handling, AttachInv, StartedIsAttached, Started
<1>20. ASSUME NEW k \in DOMAIN metadata, UpdateRequestMetadata(k) PROVE AttachInv'
  <2>1. Continues(handler', handler) /\ handler'.lost = handler.lost
        /\ handler'.todo = handler.todo
    BY <1>20, KeysStep DEF UpdateRequestMetadata, TypeInv
  <2> QED
    BY <1>20, <2>1 DEF UpdateRequestMetadata, Continues, AttachInv, StartedIsAttached, Started
<1>21. ASSUME NEW p \in Pods, RunPodSandbox(p) PROVE AttachInv'
  <2>1. /\ handler.pod \in Pods /\ SandboxOK(sandbox, made) /\ EventOK(handler, made)
        /\ made \in Nat /\ handler.op \in {"none", "run", "stop"}
    BY DEF TypeInv, EventOK, CountersOK
  <2>2. sandbox[p].state = "starting" /\ sandbox[p].number # 0 /\ handler.op = "none"
    BY <1>21, <2>1 DEF RunPodSandbox, Deliver, SandboxOK
  <2>3. p \notin forgotten => PreparedFor(p) = Uses[p]
    BY <2>2, UsesFacts DEF CompleteInv, Needed, PreparedFor, Get, TypeInv, EntriesOK
  <2>4. p \in forgotten => sandbox[p].number \in bypassed'
    BY <1>21 DEF RunPodSandbox, Unknown
  <2>5. CASE HasDevices(p) /\ p \notin HostNetwork
    BY <1>21, <2>1, <2>2, <2>3, <2>4, <2>5, BeginOK DEF RunPodSandbox, AttachInv,
       StartedIsAttached, Started
  <2>6. CASE ~(HasDevices(p) /\ p \notin HostNetwork)
    <3>1. InState(sandbox', sandbox, p, "ready") /\ handler' = handler
      BY <1>21, <2>1, <2>6, StateIs DEF RunPodSandbox
    <3>2. p \in forgotten \/ p \in HostNetwork
      BY <2>3, <2>6, NetworkAssumption DEF HasDevices, PreparedFor
    <3> QED
      BY <1>21, <2>2, <2>4, <3>1, <3>2 DEF RunPodSandbox, InState, AttachInv,
         StartedIsAttached, Started
  <2> QED
    BY <1>21, <2>1, <2>2, <2>3, <2>4, <2>5, <2>6 DEF RunPodSandbox, AttachInv,
       StartedIsAttached, Started
<1>22. ASSUME NEW p \in Pods, RunWithoutPlugin(p) PROVE AttachInv'
  <2>1. /\ handler.pod \in Pods /\ SandboxOK(sandbox, made) /\ EventOK(handler, made)
        /\ made \in Nat /\ handler.op \in {"none", "run", "stop"}
    BY DEF TypeInv, EventOK, CountersOK
  <2>2. InState(sandbox', sandbox, p, "ready")
    BY <1>22, <2>1, StateIs DEF RunWithoutPlugin
  <2> QED
    BY <1>22, <2>1, <2>2 DEF RunWithoutPlugin, InState, AttachInv, StartedIsAttached, Started
<1>23. ASSUME NEW p \in Pods, StopPodSandbox(p) PROVE AttachInv'
  <2>1. /\ handler.pod \in Pods /\ SandboxOK(sandbox, made) /\ EventOK(handler, made)
        /\ made \in Nat /\ handler.op \in {"none", "run", "stop"}
    BY DEF TypeInv, EventOK, CountersOK
  <2>2. sandbox[p].state # "none" /\ handler.op = "none"
    BY <1>23, <2>1 DEF StopPodSandbox, Deliver
  <2>3. \A q \in Pods : Started(q)' => Started(q) /\ sandbox'[q].number = sandbox[q].number
    BY <1>23, <2>1, StateIs, GoneIs DEF StopPodSandbox, InState, Without, Started
  <2>4. handler' = handler \/ handler'.op = "stop"
    BY <1>23, <2>2, BeginOK DEF StopPodSandbox
  <2> QED
    BY <1>23, <2>1, <2>2, <2>3, <2>4 DEF StopPodSandbox, AttachInv, StartedIsAttached, Started
<1>24. ASSUME NEW p \in Pods, StopWithoutPlugin(p) PROVE AttachInv'
  <2>1. /\ handler.pod \in Pods /\ SandboxOK(sandbox, made) /\ EventOK(handler, made)
        /\ made \in Nat /\ handler.op \in {"none", "run", "stop"}
    BY DEF TypeInv, EventOK, CountersOK
  <2>2. \A q \in Pods : Started(q)' => Started(q) /\ sandbox'[q].number = sandbox[q].number
    BY <1>24, <2>1, StateIs, GoneIs DEF StopWithoutPlugin, InState, Without, Started
  <2> QED
    BY <1>24, <2>1, <2>2 DEF StopWithoutPlugin, AttachInv, StartedIsAttached, Started
<1>25. ASSUME NEW p \in Pods, Prepare(p) PROVE AttachInv'
  BY <1>25 DEF Prepare, AttachInv, StartedIsAttached, Started
<1>26. ASSUME NEW p \in Pods, StartSandbox(p) PROVE AttachInv'
  <2>1. /\ handler.pod \in Pods /\ SandboxOK(sandbox, made) /\ EventOK(handler, made)
        /\ made \in Nat /\ handler.op \in {"none", "run", "stop"}
    BY DEF TypeInv, EventOK, CountersOK
  <2>2. sandbox'[p].state = "starting" /\ \A q \in Pods \ {p} : sandbox'[q] = sandbox[q]
    BY <1>26, <2>1 DEF StartSandbox, SandboxOK
  <2> QED
    BY <1>26, <2>1, <2>2 DEF StartSandbox, AttachInv, StartedIsAttached, Started
<1>27. ASSUME NEW p \in Pods, StopSandbox(p) PROVE AttachInv'
  <2>1. /\ handler.pod \in Pods /\ SandboxOK(sandbox, made) /\ EventOK(handler, made)
        /\ made \in Nat /\ handler.op \in {"none", "run", "stop"}
    BY DEF TypeInv, EventOK, CountersOK
  <2>2. \A q \in Pods : Started(q)' => Started(q) /\ sandbox'[q].number = sandbox[q].number
    BY <1>27, <2>1, StateIs, GoneIs DEF StopSandbox, InState, Without, Started
  <2> QED
    BY <1>27, <2>1, <2>2 DEF StopSandbox, AttachInv, StartedIsAttached, Started
<1>28. ASSUME NEW p \in Pods, Unprepare(p) PROVE AttachInv'
  <2>1. Continues(handler', handler) /\ handler'.lost = handler.lost
        /\ handler'.todo = handler.todo
    BY <1>28, UnlinkOK DEF Unprepare, Continues
  <2> QED
    BY <1>28, <2>1 DEF Unprepare, Continues, AttachInv, StartedIsAttached, Started
<1>29. ASSUME NEW p \in Pods, StopWithoutNamespace(p) PROVE AttachInv'
  <2>1. /\ handler.pod \in Pods /\ SandboxOK(sandbox, made) /\ EventOK(handler, made)
        /\ made \in Nat /\ handler.op \in {"none", "run", "stop"}
    BY DEF TypeInv, EventOK, CountersOK
  <2>2. \A q \in Pods : Started(q)' => Started(q) /\ sandbox'[q].number = sandbox[q].number
    BY <1>29, <2>1, StateIs, GoneIs DEF StopWithoutNamespace, InState, Without, Started
  <2> QED
    BY <1>29, <2>1, <2>2 DEF StopWithoutNamespace, AttachInv, StartedIsAttached, Started
<1>30. ASSUME NEW p \in Pods, Schedule(p) PROVE AttachInv'
  BY <1>30 DEF Schedule, AttachInv, StartedIsAttached, Started
<1>31. ASSUME NEW p \in Pods, Terminate(p) PROVE AttachInv'
  BY <1>31 DEF Terminate, AttachInv, StartedIsAttached, Started
<1>32. ASSUME NEW p \in Pods, SandboxDies(p) PROVE AttachInv'
  <2>1. /\ handler.pod \in Pods /\ SandboxOK(sandbox, made) /\ EventOK(handler, made)
        /\ made \in Nat /\ handler.op \in {"none", "run", "stop"}
    BY DEF TypeInv, EventOK, CountersOK
  <2>2. \A q \in Pods : Started(q)' => Started(q) /\ sandbox'[q].number = sandbox[q].number
    BY <1>32, <2>1, StateIs, GoneIs DEF SandboxDies, InState, Without, Started
  <2> QED
    BY <1>32, <2>1, <2>2 DEF SandboxDies, AttachInv, StartedIsAttached, Started
<1>33. ASSUME NEW p \in Pods, DiscardSandbox(p) PROVE AttachInv'
  <2>1. /\ handler.pod \in Pods /\ SandboxOK(sandbox, made) /\ EventOK(handler, made)
        /\ made \in Nat /\ handler.op \in {"none", "run", "stop"}
    BY DEF TypeInv, EventOK, CountersOK
  <2>2. \A q \in Pods : Started(q)' => Started(q) /\ sandbox'[q].number = sandbox[q].number
    BY <1>33, <2>1, StateIs, GoneIs DEF DiscardSandbox, InState, Without, Started
  <2> QED
    BY <1>33, <2>1, <2>2 DEF DiscardSandbox, AttachInv, StartedIsAttached, Started
<1>34. ASSUME NEW p \in Pods, PrepareFails(p) PROVE AttachInv'
  BY <1>34 DEF PrepareFails, AttachInv, StartedIsAttached, Started
<1>35. ASSUME NEW p \in Pods, Rollback(p) PROVE AttachInv'
  <2>1. Continues(handler', handler) /\ handler'.lost = handler.lost
        /\ handler'.todo = handler.todo
    BY <1>35, UnlinkOK DEF Rollback, Continues
  <2> QED
    BY <1>35, <2>1 DEF Rollback, Continues, AttachInv, StartedIsAttached, Started
<1>36. ASSUME NEW p \in Pods, UnprepareFails(p) PROVE AttachInv'
  <2>1. Continues(handler', handler) /\ handler'.lost = handler.lost
        /\ handler'.todo = handler.todo
    BY <1>36, UnlinkOK DEF UnprepareFails, Continues
  <2> QED
    BY <1>36, <2>1 DEF UnprepareFails, Continues, AttachInv, StartedIsAttached, Started
<1> QED
  BY <1>1, <1>2, <1>3, <1>4, <1>5, <1>6, <1>7, <1>8, <1>9, <1>10, <1>11, <1>12, <1>13, <1>14,
     <1>15, <1>16, <1>17, <1>18, <1>19, <1>20, <1>21, <1>22, <1>23, <1>24, <1>25, <1>26, <1>27,
     <1>28, <1>29, <1>30, <1>31, <1>32, <1>33, <1>34, <1>35, <1>36 DEF Next, ProcessStep,
     HandlerStep, RuntimeStep, KubeletStep
-------------------------------------------------------------------------------
(***************************************************************************)
(* What is attached belongs to a sandbox.                                  *)
(***************************************************************************)

\* What is attached to the sandbox of a pod is a device of its claims.
Belongs ==
    \A x \in attached : \A p \in Pods :
        sandbox[p].number = x[1] => x[2] \in DevicesOf(Uses[p]) /\ p \notin HostNetwork

\* A stop event that the runtime waits for has detached what is not left to do.
DetachInv ==
    /\ StoppedIsDetached
    /\ Belongs
    /\ handler.op = "stop" /\ ~handler.lost /\ handler.sandbox \notin leaked =>
          \A d \in Devices \ handler.todo : <<handler.sandbox, d>> \notin attached

\* In this step sandboxes end on record only, and none is made.
Accounted ==
    /\ leaked \subseteq leaked'
    /\ \A q \in Pods :
          \/ sandbox'[q].number = sandbox[q].number
          \/ sandbox'[q].number = 0 /\ sandbox[q].number \in leaked'

\* Every step keeps it: the entry outlives the sandbox, so that the stop event finds
\* every device that the start event attached.
LEMMA DetachStep ==
    ASSUME TypeInv, LinkInv, CompleteInv, DetachInv, Next
    PROVE  DetachInv'
<1> USE DEF podManagerVars, pluginVars, kubeletVars, historyVars
<1>1. CASE StartDriver
  BY <1>1 DEF StartDriver, DetachInv, StoppedIsDetached, Belongs
<1>2. CASE StartNRI
  BY <1>2 DEF StartNRI, DetachInv, StoppedIsDetached, Belongs
<1>3. CASE Stop
  <2>1. /\ handler.pod \in Pods /\ SandboxOK(sandbox, made) /\ EventOK(handler, made)
        /\ \A x \in attached : x = <<x[1], x[2]>> /\ x[1] # 0 /\ x[2] \in Devices
    BY DEF TypeInv, EventOK, CountersOK, HistoryOK
  <2>2. Continues(handler', handler) /\ (handler.op # "none" => handler'.lost)
    BY <1>3, OrphanedOK DEF Stop, TypeInv
  <2>3. Accounted
    BY <1>3, <2>1, DisconnectIs DEF Stop, InState, Without, Accounted, LinkInv
  <2> QED
    BY <1>3, <2>1, <2>2, <2>3 DEF Stop, Continues, Accounted, DetachInv, StoppedIsDetached,
       Belongs
<1>4. CASE Shutdown
  <2>1. handler'.op = "none"
    BY <1>4, NoEventOK DEF Shutdown, Exit, TypeInv, CountersOK
  <2> QED
    BY <1>4, <2>1 DEF Shutdown, DetachInv, StoppedIsDetached, Belongs
<1>5. CASE Send
  <2>1. /\ handler.pod \in Pods /\ SandboxOK(sandbox, made) /\ EventOK(handler, made)
        /\ \A x \in attached : x = <<x[1], x[2]>> /\ x[1] # 0 /\ x[2] \in Devices
    BY DEF TypeInv, EventOK, CountersOK, HistoryOK
  <2>2. handler'.op = "none"
    BY <1>5, ReturnOK DEF Send, Handling
  <2>3. Accounted
    BY <1>5, <2>1, ReturnIs DEF Send, Handling, InState, Without, Accounted, LinkInv
  <2> QED
    BY <1>5, <2>1, <2>2, <2>3 DEF Send, Accounted, DetachInv, StoppedIsDetached, Belongs
<1>6. CASE SendPanics
  <2>1. handler'.op = "none"
    BY <1>6, NoEventOK DEF SendPanics, Exit, TypeInv, CountersOK
  <2> QED
    BY <1>6, <2>1 DEF SendPanics, DetachInv, StoppedIsDetached, Belongs
<1>7. CASE Detached
  <2>1. /\ handler.pod \in Pods /\ SandboxOK(sandbox, made) /\ EventOK(handler, made)
        /\ \A x \in attached : x = <<x[1], x[2]>> /\ x[1] # 0 /\ x[2] \in Devices
    BY DEF TypeInv, EventOK, CountersOK, HistoryOK
  <2>2. handler'.op = "none"
    BY <1>7, ReturnOK DEF Detached, Handling
  <2>3. CASE handler.lost
    BY <1>7, <2>1, <2>2, <2>3, ReturnIs DEF Detached, DetachInv, StoppedIsDetached, Belongs
  <2>4. CASE ~handler.lost
    <3>1. Without(sandbox', sandbox, handler.pod) /\ leaked' = leaked
      BY <1>7, <2>1, <2>4, GoneIs DEF Detached, Return
    <3>2. sandbox[handler.pod].number = handler.sandbox
      BY <1>7, <2>4 DEF Detached, Handling, LinkInv
    <3>3. \A x \in attached : x[1] = handler.sandbox => x[1] \in leaked
      BY <1>7, <2>1, <2>4 DEF Detached, Handling, DetachInv
    <3> QED
      BY <1>7, <2>1, <2>2, <3>1, <3>2, <3>3 DEF Detached, Without, DetachInv,
         StoppedIsDetached, Belongs
  <2> QED
    BY <1>7, <2>1, <2>2, <2>3, <2>4 DEF Detached, DetachInv, StoppedIsDetached, Belongs
<1>8. CASE UpdateNetworkDeviceData
  BY <1>8 DEF UpdateNetworkDeviceData, DetachInv, StoppedIsDetached, Belongs
<1>9. CASE StartFails
  <2>1. handler'.op = "none"
    BY <1>9, NoEventOK DEF StartFails, Exit, TypeInv, CountersOK
  <2> QED
    BY <1>9, <2>1 DEF StartFails, DetachInv, StoppedIsDetached, Belongs
<1>10. CASE OnClose
  <2>1. /\ handler.pod \in Pods /\ SandboxOK(sandbox, made) /\ EventOK(handler, made)
        /\ \A x \in attached : x = <<x[1], x[2]>> /\ x[1] # 0 /\ x[2] \in Devices
    BY DEF TypeInv, EventOK, CountersOK, HistoryOK
  <2>2. Continues(handler', handler) /\ (handler.op # "none" => handler'.lost)
    BY <1>10, OrphanedOK DEF OnClose, TypeInv
  <2>3. Accounted
    BY <1>10, <2>1, DisconnectIs DEF OnClose, InState, Without, Accounted, LinkInv
  <2> QED
    BY <1>10, <2>1, <2>2, <2>3 DEF OnClose, Continues, Accounted, DetachInv, StoppedIsDetached,
       Belongs
<1>11. CASE CancelMainCtx
  BY <1>11 DEF CancelMainCtx, DetachInv, StoppedIsDetached, Belongs
<1>12. CASE Crash
  <2>1. /\ handler.pod \in Pods /\ SandboxOK(sandbox, made) /\ EventOK(handler, made)
        /\ \A x \in attached : x = <<x[1], x[2]>> /\ x[1] # 0 /\ x[2] \in Devices
    BY DEF TypeInv, EventOK, CountersOK, HistoryOK
  <2>2. handler'.op = "none"
    BY <1>12, NoEventOK DEF Crash, Exit, TypeInv, CountersOK
  <2>3. Accounted
    BY <1>12, <2>1, DisconnectIs DEF Crash, InState, Without, Accounted, LinkInv
  <2> QED
    BY <1>12, <2>1, <2>2, <2>3 DEF Crash, Accounted, DetachInv, StoppedIsDetached, Belongs
<1>13. CASE UpdateMetadataFails
  <2>1. /\ handler.pod \in Pods /\ SandboxOK(sandbox, made) /\ EventOK(handler, made)
        /\ \A x \in attached : x = <<x[1], x[2]>> /\ x[1] # 0 /\ x[2] \in Devices
    BY DEF TypeInv, EventOK, CountersOK, HistoryOK
  <2>2. handler'.op = "none"
    BY <1>13, ReturnOK DEF UpdateMetadataFails, Handling
  <2>3. Accounted
    BY <1>13, <2>1, ReturnIs DEF UpdateMetadataFails, Handling, InState, Without, Accounted,
       LinkInv
  <2> QED
    BY <1>13, <2>1, <2>2, <2>3 DEF UpdateMetadataFails, Accounted, DetachInv,
       StoppedIsDetached, Belongs
<1>14. CASE KubeletRestart
  BY <1>14 DEF KubeletRestart, DetachInv, StoppedIsDetached, Belongs
<1>15. ASSUME NEW d \in Devices, AttachNetwork(d) PROVE DetachInv'
  <2>1. /\ handler.pod \in Pods /\ SandboxOK(sandbox, made) /\ EventOK(handler, made)
        /\ \A x \in attached : x = <<x[1], x[2]>> /\ x[1] # 0 /\ x[2] \in Devices
    BY DEF TypeInv, EventOK, CountersOK, HistoryOK
  <2>2. Continues(handler', handler) /\ handler'.lost = handler.lost
    BY <1>15, TodoStep DEF AttachNetwork, TypeInv
  <2>3. /\ handler.sandbox \in leaked \/ sandbox[handler.pod].number = handler.sandbox
        /\ d \in DevicesOf(Uses[handler.pod]) /\ handler.pod \notin HostNetwork
        /\ handler.sandbox # 0
        /\ \A q \in Pods : sandbox[q].number = handler.sandbox => q = handler.pod
    BY <1>15, <2>1 DEF AttachNetwork, Handling, LinkInv, EventOK
  <2> QED
    BY <1>15, <2>1, <2>2, <2>3 DEF AttachNetwork, Continues, Handling, DetachInv,
       StoppedIsDetached, Belongs
<1>16. ASSUME NEW d \in Devices, DetachNetwork(d) PROVE DetachInv'
  <2>1. /\ handler.pod \in Pods /\ SandboxOK(sandbox, made) /\ EventOK(handler, made)
        /\ \A x \in attached : x = <<x[1], x[2]>> /\ x[1] # 0 /\ x[2] \in Devices
    BY DEF TypeInv, EventOK, CountersOK, HistoryOK
  <2>2. Continues(handler', handler) /\ handler'.lost = handler.lost
        /\ handler'.todo = handler.todo \ {d}
    BY <1>16, TodoStep DEF DetachNetwork, TypeInv
  <2> QED
    BY <1>16, <2>1, <2>2 DEF DetachNetwork, Continues, Handling, DetachInv, StoppedIsDetached,
       Belongs
<1>17. ASSUME NEW d \in Devices, AttachFails(d) PROVE DetachInv'
  <2>1. /\ handler.pod \in Pods /\ SandboxOK(sandbox, made) /\ EventOK(handler, made)
        /\ \A x \in attached : x = <<x[1], x[2]>> /\ x[1] # 0 /\ x[2] \in Devices
    BY DEF TypeInv, EventOK, CountersOK, HistoryOK
  <2>2. handler'.op = "none"
    BY <1>17, ReturnOK DEF AttachFails, Handling
  <2>3. Accounted
    BY <1>17, <2>1, ReturnIs DEF AttachFails, Handling, InState, Without, Accounted, LinkInv
  <2>4. /\ handler.sandbox \in leaked \/ sandbox[handler.pod].number = handler.sandbox
        /\ d \in DevicesOf(Uses[handler.pod]) /\ handler.pod \notin HostNetwork
        /\ handler.sandbox # 0
        /\ \A q \in Pods : sandbox[q].number = handler.sandbox => q = handler.pod
    BY <1>17, <2>1 DEF AttachFails, Handling, LinkInv, EventOK
  <2>5. \A x \in attached' : x \in attached \/ x = <<handler.sandbox, d>>
    BY <1>17 DEF AttachFails
  <2> QED
    BY <1>17, <2>1, <2>2, <2>3, <2>4, <2>5 DEF AttachFails, Accounted, DetachInv,
       StoppedIsDetached, Belongs
<1>18. ASSUME NEW d \in Devices, DetachFails(d) PROVE DetachInv'
  <2>1. /\ handler.pod \in Pods /\ SandboxOK(sandbox, made) /\ EventOK(handler, made)
        /\ \A x \in attached : x = <<x[1], x[2]>> /\ x[1] # 0 /\ x[2] \in Devices
    BY DEF TypeInv, EventOK, CountersOK, HistoryOK
  <2>2. handler'.op = "none"
    BY <1>18, ReturnOK DEF DetachFails, Handling
  <2>3. Accounted
    BY <1>18, <2>1, ReturnIs DEF DetachFails, Handling, InState, Without, Accounted, LinkInv
  <2>4. attached' \subseteq attached
    BY <1>18 DEF DetachFails
  <2> QED
    BY <1>18, <2>1, <2>2, <2>3, <2>4 DEF DetachFails, Accounted, DetachInv, StoppedIsDetached,
       Belongs
<1>19. ASSUME NEW d \in Devices, DetachSkipped(d) PROVE DetachInv'
  <2>1. /\ handler.pod \in Pods /\ SandboxOK(sandbox, made) /\ EventOK(handler, made)
        /\ \A x \in attached : x = <<x[1], x[2]>> /\ x[1] # 0 /\ x[2] \in Devices
    BY DEF TypeInv, EventOK, CountersOK, HistoryOK
  <2>2. Continues(handler', handler) /\ handler'.lost = handler.lost
        /\ handler'.todo = handler.todo \ {d}
    BY <1>19, TodoStep DEF DetachSkipped, TypeInv
  <2> QED
    BY <1>19, <2>1, <2>2 DEF DetachSkipped, Continues, Handling, DetachInv, StoppedIsDetached,
       Belongs
<1>20. ASSUME NEW k \in DOMAIN metadata, UpdateRequestMetadata(k) PROVE DetachInv'
  <2>1. Continues(handler', handler) /\ handler'.lost = handler.lost
        /\ handler'.todo = handler.todo
    BY <1>20, KeysStep DEF UpdateRequestMetadata, TypeInv
  <2> QED
    BY <1>20, <2>1 DEF UpdateRequestMetadata, Continues, DetachInv, StoppedIsDetached, Belongs
<1>21. ASSUME NEW p \in Pods, RunPodSandbox(p) PROVE DetachInv'
  <2>1. /\ handler.pod \in Pods /\ SandboxOK(sandbox, made) /\ EventOK(handler, made)
        /\ \A x \in attached : x = <<x[1], x[2]>> /\ x[1] # 0 /\ x[2] \in Devices
    BY DEF TypeInv, EventOK, CountersOK, HistoryOK
  <2>2. sandbox[p].state # "none" /\ handler.op = "none"
    BY <1>21, <2>1 DEF RunPodSandbox, Deliver
  <2>3. Accounted
    BY <1>21, <2>1, StateIs, GoneIs DEF RunPodSandbox, InState, Without, Accounted
  <2>4. handler' = handler \/ handler'.op = "run"
    BY <1>21, <2>2, BeginOK DEF RunPodSandbox
  <2> QED
    BY <1>21, <2>1, <2>2, <2>3, <2>4 DEF RunPodSandbox, Accounted, DetachInv,
       StoppedIsDetached, Belongs
<1>22. ASSUME NEW p \in Pods, RunWithoutPlugin(p) PROVE DetachInv'
  <2>1. /\ handler.pod \in Pods /\ SandboxOK(sandbox, made) /\ EventOK(handler, made)
        /\ \A x \in attached : x = <<x[1], x[2]>> /\ x[1] # 0 /\ x[2] \in Devices
    BY DEF TypeInv, EventOK, CountersOK, HistoryOK
  <2>2. Accounted
    BY <1>22, <2>1, StateIs, GoneIs DEF RunWithoutPlugin, InState, Without, Accounted
  <2>3. handler.op # "stop" \/ handler.lost
    BY <1>22 DEF RunWithoutPlugin, LinkInv, TypeInv, ProcessOK
  <2> QED
    BY <1>22, <2>1, <2>2, <2>3 DEF RunWithoutPlugin, Accounted, DetachInv, StoppedIsDetached,
       Belongs
<1>23. ASSUME NEW p \in Pods, StopPodSandbox(p) PROVE DetachInv'
  <2>1. /\ handler.pod \in Pods /\ SandboxOK(sandbox, made) /\ EventOK(handler, made)
        /\ \A x \in attached : x = <<x[1], x[2]>> /\ x[1] # 0 /\ x[2] \in Devices
    BY DEF TypeInv, EventOK, CountersOK, HistoryOK
  <2>2. sandbox[p].state # "none" /\ sandbox[p].number # 0 /\ handler.op = "none"
    BY <1>23, <2>1 DEF StopPodSandbox, Deliver, SandboxOK
  <2>3. p \notin forgotten => PreparedFor(p) = Uses[p]
    BY <2>2, UsesFacts DEF CompleteInv, Needed, PreparedFor, Get, TypeInv, EntriesOK
  <2>4. p \in forgotten => sandbox[p].number \in leaked'
    BY <1>23 DEF StopPodSandbox, Unknown
  <2>5. CASE HasDevices(p)
    BY <1>23, <2>1, <2>2, <2>3, <2>4, <2>5, BeginOK DEF StopPodSandbox, DetachInv,
       StoppedIsDetached, Belongs
  <2>6. CASE ~HasDevices(p)
    <3>1. Without(sandbox', sandbox, p) /\ handler' = handler
      BY <1>23, <2>1, <2>6, GoneIs DEF StopPodSandbox
    <3>2. p \in forgotten
      BY <2>3, <2>6, NetworkAssumption DEF HasDevices, PreparedFor
    <3> QED
      BY <1>23, <2>1, <2>2, <2>4, <3>1, <3>2 DEF StopPodSandbox, Without, DetachInv,
         StoppedIsDetached, Belongs
  <2> QED
    BY <1>23, <2>1, <2>2, <2>3, <2>4, <2>5, <2>6 DEF StopPodSandbox, DetachInv,
       StoppedIsDetached, Belongs
<1>24. ASSUME NEW p \in Pods, StopWithoutPlugin(p) PROVE DetachInv'
  <2>1. /\ handler.pod \in Pods /\ SandboxOK(sandbox, made) /\ EventOK(handler, made)
        /\ \A x \in attached : x = <<x[1], x[2]>> /\ x[1] # 0 /\ x[2] \in Devices
    BY DEF TypeInv, EventOK, CountersOK, HistoryOK
  <2>2. Accounted
    BY <1>24, <2>1, StateIs, GoneIs DEF StopWithoutPlugin, InState, Without, Accounted
  <2> QED
    BY <1>24, <2>1, <2>2 DEF StopWithoutPlugin, Accounted, DetachInv, StoppedIsDetached, Belongs
<1>25. ASSUME NEW p \in Pods, Prepare(p) PROVE DetachInv'
  BY <1>25 DEF Prepare, DetachInv, StoppedIsDetached, Belongs
<1>26. ASSUME NEW p \in Pods, StartSandbox(p) PROVE DetachInv'
  <2>1. /\ handler.pod \in Pods /\ SandboxOK(sandbox, made) /\ EventOK(handler, made)
        /\ \A x \in attached : x = <<x[1], x[2]>> /\ x[1] # 0 /\ x[2] \in Devices
    BY DEF TypeInv, EventOK, CountersOK, HistoryOK
  <2>2. sandbox[p].number = 0 /\ sandbox'[p].number = made + 1
        /\ \A q \in Pods \ {p} : sandbox'[q] = sandbox[q]
    BY <1>26, <2>1, NoSandboxIff DEF StartSandbox, SandboxOK, TypeInv, CountersOK
  <2>3. \A x \in attached : x[1] # made + 1
    BY DEF TypeInv, HistoryOK, CountersOK
  <2> QED
    BY <1>26, <2>1, <2>2, <2>3 DEF StartSandbox, DetachInv, StoppedIsDetached, Belongs
<1>27. ASSUME NEW p \in Pods, StopSandbox(p) PROVE DetachInv'
  <2>1. /\ handler.pod \in Pods /\ SandboxOK(sandbox, made) /\ EventOK(handler, made)
        /\ \A x \in attached : x = <<x[1], x[2]>> /\ x[1] # 0 /\ x[2] \in Devices
    BY DEF TypeInv, EventOK, CountersOK, HistoryOK
  <2>2. Accounted
    BY <1>27, <2>1, StateIs, GoneIs DEF StopSandbox, InState, Without, Accounted
  <2> QED
    BY <1>27, <2>1, <2>2 DEF StopSandbox, Accounted, DetachInv, StoppedIsDetached, Belongs
<1>28. ASSUME NEW p \in Pods, Unprepare(p) PROVE DetachInv'
  <2>1. Continues(handler', handler) /\ handler'.lost = handler.lost
        /\ handler'.todo = handler.todo
    BY <1>28, UnlinkOK DEF Unprepare, Continues
  <2> QED
    BY <1>28, <2>1 DEF Unprepare, Continues, DetachInv, StoppedIsDetached, Belongs
<1>29. ASSUME NEW p \in Pods, StopWithoutNamespace(p) PROVE DetachInv'
  <2>1. /\ handler.pod \in Pods /\ SandboxOK(sandbox, made) /\ EventOK(handler, made)
        /\ \A x \in attached : x = <<x[1], x[2]>> /\ x[1] # 0 /\ x[2] \in Devices
    BY DEF TypeInv, EventOK, CountersOK, HistoryOK
  <2>2. Without(sandbox', sandbox, p) /\ p \in HostNetwork /\ handler.op = "none"
    BY <1>29, <2>1, GoneIs DEF StopWithoutNamespace, Deliver
  <2> QED
    BY <1>29, <2>1, <2>2 DEF StopWithoutNamespace, Without, DetachInv, StoppedIsDetached,
       Belongs
<1>30. ASSUME NEW p \in Pods, Schedule(p) PROVE DetachInv'
  BY <1>30 DEF Schedule, DetachInv, StoppedIsDetached, Belongs
<1>31. ASSUME NEW p \in Pods, Terminate(p) PROVE DetachInv'
  BY <1>31 DEF Terminate, DetachInv, StoppedIsDetached, Belongs
<1>32. ASSUME NEW p \in Pods, SandboxDies(p) PROVE DetachInv'
  <2>1. /\ handler.pod \in Pods /\ SandboxOK(sandbox, made) /\ EventOK(handler, made)
        /\ \A x \in attached : x = <<x[1], x[2]>> /\ x[1] # 0 /\ x[2] \in Devices
    BY DEF TypeInv, EventOK, CountersOK, HistoryOK
  <2>2. Accounted
    BY <1>32, <2>1, StateIs, GoneIs DEF SandboxDies, InState, Without, Accounted
  <2> QED
    BY <1>32, <2>1, <2>2 DEF SandboxDies, Accounted, DetachInv, StoppedIsDetached, Belongs
<1>33. ASSUME NEW p \in Pods, DiscardSandbox(p) PROVE DetachInv'
  <2>1. /\ handler.pod \in Pods /\ SandboxOK(sandbox, made) /\ EventOK(handler, made)
        /\ \A x \in attached : x = <<x[1], x[2]>> /\ x[1] # 0 /\ x[2] \in Devices
    BY DEF TypeInv, EventOK, CountersOK, HistoryOK
  <2>2. Accounted
    BY <1>33, <2>1, StateIs, GoneIs DEF DiscardSandbox, InState, Without, Accounted
  <2> QED
    BY <1>33, <2>1, <2>2 DEF DiscardSandbox, Accounted, DetachInv, StoppedIsDetached, Belongs
<1>34. ASSUME NEW p \in Pods, PrepareFails(p) PROVE DetachInv'
  BY <1>34 DEF PrepareFails, DetachInv, StoppedIsDetached, Belongs
<1>35. ASSUME NEW p \in Pods, Rollback(p) PROVE DetachInv'
  <2>1. Continues(handler', handler) /\ handler'.lost = handler.lost
        /\ handler'.todo = handler.todo
    BY <1>35, UnlinkOK DEF Rollback, Continues
  <2> QED
    BY <1>35, <2>1 DEF Rollback, Continues, DetachInv, StoppedIsDetached, Belongs
<1>36. ASSUME NEW p \in Pods, UnprepareFails(p) PROVE DetachInv'
  <2>1. Continues(handler', handler) /\ handler'.lost = handler.lost
        /\ handler'.todo = handler.todo
    BY <1>36, UnlinkOK DEF UnprepareFails, Continues
  <2> QED
    BY <1>36, <2>1 DEF UnprepareFails, Continues, DetachInv, StoppedIsDetached, Belongs
<1> QED
  BY <1>1, <1>2, <1>3, <1>4, <1>5, <1>6, <1>7, <1>8, <1>9, <1>10, <1>11, <1>12, <1>13, <1>14,
     <1>15, <1>16, <1>17, <1>18, <1>19, <1>20, <1>21, <1>22, <1>23, <1>24, <1>25, <1>26, <1>27,
     <1>28, <1>29, <1>30, <1>31, <1>32, <1>33, <1>34, <1>35, <1>36 DEF Next, ProcessStep,
     HandlerStep, RuntimeStep, KubeletStep
-------------------------------------------------------------------------------
(***************************************************************************)
(* A started sandbox finds its own network data.                           *)
(***************************************************************************)

\* A start event that the runtime waits for has written what is not left to do.
MetadataInv ==
    /\ MetadataOfThisSandbox
    /\ EnableDeviceMetadata /\ handler.op = "run" /\ ~handler.lost
       /\ handler.sandbox \notin bypassed =>
          \A k \in MetadataKeys(Uses[handler.pod]) \ (handler.keys \cup overwritten) :
              metadata[k] = {handler.sandbox}

\* Every step keeps it: the files of a pod are written by its own events, before
\* they return, and by prepares of its own claims, which are on record.
LEMMA MetadataStep ==
    ASSUME TypeInv, LinkInv, CompleteInv, MetadataInv, Next
    PROVE  MetadataInv'
<1> USE DEF podManagerVars, pluginVars, kubeletVars, historyVars
<1>1. CASE StartDriver
  BY <1>1 DEF StartDriver, MetadataInv, MetadataOfThisSandbox, Started
<1>2. CASE StartNRI
  BY <1>2 DEF StartNRI, MetadataInv, MetadataOfThisSandbox, Started
<1>3. CASE Stop
  <2>1. /\ handler.pod \in Pods /\ SandboxOK(sandbox, made) /\ EventOK(handler, made)
        /\ made \in Nat /\ handler.op \in {"none", "run", "stop"}
    BY DEF TypeInv, EventOK, CountersOK
  <2>2. nri' = FALSE /\ Continues(handler', handler) /\ (handler.op # "none" => handler'.lost)
    BY <1>3, OrphanedOK, DisconnectOK DEF Stop, TypeInv
  <2>3. /\ \A p \in Pods : Started(p)' => Started(p) /\ sandbox'[p].number = sandbox[p].number
    BY <1>3, <2>1, DisconnectIs DEF Stop, InState, Without, Started, LinkInv
  <2> QED
    BY <1>3, <2>1, <2>2, <2>3 DEF Stop, Continues, MetadataInv, MetadataOfThisSandbox, Started
<1>4. CASE Shutdown
  <2>1. handler'.op = "none"
    BY <1>4, NoEventOK DEF Shutdown, Exit, TypeInv, CountersOK
  <2> QED
    BY <1>4, <2>1 DEF Shutdown, MetadataInv, MetadataOfThisSandbox, Started
<1>5. CASE Send
  <2>1. /\ handler.pod \in Pods /\ SandboxOK(sandbox, made) /\ EventOK(handler, made)
        /\ made \in Nat /\ handler.op \in {"none", "run", "stop"}
    BY DEF TypeInv, EventOK, CountersOK
  <2>2. handler'.op = "none"
    BY <1>5, SendOK
  <2>3. /\ \A p \in Pods : sandbox'[p].number = sandbox[p].number
        /\ \A p \in Pods : Started(p)' =>
              \/ Started(p)
              \/ p = handler.pod /\ ~handler.lost /\ sandbox[p].number = handler.sandbox
    BY <1>5, <2>1, ReturnIs DEF Send, Handling, InState, Without, Started, LinkInv
  <2> QED
    BY <1>5, <2>1, <2>2, <2>3 DEF Send, Handling, MetadataInv, MetadataOfThisSandbox, Started
<1>6. CASE SendPanics
  <2>1. handler'.op = "none"
    BY <1>6, NoEventOK DEF SendPanics, Exit, TypeInv, CountersOK
  <2> QED
    BY <1>6, <2>1 DEF SendPanics, MetadataInv, MetadataOfThisSandbox, Started
<1>7. CASE Detached
  <2>1. /\ handler.pod \in Pods /\ SandboxOK(sandbox, made) /\ EventOK(handler, made)
        /\ made \in Nat /\ handler.op \in {"none", "run", "stop"}
    BY DEF TypeInv, EventOK, CountersOK
  <2>2. handler'.op = "none"
    BY <1>7, ReturnOK DEF Detached, Handling
  <2>3. \A p \in Pods : Started(p)' => Started(p) /\ sandbox'[p].number = sandbox[p].number
    BY <1>7, <2>1, ReturnIs DEF Detached, InState, Without, Started
  <2> QED
    BY <1>7, <2>1, <2>2, <2>3 DEF Detached, MetadataInv, MetadataOfThisSandbox, Started
<1>8. CASE UpdateNetworkDeviceData
  BY <1>8 DEF UpdateNetworkDeviceData, MetadataInv, MetadataOfThisSandbox, Started
<1>9. CASE StartFails
  <2>1. handler'.op = "none"
    BY <1>9, NoEventOK DEF StartFails, Exit, TypeInv, CountersOK
  <2> QED
    BY <1>9, <2>1 DEF StartFails, MetadataInv, MetadataOfThisSandbox, Started
<1>10. CASE OnClose
  <2>1. /\ handler.pod \in Pods /\ SandboxOK(sandbox, made) /\ EventOK(handler, made)
        /\ made \in Nat /\ handler.op \in {"none", "run", "stop"}
    BY DEF TypeInv, EventOK, CountersOK
  <2>2. nri' = FALSE /\ Continues(handler', handler) /\ (handler.op # "none" => handler'.lost)
    BY <1>10, OrphanedOK, DisconnectOK DEF OnClose, TypeInv
  <2>3. /\ \A p \in Pods : Started(p)' => Started(p) /\ sandbox'[p].number = sandbox[p].number
    BY <1>10, <2>1, DisconnectIs DEF OnClose, InState, Without, Started, LinkInv
  <2> QED
    BY <1>10, <2>1, <2>2, <2>3 DEF OnClose, Continues, MetadataInv, MetadataOfThisSandbox,
       Started
<1>11. CASE CancelMainCtx
  BY <1>11 DEF CancelMainCtx, MetadataInv, MetadataOfThisSandbox, Started
<1>12. CASE Crash
  <2>1. /\ handler.pod \in Pods /\ SandboxOK(sandbox, made) /\ EventOK(handler, made)
        /\ made \in Nat /\ handler.op \in {"none", "run", "stop"}
    BY DEF TypeInv, EventOK, CountersOK
  <2>2. handler'.op = "none"
    BY <1>12, NoEventOK DEF Crash, Exit, TypeInv, CountersOK
  <2>3. /\ \A p \in Pods : Started(p)' => Started(p) /\ sandbox'[p].number = sandbox[p].number
    BY <1>12, <2>1, DisconnectIs DEF Crash, InState, Without, Started, LinkInv
  <2> QED
    BY <1>12, <2>1, <2>2, <2>3 DEF Crash, MetadataInv, MetadataOfThisSandbox, Started
<1>13. CASE UpdateMetadataFails
  <2>1. /\ handler.pod \in Pods /\ SandboxOK(sandbox, made) /\ EventOK(handler, made)
        /\ made \in Nat /\ handler.op \in {"none", "run", "stop"}
    BY DEF TypeInv, EventOK, CountersOK
  <2>2. handler'.op = "none"
    BY <1>13, ReturnOK DEF UpdateMetadataFails, Handling
  <2>3. \A p \in Pods : Started(p)' => Started(p) /\ sandbox'[p].number = sandbox[p].number
    BY <1>13, <2>1, ReturnIs DEF UpdateMetadataFails, InState, Without, Started
  <2> QED
    BY <1>13, <2>1, <2>2, <2>3 DEF UpdateMetadataFails, MetadataInv, MetadataOfThisSandbox,
       Started
<1>14. CASE KubeletRestart
  BY <1>14 DEF KubeletRestart, MetadataInv, MetadataOfThisSandbox, Started
<1>15. ASSUME NEW d \in Devices, AttachNetwork(d) PROVE MetadataInv'
  <2>1. Continues(handler', handler) /\ handler'.lost = handler.lost
        /\ handler'.keys = handler.keys
    BY <1>15, TodoStep DEF AttachNetwork, TypeInv
  <2> QED
    BY <1>15, <2>1 DEF AttachNetwork, Continues, Handling, MetadataInv, MetadataOfThisSandbox,
       Started
<1>16. ASSUME NEW d \in Devices, DetachNetwork(d) PROVE MetadataInv'
  <2>1. Continues(handler', handler) /\ handler'.lost = handler.lost
        /\ handler'.keys = handler.keys
    BY <1>16, TodoStep DEF DetachNetwork, TypeInv
  <2> QED
    BY <1>16, <2>1 DEF DetachNetwork, Continues, Handling, MetadataInv, MetadataOfThisSandbox,
       Started
<1>17. ASSUME NEW d \in Devices, AttachFails(d) PROVE MetadataInv'
  <2>1. /\ handler.pod \in Pods /\ SandboxOK(sandbox, made) /\ EventOK(handler, made)
        /\ made \in Nat /\ handler.op \in {"none", "run", "stop"}
    BY DEF TypeInv, EventOK, CountersOK
  <2>2. handler'.op = "none"
    BY <1>17, ReturnOK DEF AttachFails, Handling
  <2>3. \A p \in Pods : Started(p)' => Started(p) /\ sandbox'[p].number = sandbox[p].number
    BY <1>17, <2>1, ReturnIs DEF AttachFails, InState, Without, Started
  <2> QED
    BY <1>17, <2>1, <2>2, <2>3 DEF AttachFails, MetadataInv, MetadataOfThisSandbox, Started
<1>18. ASSUME NEW d \in Devices, DetachFails(d) PROVE MetadataInv'
  <2>1. /\ handler.pod \in Pods /\ SandboxOK(sandbox, made) /\ EventOK(handler, made)
        /\ made \in Nat /\ handler.op \in {"none", "run", "stop"}
    BY DEF TypeInv, EventOK, CountersOK
  <2>2. handler'.op = "none"
    BY <1>18, ReturnOK DEF DetachFails, Handling
  <2>3. \A p \in Pods : Started(p)' => Started(p) /\ sandbox'[p].number = sandbox[p].number
    BY <1>18, <2>1, ReturnIs DEF DetachFails, InState, Without, Started
  <2> QED
    BY <1>18, <2>1, <2>2, <2>3 DEF DetachFails, MetadataInv, MetadataOfThisSandbox, Started
<1>19. ASSUME NEW d \in Devices, DetachSkipped(d) PROVE MetadataInv'
  <2>1. Continues(handler', handler) /\ handler'.lost = handler.lost
        /\ handler'.keys = handler.keys
    BY <1>19, TodoStep DEF DetachSkipped, TypeInv
  <2> QED
    BY <1>19, <2>1 DEF DetachSkipped, Continues, Handling, MetadataInv, MetadataOfThisSandbox,
       Started
<1>20. ASSUME NEW k \in DOMAIN metadata, UpdateRequestMetadata(k) PROVE MetadataInv'
  <2>1. /\ handler.pod \in Pods /\ SandboxOK(sandbox, made) /\ EventOK(handler, made)
        /\ made \in Nat /\ handler.op \in {"none", "run", "stop"}
    BY DEF TypeInv, EventOK, CountersOK
  <2>2. Continues(handler', handler) /\ handler'.lost = handler.lost
        /\ handler'.keys = handler.keys \ {k}
    BY <1>20, KeysStep DEF UpdateRequestMetadata, TypeInv
  <2>3. /\ k \in MetadataKeys(Uses[handler.pod]) /\ ~Started(handler.pod) /\ handler.op = "run"
        /\ \A q \in Pods \ {handler.pod} : k \notin MetadataKeys(Uses[q])
    BY <1>20, <2>1, KeysDisjoint DEF UpdateRequestMetadata, Handling, EventOK, LinkInv
  <2>4. \A q \in Pods : MetadataKeys(Uses[q]) \subseteq DOMAIN metadata
    BY UsesFacts, KeysFacts DEF TypeInv, MetadataOK
  <2>5. metadata' = [metadata EXCEPT ![k] = {handler.sandbox}]
        /\ overwritten' = overwritten \ {k}
    BY <1>20 DEF UpdateRequestMetadata
  <2>6. /\ metadata'[k] = {handler.sandbox}
        /\ \A j \in DOMAIN metadata \ {k} : metadata'[j] = metadata[j]
    BY <1>20, <2>5
  <2> QED
    BY <1>20, <2>1, <2>2, <2>3, <2>4, <2>5, <2>6 DEF UpdateRequestMetadata, Continues,
       MetadataInv, MetadataOfThisSandbox, Started
<1>21. ASSUME NEW p \in Pods, RunPodSandbox(p) PROVE MetadataInv'
  <2>1. /\ handler.pod \in Pods /\ SandboxOK(sandbox, made) /\ EventOK(handler, made)
        /\ made \in Nat /\ handler.op \in {"none", "run", "stop"}
    BY DEF TypeInv, EventOK, CountersOK
  <2>2. sandbox[p].state = "starting" /\ sandbox[p].number # 0 /\ handler.op = "none"
    BY <1>21, <2>1 DEF RunPodSandbox, Deliver, SandboxOK
  <2>3. p \notin forgotten => PreparedFor(p) = Uses[p]
    BY <2>2, UsesFacts DEF CompleteInv, Needed, PreparedFor, Get, TypeInv, EntriesOK
  <2>4. p \in forgotten => sandbox[p].number \in bypassed'
    BY <1>21 DEF RunPodSandbox, Unknown
  <2>5. CASE HasDevices(p) /\ p \notin HostNetwork
    BY <1>21, <2>1, <2>2, <2>3, <2>4, <2>5, BeginOK DEF RunPodSandbox, MetadataInv,
       MetadataOfThisSandbox, Started
  <2>6. CASE ~(HasDevices(p) /\ p \notin HostNetwork)
    <3>1. InState(sandbox', sandbox, p, "ready") /\ handler' = handler
      BY <1>21, <2>1, <2>6, StateIs DEF RunPodSandbox
    <3>2. p \in forgotten \/ p \in HostNetwork
      BY <2>3, <2>6, NetworkAssumption DEF HasDevices, PreparedFor
    <3> QED
      BY <1>21, <2>2, <2>4, <3>1, <3>2 DEF RunPodSandbox, InState, MetadataInv,
         MetadataOfThisSandbox, Started
  <2> QED
    BY <1>21, <2>1, <2>2, <2>3, <2>4, <2>5, <2>6 DEF RunPodSandbox, MetadataInv,
       MetadataOfThisSandbox, Started
<1>22. ASSUME NEW p \in Pods, RunWithoutPlugin(p) PROVE MetadataInv'
  <2>1. /\ handler.pod \in Pods /\ SandboxOK(sandbox, made) /\ EventOK(handler, made)
        /\ made \in Nat /\ handler.op \in {"none", "run", "stop"}
    BY DEF TypeInv, EventOK, CountersOK
  <2>2. InState(sandbox', sandbox, p, "ready")
    BY <1>22, <2>1, StateIs DEF RunWithoutPlugin
  <2> QED
    BY <1>22, <2>1, <2>2 DEF RunWithoutPlugin, InState, MetadataInv, MetadataOfThisSandbox,
       Started
<1>23. ASSUME NEW p \in Pods, StopPodSandbox(p) PROVE MetadataInv'
  <2>1. /\ handler.pod \in Pods /\ SandboxOK(sandbox, made) /\ EventOK(handler, made)
        /\ made \in Nat /\ handler.op \in {"none", "run", "stop"}
    BY DEF TypeInv, EventOK, CountersOK
  <2>2. sandbox[p].state # "none" /\ handler.op = "none"
    BY <1>23, <2>1 DEF StopPodSandbox, Deliver
  <2>3. \A q \in Pods : Started(q)' => Started(q) /\ sandbox'[q].number = sandbox[q].number
    BY <1>23, <2>1, StateIs, GoneIs DEF StopPodSandbox, InState, Without, Started
  <2>4. handler' = handler \/ handler'.op = "stop"
    BY <1>23, <2>2, BeginOK DEF StopPodSandbox
  <2> QED
    BY <1>23, <2>1, <2>2, <2>3, <2>4 DEF StopPodSandbox, MetadataInv, MetadataOfThisSandbox,
       Started
<1>24. ASSUME NEW p \in Pods, StopWithoutPlugin(p) PROVE MetadataInv'
  <2>1. /\ handler.pod \in Pods /\ SandboxOK(sandbox, made) /\ EventOK(handler, made)
        /\ made \in Nat /\ handler.op \in {"none", "run", "stop"}
    BY DEF TypeInv, EventOK, CountersOK
  <2>2. \A q \in Pods : Started(q)' => Started(q) /\ sandbox'[q].number = sandbox[q].number
    BY <1>24, <2>1, StateIs, GoneIs DEF StopWithoutPlugin, InState, Without, Started
  <2> QED
    BY <1>24, <2>1, <2>2 DEF StopWithoutPlugin, MetadataInv, MetadataOfThisSandbox, Started
<1>25. ASSUME NEW p \in Pods, Prepare(p) PROVE MetadataInv'
  <2>1. /\ handler.pod \in Pods /\ SandboxOK(sandbox, made) /\ EventOK(handler, made)
        /\ made \in Nat /\ handler.op \in {"none", "run", "stop"}
    BY DEF TypeInv, EventOK, CountersOK
  <2>2. PreparedFor(p) \subseteq Uses[p] /\ Uses[p] \subseteq Claims
    BY UsesFacts DEF TypeInv, EntriesOK, PreparedFor, Get
  <2>3. /\ EntriesOK(preparedClaims', made)
        /\ \A c \in Uses[p] : preparedClaims'[p][c] # NoEntry
    BY <1>25, <2>2, StoreOK DEF Prepare, PreparedFor
  <2>4. /\ \A q \in Pods \ {p} : \A k \in MetadataKeys(Uses[q]) :
              metadata'[k] = metadata[k] /\ (k \in overwritten' <=> k \in overwritten)
        /\ sandbox[p].number # 0 => \A k \in MetadataKeys(Uses[p]) :
              k \in overwritten' \/ (metadata'[k] = metadata[k] /\ k \notin overwritten)
    BY <1>25, <2>3, WriteMetadataOK, KeysDisjoint, KeysFacts, UsesFacts DEF Prepare
  <2>5. Started(p) \/ (handler.op # "none" /\ ~handler.lost
        /\ handler.pod = p) => sandbox[p].number # 0
    BY <2>1 DEF Started, LinkInv, SandboxOK, EventOK
  <2> QED
    BY <1>25, <2>1, <2>2, <2>3, <2>4, <2>5 DEF Prepare, MetadataInv, MetadataOfThisSandbox,
       Started
<1>26. ASSUME NEW p \in Pods, StartSandbox(p) PROVE MetadataInv'
  <2>1. /\ handler.pod \in Pods /\ SandboxOK(sandbox, made) /\ EventOK(handler, made)
        /\ made \in Nat /\ handler.op \in {"none", "run", "stop"}
    BY DEF TypeInv, EventOK, CountersOK
  <2>2. sandbox'[p].state = "starting" /\ \A q \in Pods \ {p} : sandbox'[q] = sandbox[q]
    BY <1>26, <2>1 DEF StartSandbox, SandboxOK
  <2> QED
    BY <1>26, <2>1, <2>2 DEF StartSandbox, MetadataInv, MetadataOfThisSandbox, Started
<1>27. ASSUME NEW p \in Pods, StopSandbox(p) PROVE MetadataInv'
  <2>1. /\ handler.pod \in Pods /\ SandboxOK(sandbox, made) /\ EventOK(handler, made)
        /\ made \in Nat /\ handler.op \in {"none", "run", "stop"}
    BY DEF TypeInv, EventOK, CountersOK
  <2>2. \A q \in Pods : Started(q)' => Started(q) /\ sandbox'[q].number = sandbox[q].number
    BY <1>27, <2>1, StateIs, GoneIs DEF StopSandbox, InState, Without, Started
  <2> QED
    BY <1>27, <2>1, <2>2 DEF StopSandbox, MetadataInv, MetadataOfThisSandbox, Started
<1>28. ASSUME NEW p \in Pods, Unprepare(p) PROVE MetadataInv'
  <2>1. /\ handler.pod \in Pods /\ SandboxOK(sandbox, made) /\ EventOK(handler, made)
        /\ made \in Nat /\ handler.op \in {"none", "run", "stop"}
    BY DEF TypeInv, EventOK, CountersOK
  <2>2. Continues(handler', handler) /\ handler'.lost = handler.lost
        /\ handler'.keys = handler.keys
    BY <1>28, UnlinkOK DEF Unprepare, Continues
  <2>3. Started(p) \/ (handler.op # "none" /\ ~handler.lost
        /\ handler.pod = p) => sandbox[p].number # 0
    BY <2>1 DEF Started, LinkInv, SandboxOK, EventOK
  <2>4. sandbox[p].number = 0
    BY <1>28, NoSandboxIff DEF Unprepare, WantsUnprepare, TypeInv, CountersOK
  <2>5. \A q \in Pods \ {p} : \A k \in MetadataKeys(Uses[q]) : metadata'[k] = metadata[k]
    BY <1>28, KeysDisjoint, KeysFacts, UsesFacts DEF Unprepare, TypeInv, MetadataOK
  <2> QED
    BY <1>28, <2>1, <2>2, <2>3, <2>4, <2>5 DEF Unprepare, Continues, MetadataInv,
       MetadataOfThisSandbox, Started
<1>29. ASSUME NEW p \in Pods, StopWithoutNamespace(p) PROVE MetadataInv'
  <2>1. /\ handler.pod \in Pods /\ SandboxOK(sandbox, made) /\ EventOK(handler, made)
        /\ made \in Nat /\ handler.op \in {"none", "run", "stop"}
    BY DEF TypeInv, EventOK, CountersOK
  <2>2. \A q \in Pods : Started(q)' => Started(q) /\ sandbox'[q].number = sandbox[q].number
    BY <1>29, <2>1, StateIs, GoneIs DEF StopWithoutNamespace, InState, Without, Started
  <2> QED
    BY <1>29, <2>1, <2>2 DEF StopWithoutNamespace, MetadataInv, MetadataOfThisSandbox, Started
<1>30. ASSUME NEW p \in Pods, Schedule(p) PROVE MetadataInv'
  BY <1>30 DEF Schedule, MetadataInv, MetadataOfThisSandbox, Started
<1>31. ASSUME NEW p \in Pods, Terminate(p) PROVE MetadataInv'
  BY <1>31 DEF Terminate, MetadataInv, MetadataOfThisSandbox, Started
<1>32. ASSUME NEW p \in Pods, SandboxDies(p) PROVE MetadataInv'
  <2>1. /\ handler.pod \in Pods /\ SandboxOK(sandbox, made) /\ EventOK(handler, made)
        /\ made \in Nat /\ handler.op \in {"none", "run", "stop"}
    BY DEF TypeInv, EventOK, CountersOK
  <2>2. \A q \in Pods : Started(q)' => Started(q) /\ sandbox'[q].number = sandbox[q].number
    BY <1>32, <2>1, StateIs, GoneIs DEF SandboxDies, InState, Without, Started
  <2> QED
    BY <1>32, <2>1, <2>2 DEF SandboxDies, MetadataInv, MetadataOfThisSandbox, Started
<1>33. ASSUME NEW p \in Pods, DiscardSandbox(p) PROVE MetadataInv'
  <2>1. /\ handler.pod \in Pods /\ SandboxOK(sandbox, made) /\ EventOK(handler, made)
        /\ made \in Nat /\ handler.op \in {"none", "run", "stop"}
    BY DEF TypeInv, EventOK, CountersOK
  <2>2. \A q \in Pods : Started(q)' => Started(q) /\ sandbox'[q].number = sandbox[q].number
    BY <1>33, <2>1, StateIs, GoneIs DEF DiscardSandbox, InState, Without, Started
  <2> QED
    BY <1>33, <2>1, <2>2 DEF DiscardSandbox, MetadataInv, MetadataOfThisSandbox, Started
<1>34. ASSUME NEW p \in Pods, PrepareFails(p) PROVE MetadataInv'
  <2>1. /\ handler.pod \in Pods /\ SandboxOK(sandbox, made) /\ EventOK(handler, made)
        /\ made \in Nat /\ handler.op \in {"none", "run", "stop"}
    BY DEF TypeInv, EventOK, CountersOK
  <2>2. PreparedFor(p) \subseteq Uses[p] /\ Uses[p] \subseteq Claims
    BY UsesFacts DEF TypeInv, EntriesOK, PreparedFor, Get
  <2>3. PICK stored \in SUBSET Uses[p], written \in SUBSET Uses[p], done \in SUBSET Uses[p] :
           done \subseteq stored /\ Store(p, stored, written)
                 /\ WriteMetadata(p, PreparedFor(p) \cup done)
    BY <1>34 DEF PrepareFails
  <2>4. /\ EntriesOK(preparedClaims', made)
        /\ \A c \in PreparedFor(p) \cup done : preparedClaims'[p][c] # NoEntry
    BY <2>2, <2>3, StoreOK DEF PreparedFor
  <2>5. /\ \A q \in Pods \ {p} : \A k \in MetadataKeys(Uses[q]) :
              metadata'[k] = metadata[k] /\ (k \in overwritten' <=> k \in overwritten)
        /\ sandbox[p].number # 0 => \A k \in MetadataKeys(Uses[p]) :
              k \in overwritten' \/ (metadata'[k] = metadata[k] /\ k \notin overwritten)
    BY <2>2, <2>3, <2>4, WriteMetadataOK, KeysDisjoint, KeysFacts, UsesFacts
  <2>6. Started(p) \/ (handler.op # "none" /\ ~handler.lost
        /\ handler.pod = p) => sandbox[p].number # 0
    BY <2>1 DEF Started, LinkInv, SandboxOK, EventOK
  <2> QED
    BY <1>34, <2>1, <2>2, <2>3, <2>4, <2>5, <2>6 DEF PrepareFails, MetadataInv,
       MetadataOfThisSandbox, Started
<1>35. ASSUME NEW p \in Pods, Rollback(p) PROVE MetadataInv'
  <2>1. Continues(handler', handler) /\ handler'.lost = handler.lost
        /\ handler'.keys = handler.keys
    BY <1>35, UnlinkOK DEF Rollback, Continues
  <2> QED
    BY <1>35, <2>1 DEF Rollback, Continues, MetadataInv, MetadataOfThisSandbox, Started
<1>36. ASSUME NEW p \in Pods, UnprepareFails(p) PROVE MetadataInv'
  <2>1. Continues(handler', handler) /\ handler'.lost = handler.lost
        /\ handler'.keys = handler.keys
    BY <1>36, UnlinkOK DEF UnprepareFails, Continues
  <2> QED
    BY <1>36, <2>1 DEF UnprepareFails, Continues, MetadataInv, MetadataOfThisSandbox, Started
<1> QED
  BY <1>1, <1>2, <1>3, <1>4, <1>5, <1>6, <1>7, <1>8, <1>9, <1>10, <1>11, <1>12, <1>13, <1>14,
     <1>15, <1>16, <1>17, <1>18, <1>19, <1>20, <1>21, <1>22, <1>23, <1>24, <1>25, <1>26, <1>27,
     <1>28, <1>29, <1>30, <1>31, <1>32, <1>33, <1>34, <1>35, <1>36 DEF Next, ProcessStep,
     HandlerStep, RuntimeStep, KubeletStep
-------------------------------------------------------------------------------
(***************************************************************************)
(* The theorems.                                                           *)
(***************************************************************************)

NetworkInv == TypeInv /\ LinkInv /\ CompleteInv /\ AttachInv /\ DetachInv /\ MetadataInv

\* A node without sandboxes.
LEMMA InitOK == ASSUME Init PROVE NetworkInv
<1>1. EntriesOK(preparedClaims, made) /\ EntriesOK(checkpoint, made)
  BY DEF Init, PodManagerInit, NoClaims, EntriesOK
<1>2. EventOK(handler, made) /\ handler.op = "none"
  BY NoEventOK DEF Init
<1>3. QueueOK(queue, made)
  BY NoItemsOK DEF Init
<1>4. SandboxOK(sandbox, made) /\ \A p \in Pods : sandbox[p].number = 0 /\ sandbox[p].state = "none"
  BY DEF Init, NoSandbox, SandboxOK, States
<1>5. MetadataOK(metadata, made)
  BY DEF Init, MetadataOK
<1>6. TypeInv
  BY <1>1, <1>2, <1>3, <1>4, <1>5
     DEF Init, TypeInv, ProcessOK, PodsOK, HistoryOK, CountersOK
<1>7. LinkInv
  BY <1>2 DEF LinkInv
<1>8. CompleteInv
  BY <1>4 DEF Init, CompleteInv, Needed
<1>9. AttachInv /\ MetadataInv
  BY <1>2, <1>4 DEF AttachInv, MetadataInv, StartedIsAttached, MetadataOfThisSandbox, Started
<1>10. DetachInv
  BY <1>2 DEF Init, DetachInv, StoppedIsDetached, Belongs
<1> QED
  BY <1>6, <1>7, <1>8, <1>9, <1>10 DEF NetworkInv

\* A step that changes nothing.
LEMMA StutterOK ==
    ASSUME NetworkInv, UNCHANGED vars
    PROVE  NetworkInv'
<1>1. /\ UNCHANGED <<preparedClaims, checkpoint, process, nri, handler, queue>>
      /\ UNCHANGED <<pod, kubeletPrepared, sandbox, made, attached, metadata, faults>>
      /\ UNCHANGED <<forgotten, bypassed, leaked, overwritten>>
  BY DEF vars, podManagerVars, pluginVars, kubeletVars, historyVars
<1>2. TypeInv'
  BY <1>1 DEF NetworkInv, TypeInv, ProcessOK, PodsOK, HistoryOK, CountersOK
<1>3. LinkInv'
  BY <1>1 DEF NetworkInv, LinkInv, Started
<1>4. CompleteInv'
  BY <1>1 DEF NetworkInv, CompleteInv, Needed, PreparedFor, Get
<1>5. AttachInv' /\ MetadataInv'
  BY <1>1 DEF NetworkInv, AttachInv, MetadataInv, StartedIsAttached, MetadataOfThisSandbox, Started
<1>6. DetachInv'
  BY <1>1 DEF NetworkInv, DetachInv, StoppedIsDetached, Belongs
<1> QED
  BY <1>2, <1>3, <1>4, <1>5, <1>6 DEF NetworkInv

\* The invariant that the others follow from: it ties the event under way to the
\* sandbox that the runtime holds for it and to what is already attached and
\* written, and the entries of the pod manager to the sandboxes that need them.
THEOREM NetworkInvariant == Spec => []NetworkInv
<1>1. Init => NetworkInv
  BY InitOK
<1>2. NetworkInv /\ [Next]_vars => NetworkInv'
  <2> SUFFICES ASSUME NetworkInv, [Next]_vars PROVE NetworkInv'
    OBVIOUS
  <2>1. CASE Next
    <3>1. TypeInv /\ LinkInv /\ CompleteInv /\ AttachInv /\ DetachInv /\ MetadataInv
      BY DEF NetworkInv
    <3> QED
      BY <2>1, <3>1, TypeStep, LinkStep, CompleteStep, AttachStep, DetachStep, MetadataStep
         DEF NetworkInv
  <2>2. CASE UNCHANGED vars
    BY <2>2, StutterOK
  <2> QED
    BY <2>1, <2>2
<1> QED
  BY <1>1, <1>2, PTL DEF Spec

\* TypeOK: the state of the process, the handler, the channel, the pod manager, the
\* metadata files and the sandboxes stays well formed, the channel within its
\* capacity, and the plugin connected only while the process runs.
THEOREM TypeCorrect == Spec => []TypeOK
<1>1. NetworkInv => TypeOK
  <2> SUFFICES ASSUME TypeInv PROVE TypeOK
    BY DEF NetworkInv
  <2>1. handler \in Event
    BY DEF TypeInv, EventOK, MetadataOK, Event, CountersOK
  <2>2. Len(queue) <= ChanSize /\ \A i \in DOMAIN queue : queue[i] \in Item
    BY DEF TypeInv, QueueOK, Items, Item, CountersOK
  <2> QED
    BY <2>1, <2>2 DEF TypeInv, EntriesOK, SandboxOK, States, MetadataOK, ProcessOK, PodsOK,
                      HistoryOK, CountersOK, TypeOK
<1> QED
  BY <1>1, NetworkInvariant, PTL

\* StartedIsAttached: a sandbox that RunPodSandbox let start has every device of the
\* pod's claims, whatever failed, was retried, restarted or closed before.
THEOREM StartedSandboxesAreAttached == Spec => []StartedIsAttached
<1>1. NetworkInv => StartedIsAttached
  BY DEF NetworkInv, AttachInv
<1> QED
  BY <1>1, NetworkInvariant, PTL

\* StoppedIsDetached: a sandbox that StopPodSandbox ended, with the entry of its pod,
\* leaves nothing attached; what remains attached belongs to a sandbox that exists,
\* or to one whose end the plugin did not see or could not finish.
THEOREM StoppedSandboxesAreDetached == Spec => []StoppedIsDetached
<1>1. NetworkInv => StoppedIsDetached
  BY DEF NetworkInv, DetachInv
<1> QED
  BY <1>1, NetworkInvariant, PTL

\* MetadataOfThisSandbox: a sandbox that RunPodSandbox let start finds its own
\* network data in the metadata of its claims, until a prepare is repeated.
THEOREM MetadataIsCurrent == Spec => []MetadataOfThisSandbox
<1>1. NetworkInv => MetadataOfThisSandbox
  BY DEF NetworkInv, MetadataInv
<1> QED
  BY <1>1, NetworkInvariant, PTL
===============================================================================
