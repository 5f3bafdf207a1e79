------------------------------ MODULE PodManager ------------------------------
(***************************************************************************)
(* pkg/podmanager/podmanager.go: the prepared claims of every pod, in      *)
(* memory and in the checkpoint file.  An operation changes the map first  *)
(* and writes the file second, under one mutex; the parameter ok is the    *)
(* result of the write.  A pod key exists in the Go map exactly when one   *)
(* of its claims does, so a map of maps with NoEntry for an absent claim   *)
(* loses nothing.                                                          *)
(***************************************************************************)
CONSTANTS Pods, Claims

VARIABLES preparedClaims,   \* preparedClaimsByPodUID
          checkpoint        \* contents of the checkpoint file

\* PrepareDevicesForClaim never returns an empty list of devices.
NoEntry == <<>>

NoClaims == [c \in Claims |-> NoEntry]

podManagerVars == <<preparedClaims, checkpoint>>

PodManagerInit ==
    /\ preparedClaims = [p \in Pods |-> NoClaims]
    /\ checkpoint = [p \in Pods |-> NoClaims]

Get(p, c) == preparedClaims[p][c] # NoEntry

\* The second result of GetDevicesByPodUID.
HasDevices(p) == \E c \in Claims : Get(p, c)

\* The entries GetByClaim and DeleteClaim may meet first: both range over a
\* Go map, whose order is arbitrary.
PodsWithClaim(c) == {p \in Pods : Get(p, c)}

syncToCheckpoint(ok) ==
    checkpoint' = IF ok THEN preparedClaims' ELSE checkpoint

Set(p, c, devices, ok) ==
    /\ preparedClaims' = [preparedClaims EXCEPT ![p][c] = devices]
    /\ syncToCheckpoint(ok)

\* The whole pod goes, with every other claim it holds.
DeleteClaim(c, ok) ==
    \E p \in PodsWithClaim(c) :
        /\ preparedClaims' = [preparedClaims EXCEPT ![p] = NoClaims]
        /\ syncToCheckpoint(ok)

\* The network data itself is left out; what remains is the write of the
\* whole map, which also saves what an earlier failed write did not.
UpdatePreparedDeviceNetworkData(ok) ==
    /\ UNCHANGED preparedClaims
    /\ syncToCheckpoint(ok)

\* newPodManager: a restarted process reads the file back.
Load ==
    /\ preparedClaims' = checkpoint
    /\ UNCHANGED checkpoint
===============================================================================
