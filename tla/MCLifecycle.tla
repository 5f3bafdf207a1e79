----------------------------- MODULE MCLifecycle ------------------------------
(***************************************************************************)
(* Instances of ClaimLifecycle for TLC.                                    *)
(***************************************************************************)
EXTENDS ClaimLifecycle, TLC

CONSTANTS p1, p2, p3, c1, c2, d1, d2, d3

\* One claim per pod: c1 has both devices, asks for a driver of its own for each and
\* is used by p1 and later by p2; c2 has the second device.
SingleUses    == p1 :> <<c1>> @@ p2 :> <<c1>> @@ p3 :> <<c2>>
SingleResults == c1 :> <<d1, d2>> @@ c2 :> <<d2>>
SingleRequest == c1 :> (d1 :> "vfio-pci" @@ d2 :> "default")
                 @@ c2 :> (d1 :> NoDriver @@ d2 :> "default")
SingleNative  == d1 :> "iavf" @@ d2 :> "vfio-pci"

\* Two claims in pod p1, the first of which leaves one of its devices alone; p2 comes
\* later and reuses the second claim.
MultiUses    == p1 :> <<c1, c2>> @@ p2 :> <<c2>>
MultiResults == c1 :> <<d1, d2>> @@ c2 :> <<d3>>
MultiRequest == c1 :> (d1 :> NoDriver @@ d2 :> "vfio-pci" @@ d3 :> NoDriver)
                @@ c2 :> (d1 :> NoDriver @@ d2 :> NoDriver @@ d3 :> "vfio-pci")
MultiNative  == d1 :> "iavf" @@ d2 :> "iavf" @@ d3 :> "iavf"
===============================================================================
