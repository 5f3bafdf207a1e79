------------------------------- MODULE VfConfig -------------------------------
(***************************************************************************)
(* The parameters of a device: VfConfig and its Override                   *)
(* (pkg/api/virtualfunction/v1alpha1/api.go), and how the configs of an    *)
(* allocation are resolved per request (pkg/devicestate/statehelpers.go,   *)
(* prepareDevices in pkg/devicestate/state.go).                            *)
(*                                                                         *)
(* A config of an allocation is a record with its source ("class",         *)
(* "claim", or one this version does not know), whether it is opaque, the  *)
(* driver it is for, whether its parameters decode to a VfConfig, the      *)
(* requests it names, and the VfConfig.                                    *)
(***************************************************************************)
EXTENDS Naturals, Sequences

\* The parameters that Override takes over; "" is not set.  AddVhostMount and
\* NetAttachDefNamespace, which a config may set as well, are not among them.
Overridden == {"Driver", "IfName", "NetAttachDefName"}

DefaultVfConfig ==
    [Driver |-> "", IfName |-> "", NetAttachDefName |-> "",
     AddVhostMount |-> FALSE, NetAttachDefNamespace |-> ""]

Override(c, other) ==
    [f \in DOMAIN c |-> IF f \in Overridden /\ other[f] # "" THEN other[f] ELSE c[f]]

\* "" stands for all requests of the claim.
Named(c) == IF c.requests = {} THEN {""} ELSE c.requests

\* The errors: a source, or a kind of parameters, that this driver does not know,
\* and parameters that do not decode.  Other drivers' parameters are not decoded.
Resolvable(configs) ==
    \A i \in DOMAIN configs :
        /\ configs[i].source \in {"class", "claim"}
        /\ configs[i].opaque
        /\ configs[i].driver = "this" => configs[i].decodes

\* One config of the list: for each request it is for, it overrides what the map
\* has so far.  Other drivers' configs are passed over.
Merged(before, config) ==
    LET Found(r) == IF r \in DOMAIN before THEN before[r] ELSE DefaultVfConfig
    IN  IF config.driver # "this" THEN before ELSE
        [r \in DOMAIN before \cup Named(config) |->
            IF r \in Named(config) THEN Override(Found(r), config.config) ELSE before[r]]

\* The configs of one source, in their order.
MergeAll(configs, source, before) ==
    LET resultConfigs[i \in 0 .. Len(configs)] ==
            IF i = 0 THEN before
            ELSE IF configs[i].source = source THEN Merged(resultConfigs[i - 1], configs[i])
            ELSE resultConfigs[i - 1]
    IN  resultConfigs[Len(configs)]

NoConfigs == [r \in {} |-> DefaultVfConfig]

\* Bug variant of getMapOfOpaqueDeviceConfigForDevice: the claim's configs first.
ClaimConfigsFirst(configs) ==
    MergeAll(configs, "class", MergeAll(configs, "claim", NoConfigs))

\* The map from requests to their configs, where there are no errors: configs of
\* the class first, then those of the claim.
getMapOfOpaqueDeviceConfigForDevice(configs) ==
    MergeAll(configs, "claim", MergeAll(configs, "class", NoConfigs))

\* The config of a result: that of its request, else the one for all requests.
ConfigFor(resultsConfig, request) ==
    CASE request \in DOMAIN resultsConfig -> resultsConfig[request]
      [] request \notin DOMAIN resultsConfig /\ "" \in DOMAIN resultsConfig -> resultsConfig[""]
      [] OTHER -> DefaultVfConfig
===============================================================================
