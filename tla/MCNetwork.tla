------------------------------- MODULE MCNetwork -------------------------------
(***************************************************************************)
(* An instance of PodNetwork.tla: a pod with two claims, of one device     *)
(* each, a pod with one claim, and a pod without a network namespace.      *)
(***************************************************************************)
EXTENDS PodNetwork

ClaimsOfPods == [p \in Pods |-> CASE p = "pair" -> {"c1", "c2"} [] p = "single" -> {"c3"}
                                     [] p = "host" -> {"c4"}]
DeviceOfClaim == [c \in Claims |-> CASE c = "c1" -> {"vf1"} [] c = "c2" -> {"vf2"}
                                      [] c = "c3" -> {"vf3"} [] c = "c4" -> {"vf4"}]
OneRequest == [d \in Devices |-> "r"]
===============================================================================
