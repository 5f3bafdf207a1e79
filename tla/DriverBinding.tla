----------------------------- MODULE DriverBinding ----------------------------
(***************************************************************************)
(* What the callers of pkg/host may count on: BindDeviceDriver and         *)
(* RestoreDeviceDriver as single steps with the outcomes of                *)
(* DriverOutcomes.  ClaimLifecycle is written against these outcomes;      *)
(* HostDriver, the sequence of sysfs accesses, is checked to implement     *)
(* this specification.                                                     *)
(***************************************************************************)
EXTENDS DriverOutcomes

VARIABLES bound,   \* the driver the device is bound to
          answer   \* what the last call returned: error or not, original driver

bindingVars == <<bound, answer>>

Answers == [ok : BOOLEAN, orig : Bindings]

Init == bound \in Bindings /\ answer = [ok |-> TRUE, orig |-> NoDriver]

\* The original driver is returned by a successful call that was asked for one.
Bind(req) ==
    \E o \in BindDeviceDriver(bound, req) :
        /\ bound' = o.to
        /\ answer' = [ok |-> o.ok,
                      orig |-> IF o.ok /\ req # NoDriver THEN bound ELSE NoDriver]

Restore(orig) ==
    \E o \in RestoreDeviceDriver(bound, orig) :
        /\ bound' = o.to
        /\ answer' = [ok |-> o.ok, orig |-> NoDriver]

Next == \/ \E req \in Requests : Bind(req)
        \/ \E orig \in Bindings : Restore(orig)

Spec == Init /\ [][Next]_bindingVars
===============================================================================
