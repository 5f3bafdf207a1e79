------------------------------ MODULE HostDriver ------------------------------
(***************************************************************************)
(* pkg/host/host.go, driver management: one device, its driver link and    *)
(* its driver_override, and every sysfs access of BindDeviceDriver and     *)
(* RestoreDeviceDriver as a step of its own that may fail.  The caller is  *)
(* the device-state manager: it binds the device for a claim, and then     *)
(* restores it, again and again until that succeeds.                       *)
(*                                                                         *)
(* External: the kernel.  Writing to a driver's bind file binds the device *)
(* when the driver exists and is the device's override; drivers_probe      *)
(* binds the override or, without one, the default driver.  The kernel is  *)
(* assumed to have driver_override (Linux 3.16 and later).                 *)
(***************************************************************************)
EXTENDS DriverOutcomes, Naturals

CONSTANT MaxFaults    \* failing accesses in one behaviour

ASSUME HostAssumption == MaxFaults \in Nat

VARIABLES driver,    \* the device's driver link
          override,  \* its driver_override
          call,      \* the call in progress
          answer,    \* what the last call returned
          held,      \* the caller has the device prepared for a claim
          original,  \* OriginalDriver, as the caller keeps it
          native,    \* history: the driver before the claim
          faults

vars == <<driver, override, call, answer, held, original, native, faults>>

Steps == {"idle", "current", "default", "defaultUnbind", "clear", "probe",
          "module", "read", "unbind", "override", "bind", "reset"}

Calls == [step    : Steps,               \* the next access
          op      : {"bind", "restore"},
          arg     : Requests,            \* config.Driver or originalDriver
          current : Bindings,            \* currentDriver of BindDeviceDriver
          start   : Bindings]            \* history: driver when it was called

Idle == [step |-> "idle", op |-> "bind", arg |-> NoDriver, current |-> NoDriver,
         start |-> NoDriver]

Init ==
    /\ driver \in Installed \cup {NoDriver}
    /\ override = NoDriver
    /\ call = Idle
    /\ answer = [ok |-> TRUE, orig |-> NoDriver]
    /\ held = FALSE
    /\ original = NoDriver
    /\ native = driver
    /\ faults = 0

\* The call returns.  The caller has the device after a successful bind and
\* until a successful restore.
Return(ok) ==
    /\ answer' = [ok |-> ok, orig |-> IF ok THEN call.current ELSE NoDriver]
    /\ held' = IF ok THEN call.op = "bind" ELSE held
    /\ original' = IF ok THEN call.current ELSE original
    /\ call' = Idle
    /\ UNCHANGED native

Goto(step) ==
    /\ call' = [call EXCEPT !.step = step]
    /\ UNCHANGED <<answer, held, original, native>>

\* The access of the current step fails, and with it the call.
AccessFails ==
    /\ call.step # "idle"
    /\ faults < MaxFaults
    /\ faults' = faults + 1
    /\ Return(FALSE)
    /\ UNCHANGED <<driver, override>>

At(step) == call.step = step /\ UNCHANGED faults
-------------------------------------------------------------------------------
(***************************************************************************)
(* BindDeviceDriver and RestoreDeviceDriver                                *)
(***************************************************************************)

\* With config.Driver = "" the call does nothing, and nothing is restored.
CallBindDeviceDriver(req) ==
    /\ At("idle") /\ ~held
    /\ req # NoDriver
    /\ call' = [step |-> "current", op |-> "bind", arg |-> req,
                current |-> NoDriver, start |-> driver]
    /\ native' = driver
    /\ UNCHANGED <<driver, override, answer, held, original>>

\* Bug variant of ReadCurrentDriver: "default" is taken for the name of a driver.
ReadCurrentNoDefault ==
    /\ At("current")
    /\ call' = [call EXCEPT !.current = driver, !.step = "module"]
    /\ UNCHANGED <<driver, override, answer, held, original, native>>

\* Bug variant of ReadCurrentDriver: the driver asked for is kept as original.
ReadWrongDriver ==
    /\ At("current")
    /\ call' = [call EXCEPT !.current = IF call.arg = "default" THEN driver ELSE call.arg,
                            !.step = IF call.arg = "default" THEN "default" ELSE "module"]
    /\ UNCHANGED <<driver, override, answer, held, original, native>>

ReadCurrentDriver ==
    /\ At("current")
    /\ call' = [call EXCEPT !.current = driver,
                            !.step = IF call.arg = "default" THEN "default" ELSE "module"]
    /\ UNCHANGED <<driver, override, answer, held, original, native>>

CallRestoreDeviceDriver ==
    /\ At("idle") /\ held
    /\ call' = [step |-> IF original = NoDriver THEN "default" ELSE "module",
                op |-> "restore", arg |-> original, current |-> NoDriver,
                start |-> driver]
    /\ UNCHANGED <<driver, override, answer, held, original, native>>
-------------------------------------------------------------------------------
(***************************************************************************)
(* BindDefaultDriver                                                       *)
(***************************************************************************)

\* A driver that is not a DPDK driver is taken for the default one.
DefaultRead ==
    /\ At("default")
    /\ CASE driver = NoDriver -> Goto("clear")
         [] driver \in DpdkDrivers -> Goto("defaultUnbind")
         [] OTHER -> Return(TRUE)
    /\ UNCHANGED <<driver, override>>

DefaultUnbind ==
    /\ At("defaultUnbind")
    /\ driver' = NoDriver
    /\ Goto("clear")
    /\ UNCHANGED override

\* Bug variant of DefaultClear: the override stays.
DefaultKeepOverride ==
    /\ At("clear")
    /\ Goto("probe")
    /\ UNCHANGED <<driver, override>>

DefaultClear ==
    /\ At("clear")
    /\ override' = NoDriver
    /\ Goto("probe")
    /\ UNCHANGED driver

Probe ==
    /\ At("probe")
    /\ driver' = IF override = NoDriver THEN DefaultDriver ELSE override
    /\ Return(TRUE)
    /\ UNCHANGED override
-------------------------------------------------------------------------------
(***************************************************************************)
(* BindDriverByBusAndDevice                                                *)
(***************************************************************************)

EnsureDpdkModuleLoaded ==
    /\ At("module")
    /\ IF ModuleKnown(call.arg) THEN Goto("read") ELSE Return(FALSE)
    /\ UNCHANGED <<driver, override>>

\* Bug variant of ReadDriver: a bound device is not unbound first.
ReadDriverNoUnbind ==
    /\ At("read")
    /\ IF driver = call.arg THEN Return(TRUE) ELSE Goto("override")
    /\ UNCHANGED <<driver, override>>

\* Bug variant of ReadDriver: a device without driver is an error.
ReadDriverStrict ==
    /\ At("read")
    /\ CASE driver = NoDriver -> Return(FALSE)
         [] driver = call.arg -> Return(TRUE)
         [] OTHER -> Goto("unbind")
    /\ UNCHANGED <<driver, override>>

ReadDriver ==
    /\ At("read")
    /\ CASE driver = NoDriver -> Goto("override")
         [] driver = call.arg -> Return(TRUE)
         [] OTHER -> Goto("unbind")
    /\ UNCHANGED <<driver, override>>

Unbind ==
    /\ At("unbind")
    /\ driver' = NoDriver
    /\ Goto("override")
    /\ UNCHANGED override

SetOverride ==
    /\ At("override")
    /\ override' = call.arg
    /\ Goto("bind")
    /\ UNCHANGED driver

\* The kernel refuses a driver that does not exist.
BindDriver ==
    /\ At("bind")
    /\ IF call.arg \in Installed
       THEN driver' = call.arg /\ Goto("reset")
       ELSE UNCHANGED driver /\ Return(FALSE)
    /\ UNCHANGED override

ResetOverride ==
    /\ At("reset")
    /\ override' = NoDriver
    /\ Return(TRUE)
    /\ UNCHANGED driver
-------------------------------------------------------------------------------
Step == \/ ReadCurrentDriver \/ DefaultRead \/ DefaultUnbind \/ DefaultClear \/ Probe
        \/ EnsureDpdkModuleLoaded \/ ReadDriver \/ Unbind \/ SetOverride \/ BindDriver
        \/ ResetOverride

Next == \/ \E req \in Requests : CallBindDeviceDriver(req)
        \/ CallRestoreDeviceDriver
        \/ Step
        \/ AccessFails

\* A call runs to its end, and the kubelet's retries bring the restore back.
Spec == Init /\ [][Next]_vars /\ WF_vars(Step) /\ WF_vars(CallRestoreDeviceDriver)
-------------------------------------------------------------------------------
TypeOK ==
    /\ driver \in Bindings /\ override \in Bindings
    /\ call \in Calls
    /\ answer \in [ok : BOOLEAN, orig : Bindings]
    /\ held \in BOOLEAN /\ original \in Bindings /\ native \in Bindings
    /\ faults \in 0..MaxFaults

\* Seen from outside, a call happens at once when it returns: whatever access
\* fails, driver and answer are among the outcomes that DriverBinding allows.
Atomic == INSTANCE DriverBinding WITH
              bound <- IF call.step = "idle" THEN driver ELSE call.start

ImplementsDriverBinding == Atomic!Spec

\* A bound device has no override that would give it to another driver at the
\* next probe: setDriverOverride is called on an unbound device only.
OverrideHarmless == driver # NoDriver => override \in {NoDriver, driver}

\* BindDeviceDriver and, after any number of failed attempts, RestoreDeviceDriver
\* bring the device back to the driver it had; one that had none gets a network
\* driver.
RoundTrip ==
    [][held /\ ~held' => IF native = NoDriver THEN driver' \in NetDrivers
                                             ELSE driver' = native]_vars

\* A restore that is retried succeeds once the accesses stop failing, provided
\* EnsureDpdkModuleLoaded knows the driver to go back to.
RestoreSucceeds ==
    held /\ (original = NoDriver \/ ModuleKnown(original)) ~> ~held
===============================================================================
