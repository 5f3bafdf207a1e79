--------------------------- MODULE HostDriverProofs ---------------------------
(***************************************************************************)
(* The driver bindings of pkg/host are type correct, a bound device never  *)
(* carries a foreign override, and bind followed by restore is a round     *)
(* trip: for all drivers, whatever accesses fail and however often.        *)
(***************************************************************************)
EXTENDS HostDriver, TLAPS

\* The steps of BindDriverByBusAndDevice and of BindDefaultDriver.
BindSteps    == {"module", "read", "unbind", "override", "bind", "reset"}
DefaultSteps == {"default", "defaultUnbind", "clear", "probe"}

\* Where a call is says what it has done to the device.
StepInv ==
    /\ call.step = "current" => call.arg # NoDriver
    /\ call.step \in BindSteps => call.arg \in Drivers
    /\ call.step \in {"override", "bind"} => driver = NoDriver
    /\ call.step \in {"bind", "reset"} => override = call.arg
    /\ call.step = "reset" => driver = call.arg
    /\ call.step \in {"clear", "probe"} => driver = NoDriver
    /\ call.step = "probe" => override = NoDriver

\* What is on record of the driver before the claim.
RecordInv ==
    /\ held => original = native
    /\ call.step # "idle" => (held <=> call.op = "restore")
    /\ call.step = "current" => driver = native /\ call.op = "bind"
    /\ (call.step \notin {"idle", "current"} /\ call.op = "bind") => call.current = native
    /\ (call.step # "idle" /\ call.op = "restore") => call.arg = native
    /\ (call.step \in DefaultSteps /\ call.op = "restore") => native = NoDriver

HostInv == TypeOK /\ OverrideHarmless /\ StepInv /\ RecordInv

USE DEF NoDriver

\* How the driver constants relate to the set of bindings.
LEMMA ConstantFacts ==
    /\ DefaultDriver \in NetDrivers /\ DefaultDriver \in Bindings
    /\ NetDrivers \subseteq Bindings /\ DpdkDrivers \subseteq Bindings
    /\ Drivers \subseteq Bindings /\ NoDriver \in Bindings /\ NoDriver \notin Drivers
    /\ Drivers \subseteq Requests /\ Installed \subseteq Drivers
    /\ NoDriver \in Requests /\ Bindings \subseteq Requests
    /\ Requests = Drivers \cup {NoDriver, "default"}
    /\ Bindings = NetDrivers \cup DpdkDrivers \cup {NoDriver}
    /\ "default" \notin Drivers /\ NoDriver \notin DpdkDrivers
  BY DriverAssumption DEF Bindings, Drivers, DpdkDrivers, Requests

\* The invariant holds of a device no claim has touched.
LEMMA HostInit == Init => HostInv
<1> SUFFICES ASSUME Init PROVE HostInv
  OBVIOUS
<1>1. call \in Calls
  BY ConstantFacts DEF Init, Idle, Calls, Steps
<1>2. driver \in Bindings /\ override \in Bindings /\ native \in Bindings
      /\ original \in Bindings
  BY ConstantFacts DEF Init
<1>3. answer \in [ok : BOOLEAN, orig : Bindings] /\ held \in BOOLEAN
  BY ConstantFacts DEF Init
<1>4. faults \in 0..MaxFaults
  BY HostAssumption DEF Init
<1>5. OverrideHarmless /\ StepInv /\ RecordInv
  BY DEF Init, OverrideHarmless, StepInv, RecordInv, Idle, BindSteps, DefaultSteps
<1> QED
  BY <1>1, <1>2, <1>3, <1>4, <1>5 DEF HostInv, TypeOK

\* A call that goes on to step s keeps all but the device's own facts.
LEMMA GotoInv ==
    ASSUME HostInv, NEW s \in Steps \ {"idle", "current"},
           call.step \notin {"idle", "current"},
           s \in DefaultSteps => call.step \in DefaultSteps,
           Goto(s)
    PROVE  /\ call' \in Calls /\ call'.step = s /\ call'.arg = call.arg
           /\ answer' \in [ok : BOOLEAN, orig : Bindings] /\ held' \in BOOLEAN
           /\ original' \in Bindings /\ native' \in Bindings
           /\ RecordInv'
<1>1. /\ call' \in Calls /\ call'.step = s /\ call'.arg = call.arg /\ call'.op = call.op
      /\ call'.current = call.current
  BY DEF HostInv, TypeOK, Calls, Goto
<1>2. RecordInv'
  BY <1>1 DEF HostInv, TypeOK, RecordInv, Goto
<1> QED
  BY <1>1, <1>2 DEF HostInv, TypeOK, Goto

\* So does one that returns, and the record is right if the call succeeded.
LEMMA ReturnInv ==
    ASSUME HostInv, NEW ok \in BOOLEAN,
           call.step # "idle", ok => call.step # "current",
           Return(ok)
    PROVE  /\ call' \in Calls /\ call'.step = "idle"
           /\ answer' \in [ok : BOOLEAN, orig : Bindings] /\ held' \in BOOLEAN
           /\ original' \in Bindings /\ native' \in Bindings
           /\ RecordInv'
<1>1. call' \in Calls /\ call'.step = "idle"
  BY ConstantFacts DEF Return, Idle, Calls, Steps
<1>2. CASE ok = TRUE
  <2>1. /\ answer' = [ok |-> TRUE, orig |-> call.current] /\ held' = (call.op = "bind")
        /\ original' = call.current /\ native' = native
    BY <1>2 DEF Return
  <2>2. call.current \in Bindings /\ native \in Bindings
    BY DEF HostInv, TypeOK, Calls
  <2>3. RecordInv'
    BY <1>1, <1>2, <2>1 DEF HostInv, RecordInv, DefaultSteps
  <2> QED
    BY <1>1, <2>1, <2>2, <2>3
<1>3. CASE ok = FALSE
  <2>1. /\ answer' = [ok |-> FALSE, orig |-> NoDriver] /\ held' = held
        /\ original' = original /\ native' = native
    BY <1>3 DEF Return
  <2>2. RecordInv'
    BY <1>1, <2>1 DEF HostInv, RecordInv, DefaultSteps
  <2> QED
    BY <1>1, <2>1, <2>2, ConstantFacts DEF HostInv, TypeOK
<1> QED
  BY <1>2, <1>3

\* The invariant is inductive: one case per sysfs step.
LEMMA HostNext == HostInv /\ [Next]_vars => HostInv'
<1> SUFFICES ASSUME HostInv, [Next]_vars PROVE HostInv'
  OBVIOUS
<1> USE DEF HostInv
<1>1. ASSUME NEW req \in Requests, CallBindDeviceDriver(req) PROVE HostInv'
  <2>1. call' \in Calls /\ call'.step = "current" /\ call'.op = "bind"
    BY <1>1, ConstantFacts DEF TypeOK, Calls, Steps, CallBindDeviceDriver
  <2>2. TypeOK'
    BY <1>1, <2>1 DEF TypeOK, At, CallBindDeviceDriver
  <2>3. OverrideHarmless' /\ StepInv'
    BY <1>1, <2>1 DEF OverrideHarmless, StepInv, BindSteps, CallBindDeviceDriver
  <2>4. RecordInv'
    BY <1>1, <2>1 DEF RecordInv, DefaultSteps, At, CallBindDeviceDriver
  <2> QED
    BY <2>2, <2>3, <2>4
<1>2. CASE CallRestoreDeviceDriver
  <2>1. /\ call' \in Calls /\ call'.op = "restore" /\ call'.arg = original
        /\ original = NoDriver => call'.step = "default"
        /\ original # NoDriver => call'.step = "module"
    BY <1>2, ConstantFacts DEF TypeOK, Calls, Steps, CallRestoreDeviceDriver
  <2>2. TypeOK'
    BY <1>2, <2>1 DEF TypeOK, At, CallRestoreDeviceDriver
  <2>3. original # NoDriver => original \in Drivers
    BY ConstantFacts DEF TypeOK, Drivers
  <2>4. OverrideHarmless' /\ StepInv'
    BY <1>2, <2>1, <2>3 DEF OverrideHarmless, StepInv, BindSteps, CallRestoreDeviceDriver
  <2>5. RecordInv'
    BY <1>2, <2>1 DEF RecordInv, DefaultSteps, At, CallRestoreDeviceDriver
  <2> QED
    BY <2>2, <2>4, <2>5
<1>3. CASE ReadCurrentDriver
  <2>1. /\ call \in Calls /\ driver \in Bindings /\ call.step = "current"
        /\ call.op = "bind" /\ ~held /\ driver = native
    BY <1>3 DEF TypeOK, RecordInv, ReadCurrentDriver, At, Calls
  <2>2. PICK s \in {"default", "module"} :
            /\ call' = [call EXCEPT !.current = driver, !.step = s]
            /\ s = "module" => call.arg # "default"
    BY <1>3 DEF ReadCurrentDriver
  <2>3. /\ call' \in Calls /\ call'.op = "bind" /\ call'.arg = call.arg
        /\ call'.current = driver /\ call'.step = s
    BY <2>1, <2>2 DEF Calls, Steps
  <2>4. TypeOK'
    BY <1>3, <2>3 DEF TypeOK, At, ReadCurrentDriver
  <2>5. s = "module" => call.arg \in Drivers
    BY <2>1, <2>2, ConstantFacts DEF Calls, StepInv
  <2>6. OverrideHarmless' /\ StepInv'
    BY <1>3, <2>3, <2>5 DEF OverrideHarmless, StepInv, BindSteps, ReadCurrentDriver
  <2>7. RecordInv'
    BY <1>3, <2>1, <2>3 DEF RecordInv, DefaultSteps, ReadCurrentDriver
  <2> QED
    BY <2>4, <2>6, <2>7
<1>4. CASE DefaultRead
  <2>1. call.step \notin {"idle", "current"}
    BY <1>4 DEF DefaultRead, At
  <2>2. CASE driver = NoDriver
    <3>1. Goto("clear")
      BY <1>4, <2>2, ConstantFacts DEF DefaultRead, StepInv, BindSteps, At
    <3>2. call' \in Calls /\ RecordInv' /\ answer' \in [ok : BOOLEAN, orig : Bindings]
          /\ held' \in BOOLEAN /\ original' \in Bindings /\ native' \in Bindings
          /\ call'.step = "clear" /\ call'.arg = call.arg
      BY <1>4, <2>1, <3>1, GotoInv DEF Steps, DefaultSteps, DefaultRead, At
    <3>3. TypeOK'
      BY <1>4, <2>2, <3>2, ConstantFacts DEF TypeOK, Calls, StepInv, BindSteps, DefaultRead, At
    <3>4. OverrideHarmless' /\ StepInv'
      BY <1>4, <2>2, <3>2, ConstantFacts
         DEF TypeOK, Calls, OverrideHarmless, StepInv, BindSteps, DefaultRead, At
    <3> QED
      BY <3>2, <3>3, <3>4
  <2>3. CASE driver # NoDriver /\ driver \in DpdkDrivers
    <3>1. Goto("defaultUnbind")
      BY <1>4, <2>3, ConstantFacts DEF DefaultRead, StepInv, BindSteps, At
    <3>2. call' \in Calls /\ RecordInv' /\ answer' \in [ok : BOOLEAN, orig : Bindings]
          /\ held' \in BOOLEAN /\ original' \in Bindings /\ native' \in Bindings
          /\ call'.step = "defaultUnbind" /\ call'.arg = call.arg
      BY <1>4, <2>1, <3>1, GotoInv DEF Steps, DefaultSteps, DefaultRead, At
    <3>3. TypeOK'
      BY <1>4, <2>3, <3>2, ConstantFacts DEF TypeOK, Calls, StepInv, BindSteps, DefaultRead, At
    <3>4. OverrideHarmless' /\ StepInv'
      BY <1>4, <2>3, <3>2, ConstantFacts
         DEF TypeOK, Calls, OverrideHarmless, StepInv, BindSteps, DefaultRead, At
    <3> QED
      BY <3>2, <3>3, <3>4
  <2>4. CASE driver # NoDriver /\ driver \notin DpdkDrivers
    <3>1. Return(TRUE)
      BY <1>4, <2>4, ConstantFacts DEF DefaultRead, StepInv, BindSteps, At
    <3>2. call' \in Calls /\ RecordInv' /\ answer' \in [ok : BOOLEAN, orig : Bindings]
          /\ held' \in BOOLEAN /\ original' \in Bindings /\ native' \in Bindings
          /\ call'.step = "idle"
      BY <1>4, <2>1, <3>1, ReturnInv DEF Steps, DefaultSteps, DefaultRead, At
    <3>3. TypeOK'
      BY <1>4, <2>4, <3>2, ConstantFacts DEF TypeOK, Calls, StepInv, BindSteps, DefaultRead, At
    <3>4. OverrideHarmless' /\ StepInv'
      BY <1>4, <2>4, <3>2, ConstantFacts
         DEF TypeOK, Calls, OverrideHarmless, StepInv, BindSteps, DefaultRead, At
    <3> QED
      BY <3>2, <3>3, <3>4
  <2> QED
    BY <1>4, <2>2, <2>3, <2>4 DEF DefaultRead
<1>5. CASE DefaultUnbind
  <2>1. call.step \notin {"idle", "current"}
    BY <1>5 DEF DefaultUnbind, At
  <2>2. HostInv'
    <3>1. Goto("clear")
      BY <1>5, ConstantFacts DEF DefaultUnbind, StepInv, BindSteps, At
    <3>2. call' \in Calls /\ RecordInv' /\ answer' \in [ok : BOOLEAN, orig : Bindings]
          /\ held' \in BOOLEAN /\ original' \in Bindings /\ native' \in Bindings
          /\ call'.step = "clear" /\ call'.arg = call.arg
      BY <1>5, <2>1, <3>1, GotoInv DEF Steps, DefaultSteps, DefaultUnbind, At
    <3>3. TypeOK'
      BY <1>5, <3>2, ConstantFacts DEF TypeOK, Calls, StepInv, BindSteps, DefaultUnbind, At
    <3>4. OverrideHarmless' /\ StepInv'
      BY <1>5, <3>2, ConstantFacts
         DEF TypeOK, Calls, OverrideHarmless, StepInv, BindSteps, DefaultUnbind, At
    <3> QED
      BY <3>2, <3>3, <3>4
  <2> QED
    BY <1>5, <2>2 DEF DefaultUnbind
<1>6. CASE DefaultClear
  <2>1. call.step \notin {"idle", "current"}
    BY <1>6 DEF DefaultClear, At
  <2>2. HostInv'
    <3>1. Goto("probe")
      BY <1>6, ConstantFacts DEF DefaultClear, StepInv, BindSteps, At
    <3>2. call' \in Calls /\ RecordInv' /\ answer' \in [ok : BOOLEAN, orig : Bindings]
          /\ held' \in BOOLEAN /\ original' \in Bindings /\ native' \in Bindings
          /\ call'.step = "probe" /\ call'.arg = call.arg
      BY <1>6, <2>1, <3>1, GotoInv DEF Steps, DefaultSteps, DefaultClear, At
    <3>3. TypeOK'
      BY <1>6, <3>2, ConstantFacts DEF TypeOK, Calls, StepInv, BindSteps, DefaultClear, At
    <3>4. OverrideHarmless' /\ StepInv'
      BY <1>6, <3>2, ConstantFacts
         DEF TypeOK, Calls, OverrideHarmless, StepInv, BindSteps, DefaultClear, At
    <3> QED
      BY <3>2, <3>3, <3>4
  <2> QED
    BY <1>6, <2>2 DEF DefaultClear
<1>7. CASE Probe
  <2>1. call.step \notin {"idle", "current"}
    BY <1>7 DEF Probe, At
  <2>2. HostInv'
    <3>1. Return(TRUE)
      BY <1>7, ConstantFacts DEF Probe, StepInv, BindSteps, At
    <3>2. call' \in Calls /\ RecordInv' /\ answer' \in [ok : BOOLEAN, orig : Bindings]
          /\ held' \in BOOLEAN /\ original' \in Bindings /\ native' \in Bindings
          /\ call'.step = "idle"
      BY <1>7, <2>1, <3>1, ReturnInv DEF Steps, DefaultSteps, Probe, At
    <3>3. TypeOK'
      BY <1>7, <3>2, ConstantFacts DEF TypeOK, Calls, StepInv, BindSteps, Probe, At
    <3>4. OverrideHarmless' /\ StepInv'
      BY <1>7, <3>2, ConstantFacts
         DEF TypeOK, Calls, OverrideHarmless, StepInv, BindSteps, Probe, At
    <3> QED
      BY <3>2, <3>3, <3>4
  <2> QED
    BY <1>7, <2>2 DEF Probe
<1>8. CASE EnsureDpdkModuleLoaded
  <2>1. call.step \notin {"idle", "current"}
    BY <1>8 DEF EnsureDpdkModuleLoaded, At
  <2>2. CASE ModuleKnown(call.arg)
    <3>1. Goto("read")
      BY <1>8, <2>2, ConstantFacts DEF EnsureDpdkModuleLoaded, StepInv, BindSteps, At
    <3>2. call' \in Calls /\ RecordInv' /\ answer' \in [ok : BOOLEAN, orig : Bindings]
          /\ held' \in BOOLEAN /\ original' \in Bindings /\ native' \in Bindings
          /\ call'.step = "read" /\ call'.arg = call.arg
      BY <1>8, <2>1, <3>1, GotoInv DEF Steps, DefaultSteps, EnsureDpdkModuleLoaded, At
    <3>3. TypeOK'
      BY <1>8, <2>2, <3>2, ConstantFacts DEF TypeOK, Calls, StepInv, BindSteps, EnsureDpdkModuleLoaded, At
    <3>4. OverrideHarmless' /\ StepInv'
      BY <1>8, <2>2, <3>2, ConstantFacts
         DEF TypeOK, Calls, OverrideHarmless, StepInv, BindSteps, EnsureDpdkModuleLoaded, At
    <3> QED
      BY <3>2, <3>3, <3>4
  <2>3. CASE ~ModuleKnown(call.arg)
    <3>1. Return(FALSE)
      BY <1>8, <2>3, ConstantFacts DEF EnsureDpdkModuleLoaded, StepInv, BindSteps, At
    <3>2. call' \in Calls /\ RecordInv' /\ answer' \in [ok : BOOLEAN, orig : Bindings]
          /\ held' \in BOOLEAN /\ original' \in Bindings /\ native' \in Bindings
          /\ call'.step = "idle"
      BY <1>8, <2>1, <3>1, ReturnInv DEF Steps, DefaultSteps, EnsureDpdkModuleLoaded, At
    <3>3. TypeOK'
      BY <1>8, <2>3, <3>2, ConstantFacts DEF TypeOK, Calls, StepInv, BindSteps, EnsureDpdkModuleLoaded, At
    <3>4. OverrideHarmless' /\ StepInv'
      BY <1>8, <2>3, <3>2, ConstantFacts
         DEF TypeOK, Calls, OverrideHarmless, StepInv, BindSteps, EnsureDpdkModuleLoaded, At
    <3> QED
      BY <3>2, <3>3, <3>4
  <2> QED
    BY <1>8, <2>2, <2>3 DEF EnsureDpdkModuleLoaded
<1>9. CASE ReadDriver
  <2>1. call.step \notin {"idle", "current"}
    BY <1>9 DEF ReadDriver, At
  <2>2. CASE driver = NoDriver
    <3>1. Goto("override")
      BY <1>9, <2>2, ConstantFacts DEF ReadDriver, StepInv, BindSteps, At
    <3>2. call' \in Calls /\ RecordInv' /\ answer' \in [ok : BOOLEAN, orig : Bindings]
          /\ held' \in BOOLEAN /\ original' \in Bindings /\ native' \in Bindings
          /\ call'.step = "override" /\ call'.arg = call.arg
      BY <1>9, <2>1, <3>1, GotoInv DEF Steps, DefaultSteps, ReadDriver, At
    <3>3. TypeOK'
      BY <1>9, <2>2, <3>2, ConstantFacts DEF TypeOK, Calls, StepInv, BindSteps, ReadDriver, At
    <3>4. OverrideHarmless' /\ StepInv'
      BY <1>9, <2>2, <3>2, ConstantFacts
         DEF TypeOK, Calls, OverrideHarmless, StepInv, BindSteps, ReadDriver, At
    <3> QED
      BY <3>2, <3>3, <3>4
  <2>3. CASE driver # NoDriver /\ driver = call.arg
    <3>1. Return(TRUE)
      BY <1>9, <2>3, ConstantFacts DEF ReadDriver, StepInv, BindSteps, At
    <3>2. call' \in Calls /\ RecordInv' /\ answer' \in [ok : BOOLEAN, orig : Bindings]
          /\ held' \in BOOLEAN /\ original' \in Bindings /\ native' \in Bindings
          /\ call'.step = "idle"
      BY <1>9, <2>1, <3>1, ReturnInv DEF Steps, DefaultSteps, ReadDriver, At
    <3>3. TypeOK'
      BY <1>9, <2>3, <3>2, ConstantFacts DEF TypeOK, Calls, StepInv, BindSteps, ReadDriver, At
    <3>4. OverrideHarmless' /\ StepInv'
      BY <1>9, <2>3, <3>2, ConstantFacts
         DEF TypeOK, Calls, OverrideHarmless, StepInv, BindSteps, ReadDriver, At
    <3> QED
      BY <3>2, <3>3, <3>4
  <2>4. CASE driver # NoDriver /\ driver # call.arg
    <3>1. Goto("unbind")
      BY <1>9, <2>4, ConstantFacts DEF ReadDriver, StepInv, BindSteps, At
    <3>2. call' \in Calls /\ RecordInv' /\ answer' \in [ok : BOOLEAN, orig : Bindings]
          /\ held' \in BOOLEAN /\ original' \in Bindings /\ native' \in Bindings
          /\ call'.step = "unbind" /\ call'.arg = call.arg
      BY <1>9, <2>1, <3>1, GotoInv DEF Steps, DefaultSteps, ReadDriver, At
    <3>3. TypeOK'
      BY <1>9, <2>4, <3>2, ConstantFacts DEF TypeOK, Calls, StepInv, BindSteps, ReadDriver, At
    <3>4. OverrideHarmless' /\ StepInv'
      BY <1>9, <2>4, <3>2, ConstantFacts
         DEF TypeOK, Calls, OverrideHarmless, StepInv, BindSteps, ReadDriver, At
    <3> QED
      BY <3>2, <3>3, <3>4
  <2> QED
    BY <1>9, <2>2, <2>3, <2>4 DEF ReadDriver
<1>10. CASE Unbind
  <2>1. call.step \notin {"idle", "current"}
    BY <1>10 DEF Unbind, At
  <2>2. HostInv'
    <3>1. Goto("override")
      BY <1>10, ConstantFacts DEF Unbind, StepInv, BindSteps, At
    <3>2. call' \in Calls /\ RecordInv' /\ answer' \in [ok : BOOLEAN, orig : Bindings]
          /\ held' \in BOOLEAN /\ original' \in Bindings /\ native' \in Bindings
          /\ call'.step = "override" /\ call'.arg = call.arg
      BY <1>10, <2>1, <3>1, GotoInv DEF Steps, DefaultSteps, Unbind, At
    <3>3. TypeOK'
      BY <1>10, <3>2, ConstantFacts DEF TypeOK, Calls, StepInv, BindSteps, Unbind, At
    <3>4. OverrideHarmless' /\ StepInv'
      BY <1>10, <3>2, ConstantFacts
         DEF TypeOK, Calls, OverrideHarmless, StepInv, BindSteps, Unbind, At
    <3> QED
      BY <3>2, <3>3, <3>4
  <2> QED
    BY <1>10, <2>2 DEF Unbind
<1>11. CASE SetOverride
  <2>1. call.step \notin {"idle", "current"}
    BY <1>11 DEF SetOverride, At
  <2>2. HostInv'
    <3>1. Goto("bind")
      BY <1>11, ConstantFacts DEF SetOverride, StepInv, BindSteps, At
    <3>2. call' \in Calls /\ RecordInv' /\ answer' \in [ok : BOOLEAN, orig : Bindings]
          /\ held' \in BOOLEAN /\ original' \in Bindings /\ native' \in Bindings
          /\ call'.step = "bind" /\ call'.arg = call.arg
      BY <1>11, <2>1, <3>1, GotoInv DEF Steps, DefaultSteps, SetOverride, At
    <3>3. TypeOK'
      BY <1>11, <3>2, ConstantFacts DEF TypeOK, Calls, StepInv, BindSteps, SetOverride, At
    <3>4. OverrideHarmless' /\ StepInv'
      BY <1>11, <3>2, ConstantFacts
         DEF TypeOK, Calls, OverrideHarmless, StepInv, BindSteps, SetOverride, At
    <3> QED
      BY <3>2, <3>3, <3>4
  <2> QED
    BY <1>11, <2>2 DEF SetOverride
<1>12. CASE BindDriver
  <2>1. call.step \notin {"idle", "current"}
    BY <1>12 DEF BindDriver, At
  <2>2. CASE call.arg \in Installed
    <3>1. Goto("reset")
      BY <1>12, <2>2, ConstantFacts DEF BindDriver, StepInv, BindSteps, At
    <3>2. call' \in Calls /\ RecordInv' /\ answer' \in [ok : BOOLEAN, orig : Bindings]
          /\ held' \in BOOLEAN /\ original' \in Bindings /\ native' \in Bindings
          /\ call'.step = "reset" /\ call'.arg = call.arg
      BY <1>12, <2>1, <3>1, GotoInv DEF Steps, DefaultSteps, BindDriver, At
    <3>3. TypeOK'
      BY <1>12, <2>2, <3>2, ConstantFacts DEF TypeOK, Calls, StepInv, BindSteps, BindDriver, At
    <3>4. OverrideHarmless' /\ StepInv'
      BY <1>12, <2>2, <3>2, ConstantFacts
         DEF TypeOK, Calls, OverrideHarmless, StepInv, BindSteps, BindDriver, At
    <3> QED
      BY <3>2, <3>3, <3>4
  <2>3. CASE call.arg \notin Installed
    <3>1. Return(FALSE)
      BY <1>12, <2>3, ConstantFacts DEF BindDriver, StepInv, BindSteps, At
    <3>2. call' \in Calls /\ RecordInv' /\ answer' \in [ok : BOOLEAN, orig : Bindings]
          /\ held' \in BOOLEAN /\ original' \in Bindings /\ native' \in Bindings
          /\ call'.step = "idle"
      BY <1>12, <2>1, <3>1, ReturnInv DEF Steps, DefaultSteps, BindDriver, At
    <3>3. TypeOK'
      BY <1>12, <2>3, <3>2, ConstantFacts DEF TypeOK, Calls, StepInv, BindSteps, BindDriver, At
    <3>4. OverrideHarmless' /\ StepInv'
      BY <1>12, <2>3, <3>2, ConstantFacts
         DEF TypeOK, Calls, OverrideHarmless, StepInv, BindSteps, BindDriver, At
    <3> QED
      BY <3>2, <3>3, <3>4
  <2> QED
    BY <1>12, <2>2, <2>3 DEF BindDriver
<1>13. CASE ResetOverride
  <2>1. call.step \notin {"idle", "current"}
    BY <1>13 DEF ResetOverride, At
  <2>2. HostInv'
    <3>1. Return(TRUE)
      BY <1>13, ConstantFacts DEF ResetOverride, StepInv, BindSteps, At
    <3>2. call' \in Calls /\ RecordInv' /\ answer' \in [ok : BOOLEAN, orig : Bindings]
          /\ held' \in BOOLEAN /\ original' \in Bindings /\ native' \in Bindings
          /\ call'.step = "idle"
      BY <1>13, <2>1, <3>1, ReturnInv DEF Steps, DefaultSteps, ResetOverride, At
    <3>3. TypeOK'
      BY <1>13, <3>2, ConstantFacts DEF TypeOK, Calls, StepInv, BindSteps, ResetOverride, At
    <3>4. OverrideHarmless' /\ StepInv'
      BY <1>13, <3>2, ConstantFacts
         DEF TypeOK, Calls, OverrideHarmless, StepInv, BindSteps, ResetOverride, At
    <3> QED
      BY <3>2, <3>3, <3>4
  <2> QED
    BY <1>13, <2>2 DEF ResetOverride
<1>14. CASE AccessFails
  <2>1. call' \in Calls /\ RecordInv' /\ answer' \in [ok : BOOLEAN, orig : Bindings]
        /\ held' \in BOOLEAN /\ original' \in Bindings /\ native' \in Bindings
        /\ call'.step = "idle"
    BY <1>14, ReturnInv DEF AccessFails
  <2>2. TypeOK'
    BY <1>14, <2>1, HostAssumption DEF TypeOK, AccessFails
  <2>3. OverrideHarmless' /\ StepInv'
    BY <1>14, <2>1 DEF OverrideHarmless, StepInv, BindSteps, AccessFails
  <2> QED
    BY <2>1, <2>2, <2>3
<1>15. CASE UNCHANGED vars
  BY <1>15 DEF vars, TypeOK, OverrideHarmless, StepInv, RecordInv
<1> QED
  BY <1>1, <1>2, <1>3, <1>4, <1>5, <1>6, <1>7, <1>8, <1>9, <1>10, <1>11, <1>12,
     <1>13, <1>14, <1>15
     DEF Next, Step

\* The invariant holds throughout every behaviour.
LEMMA HostInvariant == Spec => []HostInv
  BY HostInit, HostNext, PTL DEF Spec

\* Every call of BindDeviceDriver and RestoreDeviceDriver leaves driver, override
\* and record well typed, whatever accesses fail.
THEOREM TypeCorrect == Spec => []TypeOK
  BY HostInvariant, PTL DEF HostInv

\* setDriverOverride never leaves a bound device with the override of another
\* driver: the next probe finds it where it is.
THEOREM OverrideIsHarmless == Spec => []OverrideHarmless
  BY HostInvariant, PTL DEF HostInv

\* The step that ends a claim's hold on a device is a successful restore.
LEMMA ReleaseIsReturn ==
    ASSUME HostInv, Next, held, ~held'
    PROVE  Return(TRUE) /\ call.op = "restore" /\ Step
<1>1. \A ok \in BOOLEAN : Return(ok) => ok = TRUE /\ call.op = "restore"
  BY DEF Return, HostInv, TypeOK, Calls
<1>2. \A s : ~Goto(s)
  BY DEF Goto
<1> QED
  BY <1>1, <1>2
     DEF Next, Step, CallBindDeviceDriver, CallRestoreDeviceDriver, ReadCurrentDriver,
         DefaultRead, DefaultUnbind, DefaultClear, Probe, EnsureDpdkModuleLoaded,
         ReadDriver, Unbind, SetOverride, BindDriver, ResetOverride, AccessFails

\* The step that releases the device leaves it on the driver it had before it was prepared.
LEMMA ReleaseRestores ==
    ASSUME HostInv, Next, held, ~held'
    PROVE  IF native = NoDriver THEN driver' \in NetDrivers ELSE driver' = native
<1>1. Step /\ call.op = "restore"
  BY ReleaseIsReturn
<1>2. \A s : ~Goto(s)
  BY DEF Goto
<1>3. \A ok \in BOOLEAN : Return(ok) => ok = TRUE
  BY DEF Return, HostInv, TypeOK
<1>4. CASE DefaultRead
  BY <1>1, <1>2, <1>4, ConstantFacts
     DEF HostInv, TypeOK, RecordInv, DefaultSteps, DefaultRead, At
<1>5. CASE Probe
  BY <1>1, <1>5, ConstantFacts DEF HostInv, StepInv, RecordInv, DefaultSteps, Probe, At
<1>6. CASE ReadDriver
  BY <1>1, <1>2, <1>6, ConstantFacts
     DEF HostInv, StepInv, RecordInv, BindSteps, ReadDriver, At
<1>7. CASE ResetOverride
  BY <1>1, <1>7, ConstantFacts
     DEF HostInv, StepInv, RecordInv, BindSteps, ResetOverride, At
<1>8. CASE EnsureDpdkModuleLoaded \/ BindDriver
  BY <1>2, <1>3, <1>8 DEF EnsureDpdkModuleLoaded, BindDriver
<1>9. CASE ReadCurrentDriver \/ DefaultUnbind \/ DefaultClear \/ Unbind \/ SetOverride
  BY <1>2, <1>9 DEF ReadCurrentDriver, DefaultUnbind, DefaultClear, Unbind, SetOverride
<1> QED
  BY <1>1, <1>4, <1>5, <1>6, <1>7, <1>8, <1>9 DEF Step

\* However many accesses and whole calls fail in between, the restore that lets a
\* device go leaves it on the driver it had before the claim, and a device that
\* had none on a network driver.
THEOREM RoundTripHolds == Spec => RoundTrip
<1>1. HostInv /\ [Next]_vars =>
          [held /\ ~held' => IF native = NoDriver THEN driver' \in NetDrivers
                                                 ELSE driver' = native]_vars
  BY ReleaseRestores
<1> QED
  BY <1>1, HostInvariant, PTL DEF Spec, RoundTrip
-------------------------------------------------------------------------------
(***************************************************************************)
(* The refinement of DriverBinding.  A call takes effect when it returns;  *)
(* StartInv says how far it has taken the device from where it found it.   *)
(***************************************************************************)

StartInv ==
    /\ call.step \in {"current", "default", "defaultUnbind", "module", "read", "unbind"}
           => driver = call.start
    /\ call.step \in {"clear", "probe"} => call.start \notin NetDrivers
    /\ call.step = "defaultUnbind" => driver \in DpdkDrivers
    /\ call.step \in BindSteps \ {"module"} => ModuleKnown(call.arg)
    /\ call.step \in BindSteps \ {"module", "read"} => call.start # call.arg
    /\ call.step = "reset" => call.arg \in Installed
    /\ (call.step \in DefaultSteps /\ call.op = "bind") => call.arg = "default"
    /\ (call.step \notin {"idle", "current"} /\ call.op = "bind") => call.current = call.start
    /\ (call.step # "idle" /\ call.op = "restore") => call.current = NoDriver
    /\ (call.step # "idle" /\ call.op = "bind") => call.arg # NoDriver

\* The driver kinds are disjoint.
LEMMA DriverKinds == NoDriver \notin NetDrivers /\ DpdkDrivers \cap NetDrivers = {}
  BY DriverAssumption

\* No call is in progress initially, so the binding it started from is not constrained.
LEMMA StartInit == Init => StartInv
  BY DEF Init, StartInv, Idle, BindSteps, DefaultSteps

\* Moving to the next sysfs step of a call leaves its argument and starting binding alone.
LEMMA StartGoto ==
    ASSUME TypeOK, NEW s \in Steps, Goto(s)
    PROVE  /\ call'.step = s /\ call'.arg = call.arg /\ call'.op = call.op
           /\ call'.current = call.current /\ call'.start = call.start
  BY DEF TypeOK, Calls, Goto

\* A call that returns leaves nothing to remember of its start.
LEMMA StartReturn == ASSUME NEW ok, Return(ok) PROVE StartInv'
  BY DEF Return, Idle, StartInv, BindSteps, DefaultSteps

\* What is known of the binding at the start of the call is inductive.
LEMMA StartNext == HostInv /\ StartInv /\ [Next]_vars => StartInv'
<1> SUFFICES ASSUME HostInv, StartInv, [Next]_vars PROVE StartInv'
  OBVIOUS
<1>1. ASSUME NEW req \in Requests, CallBindDeviceDriver(req) PROVE StartInv'
  BY <1>1 DEF CallBindDeviceDriver, StartInv, BindSteps, DefaultSteps
<1>2. CASE CallRestoreDeviceDriver
  <2>1. call'.step \in {"default", "module"} /\ call'.op = "restore"
        /\ call'.current = NoDriver /\ call'.start = driver /\ driver' = driver
    BY <1>2 DEF CallRestoreDeviceDriver
  <2> QED
    BY <2>1 DEF StartInv, BindSteps, DefaultSteps
<1>3. CASE ReadCurrentDriver
  <2>1. PICK s \in {"default", "module"} :
            /\ call' = [call EXCEPT !.current = driver, !.step = s]
            /\ s = "default" => call.arg = "default"
    BY <1>3 DEF ReadCurrentDriver
  <2>2. /\ call'.op = call.op /\ call'.arg = call.arg /\ call'.start = call.start
        /\ call'.current = driver /\ call'.step = s
    BY <2>1 DEF HostInv, TypeOK, Calls
  <2>3. call.op = "bind" /\ driver' = driver /\ call.step = "current"
    BY <1>3 DEF HostInv, RecordInv, ReadCurrentDriver, At
  <2> QED
    BY <2>1, <2>2, <2>3 DEF StartInv, BindSteps, DefaultSteps
<1>4. CASE DefaultRead
  <2>1. CASE driver = NoDriver
    <3>1. Goto("clear") /\ call.step = "default"
      BY <1>4, <2>1, ConstantFacts DEF DefaultRead, At
    <3>2. call.start \notin NetDrivers
      BY <2>1, <3>1, DriverKinds DEF StartInv
    <3> QED
      BY <3>1, <3>2, StartGoto DEF StartInv, HostInv, Steps, BindSteps, DefaultSteps
  <2>2. CASE driver \in DpdkDrivers
    <3>1. Goto("defaultUnbind") /\ call.step = "default" /\ driver' = driver
      BY <1>4, <2>2, ConstantFacts DEF DefaultRead, At
    <3> QED
      BY <2>2, <3>1, StartGoto DEF StartInv, HostInv, Steps, BindSteps, DefaultSteps
  <2>3. CASE driver # NoDriver /\ driver \notin DpdkDrivers
    BY <1>4, <2>3, StartReturn DEF DefaultRead
  <2> QED
    BY <2>1, <2>2, <2>3
<1>5. CASE DefaultUnbind
  <2>1. Goto("clear") /\ call.step = "defaultUnbind"
    BY <1>5 DEF DefaultUnbind, At
  <2>2. call.start \notin NetDrivers
    BY <2>1, DriverKinds DEF StartInv
  <2> QED
    BY <2>1, <2>2, StartGoto DEF StartInv, HostInv, Steps, BindSteps, DefaultSteps
<1>6. CASE DefaultClear
  BY <1>6, StartGoto DEF DefaultClear, At, StartInv, HostInv, Steps, BindSteps, DefaultSteps
<1>7. CASE Probe \/ ResetOverride \/ AccessFails
  BY <1>7, StartReturn DEF Probe, ResetOverride, AccessFails
<1>8. CASE EnsureDpdkModuleLoaded
  BY <1>8, StartGoto, StartReturn
     DEF EnsureDpdkModuleLoaded, At, StartInv, HostInv, Steps, BindSteps, DefaultSteps
<1>9. CASE ReadDriver
  BY <1>9, StartGoto, StartReturn, ConstantFacts
     DEF ReadDriver, At, StartInv, HostInv, StepInv, Steps, BindSteps, DefaultSteps
<1>10. CASE Unbind
  BY <1>10, StartGoto DEF Unbind, At, StartInv, HostInv, Steps, BindSteps, DefaultSteps
<1>11. CASE SetOverride
  BY <1>11, StartGoto DEF SetOverride, At, StartInv, HostInv, Steps, BindSteps, DefaultSteps
<1>12. CASE BindDriver
  BY <1>12, StartGoto, StartReturn
     DEF BindDriver, At, StartInv, HostInv, Steps, BindSteps, DefaultSteps
<1>13. CASE UNCHANGED vars
  BY <1>13 DEF vars, StartInv
<1> QED
  BY <1>1, <1>2, <1>3, <1>4, <1>5, <1>6, <1>7, <1>8, <1>9, <1>10, <1>11, <1>12, <1>13
     DEF Next, Step
\* The outcomes that DriverBinding allows to the call in progress.
Allowed == IF call.op = "bind" THEN BindDeviceDriver(call.start, call.arg)
                               ELSE RestoreDeviceDriver(call.start, call.arg)

\* In a step of BindDefaultDriver the call may end as BindDefaultDriver may.
LEMMA DefaultAllowed ==
    ASSUME HostInv, StartInv, call.step \in DefaultSteps
    PROVE  Allowed = BindDefaultDriver(call.start)
<1>1. call.op \in {"bind", "restore"} /\ call.step # "idle"
  BY DEF HostInv, TypeOK, Calls, DefaultSteps
<1>2. CASE call.op = "bind"
  <2>1. call.arg = "default"
    BY <1>2 DEF StartInv
  <2> QED
    BY <1>2, <2>1 DEF Allowed, BindDeviceDriver
<1>3. CASE call.op = "restore"
  <2>1. call.arg = NoDriver
    BY <1>1, <1>3 DEF HostInv, RecordInv
  <2> QED
    BY <1>3, <2>1 DEF Allowed, RestoreDeviceDriver
<1> QED
  BY <1>1, <1>2, <1>3

\* In a step of BindDriverByBusAndDevice the call may end as that function may.
LEMMA BindAllowed ==
    ASSUME HostInv, StartInv, call.step \in BindSteps
    PROVE  Allowed = BindDriverByBusAndDevice(call.start, call.arg)
<1>1. call.arg # NoDriver /\ call.arg # "default"
  BY ConstantFacts DEF HostInv, StepInv
<1> QED
  BY <1>1 DEF Allowed, BindDeviceDriver, RestoreDeviceDriver

\* The failures and the successes the one-step bind helper allows.
LEMMA BindOutcomes ==
    ASSUME NEW cur, NEW drv
    PROVE  /\ \E o \in BindDriverByBusAndDevice(cur, drv) : o.ok = FALSE /\ o.to = cur
           /\ ModuleKnown(drv) /\ cur # drv =>
                  Failed(NoDriver) \in BindDriverByBusAndDevice(cur, drv)
           /\ ModuleKnown(drv) /\ cur # drv /\ drv \in Installed =>
                  /\ Failed(drv) \in BindDriverByBusAndDevice(cur, drv)
                  /\ Done(drv) \in BindDriverByBusAndDevice(cur, drv)
           /\ ModuleKnown(drv) /\ cur = drv => Done(cur) \in BindDriverByBusAndDevice(cur, drv)
<1>1. CASE ~ModuleKnown(drv)
  BY <1>1 DEF BindDriverByBusAndDevice
<1>2. CASE ModuleKnown(drv) /\ cur = drv
  <2>1. BindDriverByBusAndDevice(cur, drv) = {Failed(cur), Done(cur)}
    BY <1>2 DEF BindDriverByBusAndDevice
  <2> QED
    BY <1>2, <2>1 DEF Failed
<1>3. CASE ModuleKnown(drv) /\ cur # drv /\ drv \in Installed
  <2>1. BindDriverByBusAndDevice(cur, drv) =
            {Failed(cur), Failed(NoDriver), Failed(drv), Done(drv)}
    BY <1>3 DEF BindDriverByBusAndDevice
  <2> QED
    BY <1>3, <2>1 DEF Failed
<1>4. CASE ModuleKnown(drv) /\ cur # drv /\ drv \notin Installed
  <2>1. Failed(cur) \in BindDriverByBusAndDevice(cur, drv)
        /\ Failed(NoDriver) \in BindDriverByBusAndDevice(cur, drv)
    BY <1>4 DEF BindDriverByBusAndDevice
  <2> QED
    BY <1>4, <2>1 DEF Failed
<1> QED
  BY <1>1, <1>2, <1>3, <1>4

\* Wherever a call fails, the device is where the call found it, unbound or,
\* when only the reset of the override failed, where it was asked to be.
LEMMA FailureAllowed ==
    ASSUME HostInv, StartInv, call.step # "idle"
    PROVE  \E o \in Allowed : o.ok = FALSE /\ o.to = driver
<1>1. CASE call.step = "current"
  <2>1. /\ call.op = "bind" /\ call.start = driver /\ call.arg # NoDriver
    BY <1>1 DEF HostInv, StepInv, RecordInv, StartInv
  <2> QED
    BY <2>1 DEF Allowed, BindDeviceDriver, BindDefaultDriver, BindDriverByBusAndDevice,
                Failed
<1>2. CASE call.step \in DefaultSteps
  <2>1. Failed(call.start) \in BindDefaultDriver(call.start)
    BY DEF BindDefaultDriver
  <2>2. call.start \notin NetDrivers => Failed(NoDriver) \in BindDefaultDriver(call.start)
    BY DEF BindDefaultDriver
  <2>3. driver = call.start \/ (driver = NoDriver /\ call.start \notin NetDrivers)
    BY <1>2 DEF HostInv, StepInv, StartInv, DefaultSteps
  <2> QED
    BY <1>2, <2>1, <2>2, <2>3, DefaultAllowed DEF Failed
<1>3. CASE call.step \in BindSteps
  <2>1. CASE driver = call.start
    BY <1>3, <2>1, BindAllowed, BindOutcomes
  <2>2. CASE driver # call.start
    <3>1. call.step \in {"override", "bind", "reset"}
      BY <1>3, <2>2 DEF StartInv, BindSteps
    <3>2. ModuleKnown(call.arg) /\ call.start # call.arg
      BY <3>1 DEF StartInv, BindSteps
    <3>3. driver = NoDriver \/ (driver = call.arg /\ call.arg \in Installed)
      BY <3>1 DEF HostInv, StepInv, StartInv
    <3>4. Failed(driver) \in BindDriverByBusAndDevice(call.start, call.arg)
      BY <3>2, <3>3, BindOutcomes
    <3>5. Failed(driver) \in Allowed
      BY <1>3, <3>4, BindAllowed
    <3> QED
      BY <3>5 DEF Failed
  <2> QED
    BY <2>1, <2>2
<1> QED
  BY <1>1, <1>2, <1>3 DEF HostInv, TypeOK, Calls, Steps, DefaultSteps, BindSteps

\* The abstract module's operators, under the refinement mapping, are this module's own.
LEMMA SameOperators ==
    /\ \A b, r : Atomic!BindDeviceDriver(b, r) = BindDeviceDriver(b, r)
    /\ \A b, r : Atomic!RestoreDeviceDriver(b, r) = RestoreDeviceDriver(b, r)
    /\ Atomic!Requests = Requests /\ Atomic!Bindings = Bindings
    /\ Atomic!NoDriver = NoDriver
  BY DEF Atomic!BindDeviceDriver, BindDeviceDriver, Atomic!RestoreDeviceDriver,
         RestoreDeviceDriver, Atomic!Requests, Requests, Atomic!Bindings, Bindings,
         Atomic!Drivers, Drivers, Atomic!DpdkDrivers, DpdkDrivers, Atomic!NoDriver,
         Atomic!BindDefaultDriver, BindDefaultDriver, Atomic!BindDriverByBusAndDevice,
         BindDriverByBusAndDevice, Atomic!ModuleKnown, ModuleKnown, Atomic!Done, Done,
         Atomic!Failed, Failed

\* A call that returns within the allowed outcomes is a step of DriverBinding.
LEMMA ReturnImplements ==
    ASSUME HostInv, StartInv, call.step # "idle", NEW ok \in BOOLEAN, Return(ok),
           ok => call.step # "current",
           \E o \in Allowed : o.ok = ok /\ o.to = driver'
    PROVE  Atomic!Next
<1>1. PICK o \in Allowed : o.ok = ok /\ o.to = driver'
  OBVIOUS
<1>2. call'.step = "idle"
  BY DEF Return, Idle
<1>3. answer' = [ok |-> o.ok, orig |-> IF o.ok THEN call.current ELSE NoDriver]
  BY <1>1 DEF Return
<1>4. call.op \in {"bind", "restore"} /\ call.arg \in Requests
  BY DEF HostInv, TypeOK, Calls
<1>5. CASE call.op = "bind"
  <2>1. call.arg # NoDriver /\ (ok => call.current = call.start)
    BY <1>5 DEF StartInv
  <2>2. o \in BindDeviceDriver(call.start, call.arg)
    BY <1>1, <1>5 DEF Allowed
  <2>3. Atomic!Bind(call.arg)
    BY <1>1, <1>2, <1>3, <2>1, <2>2, SameOperators DEF Atomic!Bind
  <2> QED
    BY <1>4, <2>3, SameOperators DEF Atomic!Next
<1>6. CASE call.op = "restore"
  <2>1. call.current = NoDriver /\ call.arg \in Bindings
    BY <1>6 DEF StartInv, HostInv, RecordInv, TypeOK
  <2>2. o \in RestoreDeviceDriver(call.start, call.arg)
    BY <1>1, <1>6 DEF Allowed
  <2>3. Atomic!Restore(call.arg)
    BY <1>1, <1>2, <1>3, <2>1, <2>2, SameOperators DEF Atomic!Restore
  <2> QED
    BY <2>1, <2>3, SameOperators DEF Atomic!Next
<1> QED
  BY <1>4, <1>5, <1>6

\* A step inside a call is invisible.
LEMMA GotoImplements ==
    ASSUME TypeOK, NEW s \in Steps \ {"idle"}, Goto(s), call.step # "idle"
    PROVE  UNCHANGED Atomic!bindingVars
<1>1. call'.step # "idle" /\ call'.start = call.start /\ answer' = answer
  BY DEF Goto, TypeOK, Calls
<1> QED
  BY <1>1 DEF Atomic!bindingVars
\* Every sysfs step is a step of the one-step helpers or changes nothing they see.
LEMMA StepImplements ==
    ASSUME HostInv, StartInv, Step
    PROVE  Atomic!Next \/ UNCHANGED Atomic!bindingVars
<1>1. CASE ReadCurrentDriver
  <2>1. /\ call.step = "current" /\ call'.step # "idle" /\ call'.start = call.start
        /\ answer' = answer
    BY <1>1 DEF ReadCurrentDriver, At, HostInv, TypeOK, Calls
  <2> QED
    BY <2>1 DEF Atomic!bindingVars
<1>2. CASE DefaultUnbind \/ DefaultClear \/ Unbind \/ SetOverride
  BY <1>2, GotoImplements
     DEF DefaultUnbind, DefaultClear, Unbind, SetOverride, At, HostInv, Steps
<1>3. CASE DefaultRead
  <2>1. call.step = "default" /\ driver' = driver /\ driver = call.start
    BY <1>3 DEF DefaultRead, At, StartInv
  <2>2. CASE driver = NoDriver \/ driver \in DpdkDrivers
    <3>1. Goto("clear") \/ Goto("defaultUnbind")
      BY <1>3, <2>2, ConstantFacts DEF DefaultRead
    <3> QED
      BY <2>1, <3>1, GotoImplements DEF HostInv, Steps
  <2>3. CASE driver # NoDriver /\ driver \notin DpdkDrivers
    <3>1. Return(TRUE) /\ call.start \in NetDrivers
      BY <1>3, <2>1, <2>3, ConstantFacts DEF DefaultRead, HostInv, TypeOK
    <3>2. Done(driver) \in Allowed
      BY <2>1, <3>1, DefaultAllowed DEF BindDefaultDriver, DefaultSteps
    <3> QED
      BY <2>1, <3>1, <3>2, ReturnImplements DEF Done
  <2> QED
    BY <2>2, <2>3
<1>4. CASE Probe
  <2>1. call.step = "probe" /\ Return(TRUE) /\ driver' = DefaultDriver
        /\ call.start \notin NetDrivers
    BY <1>4 DEF Probe, At, HostInv, StepInv, StartInv
  <2>2. Done(driver') \in Allowed
    BY <2>1, DefaultAllowed DEF BindDefaultDriver, DefaultSteps
  <2> QED
    BY <2>1, <2>2, ReturnImplements DEF Done
<1>5. CASE EnsureDpdkModuleLoaded
  <2>1. call.step = "module" /\ driver' = driver
    BY <1>5 DEF EnsureDpdkModuleLoaded, At
  <2>2. CASE ModuleKnown(call.arg)
    BY <1>5, <2>1, <2>2, GotoImplements DEF EnsureDpdkModuleLoaded, HostInv, Steps
  <2>3. CASE ~ModuleKnown(call.arg)
    BY <1>5, <2>1, <2>3, FailureAllowed, ReturnImplements DEF EnsureDpdkModuleLoaded
  <2> QED
    BY <2>2, <2>3
<1>6. CASE ReadDriver
  <2>1. /\ call.step = "read" /\ driver' = driver /\ driver = call.start
        /\ ModuleKnown(call.arg) /\ call.arg # NoDriver
    BY <1>6, ConstantFacts DEF ReadDriver, At, StartInv, BindSteps, HostInv, StepInv
  <2>2. CASE driver = call.arg
    <3>1. Return(TRUE)
      BY <1>6, <2>1, <2>2 DEF ReadDriver
    <3>2. Done(driver) \in Allowed
      <4>1. Done(driver) \in BindDriverByBusAndDevice(call.start, call.arg)
        BY <2>1, <2>2, BindOutcomes
      <4> QED
        BY <2>1, <4>1, BindAllowed DEF BindSteps
    <3> QED
      BY <2>1, <3>1, <3>2, ReturnImplements DEF Done
  <2>3. CASE driver # call.arg
    <3>1. Goto("override") \/ Goto("unbind")
      BY <1>6, <2>3 DEF ReadDriver
    <3> QED
      BY <2>1, <3>1, GotoImplements DEF HostInv, Steps
  <2> QED
    BY <2>2, <2>3
<1>7. CASE BindDriver
  <2>1. call.step = "bind"
    BY <1>7 DEF BindDriver, At
  <2>2. CASE call.arg \in Installed
    BY <1>7, <2>1, <2>2, GotoImplements DEF BindDriver, HostInv, Steps
  <2>3. CASE call.arg \notin Installed
    BY <1>7, <2>1, <2>3, FailureAllowed, ReturnImplements DEF BindDriver
  <2> QED
    BY <2>2, <2>3
<1>8. CASE ResetOverride
  <2>1. /\ call.step = "reset" /\ Return(TRUE) /\ driver' = call.arg
        /\ ModuleKnown(call.arg) /\ call.start # call.arg /\ call.arg \in Installed
    BY <1>8 DEF ResetOverride, At, HostInv, StepInv, StartInv, BindSteps
  <2>2. Done(driver') \in Allowed
    BY <2>1, BindAllowed, BindOutcomes DEF BindSteps
  <2> QED
    BY <2>1, <2>2, ReturnImplements DEF Done
<1> QED
  BY <1>1, <1>2, <1>3, <1>4, <1>5, <1>6, <1>7, <1>8 DEF Step

\* Every step of the specification implements the abstract one.
LEMMA NextImplements ==
    ASSUME HostInv, StartInv, [Next]_vars
    PROVE  Atomic!Next \/ UNCHANGED Atomic!bindingVars
<1>1. ASSUME NEW req \in Requests, CallBindDeviceDriver(req)
      PROVE  UNCHANGED Atomic!bindingVars
  BY <1>1 DEF CallBindDeviceDriver, At, Atomic!bindingVars
<1>2. CASE CallRestoreDeviceDriver
  <2>1. call.step = "idle" /\ call'.step # "idle" /\ call'.start = driver
        /\ answer' = answer
    BY <1>2 DEF CallRestoreDeviceDriver, At
  <2> QED
    BY <2>1 DEF Atomic!bindingVars
<1>3. CASE AccessFails
  BY <1>3, FailureAllowed, ReturnImplements DEF AccessFails
<1>4. CASE UNCHANGED vars
  BY <1>4 DEF vars, Atomic!bindingVars
<1> QED
  BY <1>1, <1>2, <1>3, <1>4, StepImplements DEF Next

\* Whichever accesses fail, and for every set of drivers, a call of BindDeviceDriver
\* or RestoreDeviceDriver has one of the outcomes that DriverBinding, and through it
\* the model of the claims, gives it.
THEOREM HostImplementsBinding == Spec => ImplementsDriverBinding
<1>1. Init => Atomic!Init
  <2> SUFFICES ASSUME Init PROVE Atomic!Init
    OBVIOUS
  <2>1. call.step = "idle" /\ driver \in Bindings
        /\ answer = [ok |-> TRUE, orig |-> NoDriver]
    BY ConstantFacts DEF Init, Idle
  <2> QED
    BY <2>1, SameOperators DEF Atomic!Init
<1>2. HostInv /\ StartInv /\ [Next]_vars => [Atomic!Next]_(Atomic!bindingVars)
  BY NextImplements
<1>3. Spec => []HostInv
  BY HostInvariant
<1> QED
  BY <1>1, <1>2, <1>3, StartInit, StartNext, PTL
     DEF Spec, ImplementsDriverBinding, Atomic!Spec
===============================================================================
