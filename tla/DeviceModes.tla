---------------------------- MODULE DeviceModes -----------------------------
(***************************************************************************)
(* DeviceHandlerBase, the half that runs the device's modes: mode and      *)
(* health commands, the power switch, transitions with their timeouts, and *)
(* the failure isolation (FDIR) that listens to the handler's events.      *)
(* Module DeviceExchange has the talk with the device.                     *)
(*                                                                         *)
(* One task runs it, in cycles; "pc" names the next piece of SEND_WRITE.   *)
(* The power unit and the device decide by themselves: what a switch is    *)
(* read as, how a transition of the child ends and which faults occur is   *)
(* left open.                                                              *)
(***************************************************************************)
EXTENDS Integers

CONSTANTS
  Parent,                \* the queue of the assembly or subsystem above
  Ground,                \* another commander
  ChildDelay,            \* childTransitionDelay, in cycles
  SwitchDelay,           \* getSwitchDelayMs, in cycles
  MaxReboot,             \* DEFAULT_MAX_REBOOT
  NO_COMMAND

ASSUME DeviceModesAssumption ==
  Parent # Ground /\ ChildDelay \in Nat /\ SwitchDelay \in Nat /\ MaxReboot \in Nat

Commander == {Parent, Ground}
Mode == {"OFF", "ON", "NORMAL", "RAW", "ERROR_ON"}
Commandable == Mode \ {"ERROR_ON"}
ChildMode == {"START_UP", "SHUT_DOWN", "TO_ON", "TO_NORMAL", "TO_RAW"}
BaseMode == {"POWER_DOWN", "POWER_ON", "WAIT_OFF", "WAIT_ON", "SWITCH_IS_OFF"}
HealthState == {"HEALTHY", "NEEDS_RECOVERY", "FAULTY", "EXTERNAL_CONTROL"}
FDIRState == {"NONE", "RECOVERY_ONGOING", "DEVICE_MIGHT_BE_OFF", "AWAIT_SHUTDOWN"}

VARIABLES
  pc,
  mode,
  transitionSourceMode,
  elapsed,               \* cycles since timeoutStart, counted to the longer delay
  command,               \* theOneWhoCommandedAMode and commandedMode
  answer,                \* the mode replies of the last step
  switchCommand,         \* the last one sent to the power switch
  switchOffWasReported,
  fdir,                  \* health, fdirState and recoveryCounter
  requests               \* confirmation requests without an answer

vars == <<pc, mode, transitionSourceMode, elapsed, command, answer, switchCommand,
          switchOffWasReported, fdir, requests>>

isTransitionalMode(m) == m \in ChildMode \union BaseMode
To(m) == CASE m = "ON" -> "TO_ON" [] m = "NORMAL" -> "TO_NORMAL" [] m = "RAW" -> "TO_RAW"

Init ==
  /\ pc = "readCommandQueue"
  /\ mode = "OFF" /\ transitionSourceMode = "POWER_DOWN" /\ elapsed = 0
  /\ command = NO_COMMAND /\ answer = {}
  /\ switchCommand = "OFF" /\ switchOffWasReported = FALSE
  /\ fdir = [health |-> "HEALTHY", state |-> "NONE", reboots |-> 0]
  /\ requests = {}

-----------------------------------------------------------------------------
(***************************************************************************)
(* DeviceHandlerFailureIsolation, as functions of its state f.  An event   *)
(* comes to eventReceived in the middle of the call that triggers it; the  *)
(* events of the FDIR itself come back to it in the same way.              *)
(***************************************************************************)
setHealth(f, h) ==
  [f EXCEPT !.health = h, !.state = IF h = "HEALTHY" THEN "NONE" ELSE @]

\* Any MODE_INFO ends the waiting for one, but not a recovery
ModeInfo(f) ==
  [f EXCEPT !.state = IF @ = "RECOVERY_ONGOING" THEN @ ELSE "NONE"]

startRecovery(f) == [setHealth(f, "NEEDS_RECOVERY") EXCEPT !.state = "RECOVERY_ONGOING"]
setFaulty(f) == [setHealth(f, "FAULTY") EXCEPT !.state = "AWAIT_SHUTDOWN"]
handleRecovery_Uncounted(f) == startRecovery([f EXCEPT !.reboots = @ + 1])
handleRecovery(f) ==
  IF f.reboots + 1 > MaxReboot
  THEN setFaulty([f EXCEPT !.reboots = 0])
  ELSE startRecovery([f EXCEPT !.reboots = @ + 1])

\* Neither isFdirInActionOrAreWeFaulty nor isFdirDisabledForSeverity
Listens_WhenFaulty(f) == f.state = "NONE" /\ f.health # "EXTERNAL_CONTROL"
Listens(f) == f.state = "NONE" /\ f.health \notin {"FAULTY", "EXTERNAL_CONTROL"}
TransitionFailed(f) == IF Listens(f) THEN handleRecovery(f) ELSE f

-----------------------------------------------------------------------------
(***************************************************************************)
(* setMode: a mode that is no transition is reported to the commander and  *)
(* announced, which the FDIR sees.  f is the FDIR before that, c the       *)
(* command in progress.                                                    *)
(***************************************************************************)
Answers(c, m) == IF c = NO_COMMAND THEN {}
                 ELSE {[to |-> c.by, mode |-> m, right |-> m = c.mode]}

setMode(m, c, f) ==
  /\ mode' = m /\ elapsed' = 0
  /\ IF isTransitionalMode(m)
     THEN command' = c /\ answer' = {} /\ fdir' = f
     ELSE command' = NO_COMMAND /\ answer' = Answers(c, m) /\ fdir' = ModeInfo(f)

commandSwitch(onOff) == switchCommand' = onOff

\* checkModeCommand: no thermal check, as no code gives deviceThermalStatePoolId a value
checkModeCommand(m) ==
  /\ ~isTransitionalMode(mode)
  /\ mode = "ERROR_ON" => m = "OFF"
  /\ m = "NORMAL" => mode # "OFF"

startTransition(m, c, f) ==
  \/ /\ m = "ON" /\ mode = "OFF"
     /\ transitionSourceMode' = "POWER_DOWN" /\ setMode("POWER_ON", c, f)
  \/ /\ m = "OFF" /\ mode = "OFF"
     /\ setMode("POWER_DOWN", c, f) /\ UNCHANGED transitionSourceMode
  \/ /\ m = "OFF" /\ mode # "OFF"
     /\ transitionSourceMode' = "POWER_DOWN" /\ setMode("SHUT_DOWN", c, f)
  \/ /\ m = "RAW" /\ mode = "OFF"
     /\ setMode("RAW", c, f) /\ UNCHANGED transitionSourceMode
  \/ /\ m # "OFF" /\ mode # "OFF"
     /\ transitionSourceMode' = mode /\ setMode(To(m), c, f)

\* ModeHelper::handleModeCommand; a command that is refused changes nothing
ModeCommand(by, m) ==
  LET f == IF by = Parent THEN fdir ELSE setHealth(fdir, "EXTERNAL_CONTROL")
  IN  \/ checkModeCommand(m) /\ startTransition(m, [by |-> by, mode |-> m], f)
      \/ /\ ~checkModeCommand(m)
         /\ answer' = {}
         /\ UNCHANGED <<mode, transitionSourceMode, elapsed, command, fdir>>

HealthCommand(h) ==
  /\ fdir' = setHealth(fdir, h) /\ answer' = {}
  /\ UNCHANGED <<mode, transitionSourceMode, elapsed, command>>

\* CMD_MODE_ANNOUNCE, in whatever mode
Announce ==
  /\ fdir' = ModeInfo(fdir) /\ answer' = {}
  /\ UNCHANGED <<mode, transitionSourceMode, elapsed, command>>

NoMessage ==
  answer' = {} /\ UNCHANGED <<mode, transitionSourceMode, elapsed, command, fdir>>

ReadCommandQueue ==
  /\ pc = "readCommandQueue" /\ pc' = "doStateMachine"
  /\ \/ \E by \in Commander, m \in Commandable : ModeCommand(by, m)
     \/ \E h \in HealthState : HealthCommand(h)
     \/ Announce
     \/ NoMessage
  /\ UNCHANGED <<switchCommand, switchOffWasReported, requests>>

-----------------------------------------------------------------------------
(***************************************************************************)
(* doStateMachine, by mode.                                                *)
(***************************************************************************)
\* Where the child takes a transition: doStartUp and doShutDown as their
\* comments ask for, doTransition in its default form
ChildEnds(m) == CASE m = "START_UP"  -> {"TO_ON", "ON"}
                  [] m = "SHUT_DOWN" -> {"POWER_DOWN", "TO_ON", "ON"}
                  [] m = "TO_ON"     -> {"ON"}
                  [] m = "TO_NORMAL" -> {"NORMAL"}
                  [] m = "TO_RAW"    -> {"RAW"}

ChildTransition_NoTimeout ==
  /\ mode \in ChildMode
  /\ \/ \E m \in ChildEnds(mode) : setMode(m, command, fdir)
     \/ answer' = {} /\ UNCHANGED <<mode, elapsed, command, fdir>>
  /\ UNCHANGED switchCommand

ChildTransition ==
  /\ mode \in ChildMode
  /\ \/ \E m \in ChildEnds(mode) : setMode(m, command, fdir)
     \/ /\ elapsed < ChildDelay
        /\ answer' = {} /\ UNCHANGED <<mode, elapsed, command, fdir>>
     \/ /\ elapsed >= ChildDelay
        /\ setMode(transitionSourceMode, command, TransitionFailed(fdir))
  /\ UNCHANGED switchCommand

PowerDown_NoSwitch ==
  /\ mode = "POWER_DOWN"
  /\ setMode("WAIT_OFF", command, fdir) /\ UNCHANGED switchCommand

PowerDown ==
  /\ mode = "POWER_DOWN"
  /\ commandSwitch("OFF") /\ setMode("WAIT_OFF", command, fdir)

PowerOn ==
  /\ mode = "POWER_ON"
  /\ commandSwitch("ON") /\ setMode("WAIT_ON", command, fdir)

\* The switch is read only before the delay is over; the child's start-up
\* gets its first call at once
WaitOn ==
  /\ mode = "WAIT_ON"
  /\ \/ /\ elapsed >= SwitchDelay
        /\ setMode("POWER_DOWN", command, TransitionFailed(fdir))
     \/ /\ elapsed < SwitchDelay
        /\ \E m \in {"START_UP"} \union ChildEnds("START_UP") : setMode(m, command, fdir)
     \/ /\ elapsed < SwitchDelay
        /\ answer' = {} /\ UNCHANGED <<mode, elapsed, command, fdir>>
  /\ UNCHANGED switchCommand

WaitOff ==
  /\ mode = "WAIT_OFF"
  /\ \/ /\ elapsed >= SwitchDelay
        /\ setMode("ERROR_ON", command, TransitionFailed(fdir))
     \/ /\ elapsed < SwitchDelay
        /\ setMode("SWITCH_IS_OFF", command, fdir)
     \/ /\ elapsed < SwitchDelay
        /\ answer' = {} /\ UNCHANGED <<mode, elapsed, command, fdir>>
  /\ UNCHANGED switchCommand

SwitchIsOff ==
  /\ mode = "SWITCH_IS_OFF"
  /\ setMode("OFF", command, fdir) /\ UNCHANGED switchCommand

Settled ==
  /\ mode \in Mode
  /\ answer' = {} /\ UNCHANGED <<mode, elapsed, command, fdir, switchCommand>>

DoStateMachine ==
  /\ pc = "doStateMachine" /\ pc' = "checkSwitchState"
  /\ \/ ChildTransition \/ PowerDown \/ PowerOn \/ WaitOn \/ WaitOff \/ SwitchIsOff
     \/ Settled
  /\ UNCHANGED <<transitionSourceMode, switchOffWasReported, requests>>

-----------------------------------------------------------------------------
(***************************************************************************)
(* The power unit is asked to confirm that a switch went off by itself.    *)
(* The flag is set even when the FDIR does not listen.                     *)
(***************************************************************************)
CheckSwitchState ==
  /\ pc = "checkSwitchState" /\ pc' = "exchange"
  /\ \/ \* the switch is read as OFF, for the first time
        /\ mode \in {"ON", "NORMAL"} /\ ~switchOffWasReported
        /\ switchOffWasReported' = TRUE
        /\ IF Listens(fdir)
           THEN /\ fdir' = [fdir EXCEPT !.state = "DEVICE_MIGHT_BE_OFF"]
                /\ requests' = requests \union {"switch"}
           ELSE UNCHANGED <<fdir, requests>>
     \/ /\ mode \in {"ON", "NORMAL"}
        /\ UNCHANGED <<switchOffWasReported, fdir, requests>>
     \/ /\ mode \notin {"ON", "NORMAL"}
        /\ switchOffWasReported' = FALSE /\ UNCHANGED <<fdir, requests>>
  /\ answer' = {}
  /\ UNCHANGED <<mode, transitionSourceMode, elapsed, command, switchCommand>>

(***************************************************************************)
(* Faults that the talk with the device brings to light.  How many strange *)
(* or missed replies there were before is left open, and so whether their  *)
(* counters pass the threshold.                                            *)
(***************************************************************************)
Counted == {fdir, handleRecovery(fdir)}

Exchange ==
  /\ pc = "exchange" /\ pc' = "checkForFailures"
  /\ \/ UNCHANGED <<fdir, requests>>
     \/ /\ Listens(fdir)
        /\ \/ fdir' \in Counted /\ UNCHANGED requests
           \/ \* DEVICE_MISSED_REPLY is first put to the parent in the fault tree
              requests' = requests \union {"missed"} /\ UNCHANGED fdir
  /\ answer' = {}
  /\ UNCHANGED <<mode, transitionSourceMode, elapsed, command, switchCommand,
                 switchOffWasReported>>

(***************************************************************************)
(* checkForFailures: events of others about this device, answers to the    *)
(* requests.  An answer may be one of several to the same request.         *)
(***************************************************************************)
eventConfirmed(r) == IF r = "missed" THEN Counted ELSE {handleRecovery(fdir)}

\* decrementFaultCounters
Decremented(f) == {f, [f EXCEPT !.reboots = IF @ > 0 THEN @ - 1 ELSE 0]}

CheckForFailures ==
  /\ pc = "checkForFailures" /\ pc' = "readCommandQueue"
  /\ \/ fdir' \in Decremented(fdir) /\ UNCHANGED requests
     \/ /\ Listens(fdir)                \* fuse, power or temperature
        /\ \E f \in {setFaulty(fdir), handleRecovery(fdir)} : fdir' \in Decremented(f)
        /\ UNCHANGED requests
     \/ \E r \in requests :
          /\ requests' \in {requests, requests \ {r}}
          /\ \/ \E f \in eventConfirmed(r) : fdir' \in Decremented(f)   \* YOUR_FAULT
             \/ fdir' \in Decremented(fdir)                             \* MY_FAULT
  /\ elapsed' = IF elapsed < ChildDelay \/ elapsed < SwitchDelay THEN elapsed + 1
                ELSE elapsed
  /\ answer' = {}
  /\ UNCHANGED <<mode, transitionSourceMode, command, switchCommand, switchOffWasReported>>

Next == \/ ReadCommandQueue \/ DoStateMachine \/ CheckSwitchState
        \/ Exchange \/ CheckForFailures

\* The polling sequence calls the handler for ever
Spec == Init /\ [][Next]_vars /\ WF_vars(Next)

-----------------------------------------------------------------------------
TypeOK ==
  /\ pc \in {"readCommandQueue", "doStateMachine", "checkSwitchState", "exchange",
             "checkForFailures"}
  /\ mode \in Mode \union ChildMode \union BaseMode
  /\ transitionSourceMode \in {"ON", "NORMAL", "RAW", "POWER_DOWN"}
  /\ elapsed \in Nat
  /\ command \in [by : Commander, mode : Commandable] \union {NO_COMMAND}
  /\ answer \in SUBSET [to : Commander, mode : Mode, right : BOOLEAN]
  /\ switchCommand \in {"ON", "OFF"} /\ switchOffWasReported \in BOOLEAN
  /\ fdir \in [health : HealthState, state : FDIRState, reboots : 0 .. MaxReboot]
  /\ requests \subseteq {"switch", "missed"}

\* The handler rests in MODE_OFF, and waits for the switch to go off, only
\* when OFF is the last thing the power switch was told; it starts the device
\* up only when that was ON: no timeout on the way loses the switch command
SwitchFollowsMode ==
  /\ mode \in {"OFF", "WAIT_OFF", "SWITCH_IS_OFF", "ERROR_ON"} => switchCommand = "OFF"
  /\ mode \in {"WAIT_ON", "START_UP"} => switchCommand = "ON"

\* The handler promises its commanders what a ModeHolder promises: above all,
\* each mode command that is taken on ends, and is answered once
settled == ~isTransitionalMode(mode)
Holder == INSTANCE ModeHolder
ImplementsModeHolder == Holder!HolderSpec

\* A device found faulty stays so until a command says otherwise, or a late
\* confirmation of an older fault: eventConfirmed, unlike eventReceived, does
\* not ask whether the device is already faulty.  No other event of the handler
\* or of the power unit takes a faulty device back into a recovery
FaultyIsLeftKnowingly ==
  [][fdir.health = "FAULTY" /\ fdir'.health # "FAULTY"
       => pc = "readCommandQueue" \/ (pc = "checkForFailures" /\ requests # {})]_vars
=============================================================================
