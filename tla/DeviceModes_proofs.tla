-------------------------- MODULE DeviceModes_proofs --------------------------
(***************************************************************************)
(* Proofs about DeviceModes, for all delays and numbers of reboots: type   *)
(* correctness, that the power switch follows the mode, that the handler   *)
(* keeps the promise of ModeHolder, and what leaves the health FAULTY.     *)
(* The type invariant is needed for all: a transition that times out       *)
(* returns to transitionSourceMode, which is never OFF.                    *)
(***************************************************************************)
EXTENDS DeviceModes, TLAPS

Fdir == [health : HealthState, state : FDIRState, reboots : 0 .. MaxReboot]
Command == [by : Commander, mode : Commandable] \union {NO_COMMAND}
AllModes == Mode \union ChildMode \union BaseMode

-----------------------------------------------------------------------------
\* Whatever the failure isolation does leaves a failure isolation, whose
\* count of reboots stays within its limit
LEMMA FdirClosed ==
  ASSUME NEW f \in Fdir
  PROVE  /\ \A h \in HealthState : setHealth(f, h) \in Fdir
         /\ ModeInfo(f) \in Fdir /\ setFaulty(f) \in Fdir
         /\ handleRecovery(f) \in Fdir /\ TransitionFailed(f) \in Fdir
         /\ \A g \in Decremented(f) : g \in Fdir
<1>1. \A h \in HealthState : setHealth(f, h) \in Fdir
  BY DEF Fdir, HealthState, FDIRState, setHealth
<1>2. ModeInfo(f) \in Fdir
  BY DEF Fdir, FDIRState, ModeInfo
<1>3. \A g \in Fdir : setFaulty(g) \in Fdir /\ startRecovery(g) \in Fdir
  BY DEF Fdir, HealthState, FDIRState, setHealth, setFaulty, startRecovery
<1>4. handleRecovery(f) \in Fdir
  <2>1. MaxReboot \in Nat /\ f.reboots \in 0 .. MaxReboot
    BY DeviceModesAssumption DEF Fdir
  <2>2. CASE f.reboots + 1 > MaxReboot
    <3>1. [f EXCEPT !.reboots = 0] \in Fdir
      BY <2>1 DEF Fdir
    <3> QED BY <3>1, <1>3, <2>2 DEF handleRecovery
  <2>3. CASE ~(f.reboots + 1 > MaxReboot)
    <3>1. [f EXCEPT !.reboots = @ + 1] \in Fdir
      BY <2>1, <2>3 DEF Fdir
    <3> QED BY <3>1, <1>3, <2>3 DEF handleRecovery
  <2> QED BY <2>2, <2>3
<1>5. TransitionFailed(f) \in Fdir
  BY <1>4 DEF TransitionFailed
<1>6. \A g \in Decremented(f) : g \in Fdir
  BY DeviceModesAssumption DEF Decremented, Fdir
<1> QED BY <1>1, <1>2, <1>3, <1>4, <1>5, <1>6

\* setMode keeps the types of all it touches
LEMMA SetModeTyped ==
  ASSUME NEW m \in AllModes, NEW c \in Command, NEW f \in Fdir, setMode(m, c, f)
  PROVE  /\ mode' = m /\ elapsed' = 0
         /\ command' \in Command /\ fdir' \in Fdir
         /\ answer' \in SUBSET [to : Commander, mode : Mode, right : BOOLEAN]
<1>1. ModeInfo(f) \in Fdir
  BY FdirClosed
<1>2. ~isTransitionalMode(m) => Answers(c, m) \in SUBSET [to : Commander, mode : Mode, right : BOOLEAN]
  BY DEF AllModes, isTransitionalMode, Answers, Command
<1> QED BY <1>1, <1>2 DEF setMode, Command

-----------------------------------------------------------------------------
(***************************************************************************)
(* The inductive invariant.                                                *)
(***************************************************************************)
IInv == TypeOK /\ SwitchFollowsMode

LEMMA InitIInv == Init => IInv
<1> SUFFICES ASSUME Init PROVE IInv
  OBVIOUS
<1>1. fdir \in Fdir
  <2>1. 0 \in 0 .. MaxReboot
    BY DeviceModesAssumption
  <2> QED BY <2>1 DEF Init, Fdir, HealthState, FDIRState
<1>2. mode \in Mode /\ elapsed \in Nat
  BY DEF Init, Mode
<1> QED BY <1>1, <1>2 DEF Init, IInv, TypeOK, SwitchFollowsMode, Fdir

\* A step that leaves the mode and the switch alone
LEMMA ModeKept ==
  ASSUME IInv, pc' \in {"readCommandQueue", "doStateMachine", "checkSwitchState",
                        "exchange", "checkForFailures"},
         UNCHANGED <<mode, transitionSourceMode, command, switchCommand>>,
         answer' = {}, elapsed' \in Nat, fdir' \in Fdir,
         switchOffWasReported' \in BOOLEAN, requests' \subseteq {"switch", "missed"}
  PROVE  IInv'
BY DEF IInv, TypeOK, SwitchFollowsMode, Fdir

\* A step that sets a mode, for which the switch has been set
LEMMA ModeSet ==
  ASSUME IInv, pc' \in {"readCommandQueue", "doStateMachine", "checkSwitchState",
                        "exchange", "checkForFailures"},
         NEW m \in AllModes, NEW c \in Command, NEW f \in Fdir, setMode(m, c, f),
         transitionSourceMode' \in {"ON", "NORMAL", "RAW", "POWER_DOWN"},
         switchCommand' \in {"ON", "OFF"},
         m \in {"OFF", "WAIT_OFF", "SWITCH_IS_OFF", "ERROR_ON"} => switchCommand' = "OFF",
         m \in {"WAIT_ON", "START_UP"} => switchCommand' = "ON",
         UNCHANGED <<switchOffWasReported, requests>>
  PROVE  IInv'
<1>1. /\ mode' = m /\ elapsed' = 0 /\ command' \in Command /\ fdir' \in Fdir
      /\ answer' \in SUBSET [to : Commander, mode : Mode, right : BOOLEAN]
  BY SetModeTyped
<1> QED BY <1>1 DEF IInv, TypeOK, SwitchFollowsMode, Fdir, Command, AllModes

LEMMA ReadStep == ASSUME IInv, ReadCommandQueue PROVE IInv'
<1> USE DEF ReadCommandQueue
<1>0. fdir \in Fdir /\ elapsed \in Nat
  BY DEF IInv, TypeOK, Fdir
<1>1. ASSUME NEW by \in Commander, NEW m \in Commandable, ModeCommand(by, m) PROVE IInv'
  <2> DEFINE f == IF by = Parent THEN fdir ELSE setHealth(fdir, "EXTERNAL_CONTROL")
             c == [by |-> by, mode |-> m]
  <2>1. f \in Fdir /\ c \in Command
    BY <1>0, FdirClosed DEF HealthState, Command
  <2>2. CASE checkModeCommand(m) /\ startTransition(m, c, f)
    <3> SUFFICES \E k \in AllModes \ {"OFF", "WAIT_OFF", "SWITCH_IS_OFF", "ERROR_ON", "WAIT_ON", "START_UP"} :
                   /\ setMode(k, c, f)
                   /\ transitionSourceMode' \in {"ON", "NORMAL", "RAW", "POWER_DOWN"}
      BY <2>1, ModeSet DEF IInv, TypeOK
    <3> HIDE DEF f, c
    <3>1. mode \in Mode /\ (mode = "ERROR_ON" => m = "OFF")
      BY <2>2 DEF checkModeCommand, isTransitionalMode, IInv, TypeOK
    <3>2. transitionSourceMode \in {"ON", "NORMAL", "RAW", "POWER_DOWN"}
      BY DEF IInv, TypeOK
    <3>3. m \in {"OFF", "ON", "NORMAL", "RAW"}
      BY DEF Commandable, Mode
    <3>4. CASE m # "OFF" /\ mode # "OFF" /\ transitionSourceMode' = mode /\ setMode(To(m), c, f)
      BY <3>1, <3>3, <3>4 DEF To, AllModes, ChildMode, Mode
    <3>5. CASE ~(m # "OFF" /\ mode # "OFF" /\ transitionSourceMode' = mode /\ setMode(To(m), c, f))
      BY <2>2, <3>2, <3>5 DEF startTransition, AllModes, Mode, BaseMode, ChildMode
    <3> QED BY <3>4, <3>5
  <2>3. CASE ~checkModeCommand(m)
    BY <1>0, <1>1, <2>3, ModeKept DEF ModeCommand, IInv, TypeOK
  <2> QED BY <1>1, <2>2, <2>3 DEF ModeCommand
<1>2. ASSUME NEW h \in HealthState, HealthCommand(h) PROVE IInv'
  BY <1>0, <1>2, FdirClosed, ModeKept DEF HealthCommand, IInv, TypeOK
<1>3. CASE Announce
  BY <1>0, <1>3, FdirClosed, ModeKept DEF Announce, IInv, TypeOK
<1>4. CASE NoMessage
  BY <1>0, <1>4, ModeKept DEF NoMessage, IInv, TypeOK
<1> QED BY <1>1, <1>2, <1>3, <1>4

LEMMA StateMachineStep == ASSUME IInv, DoStateMachine PROVE IInv'
<1> USE DEF DoStateMachine
<1>0. /\ fdir \in Fdir /\ elapsed \in Nat /\ command \in Command
      /\ TransitionFailed(fdir) \in Fdir
      /\ transitionSourceMode' \in {"ON", "NORMAL", "RAW", "POWER_DOWN"}
      /\ switchCommand \in {"ON", "OFF"}
  <2>1. fdir \in Fdir /\ elapsed \in Nat /\ command \in Command
    BY DEF IInv, TypeOK, Fdir, Command
  <2>2. TransitionFailed(fdir) \in Fdir
    BY <2>1, FdirClosed
  <2> QED BY <2>1, <2>2 DEF IInv, TypeOK
<1>a. ASSUME answer' = {}, UNCHANGED <<mode, elapsed, command, fdir, switchCommand>> PROVE IInv'
  BY <1>a, <1>0, ModeKept DEF IInv, TypeOK
<1>1. CASE ChildTransition
  <2>1. mode \in ChildMode /\ switchCommand' = switchCommand
    BY <1>1 DEF ChildTransition
  <2>2. ASSUME NEW m \in ChildEnds(mode), setMode(m, command, fdir) PROVE IInv'
    <3>1. m \in {"TO_ON", "ON", "NORMAL", "RAW", "POWER_DOWN"}
      BY <2>1, <2>2 DEF ChildMode, ChildEnds
    <3>2. m \in AllModes
      BY <3>1 DEF AllModes, Mode, ChildMode, BaseMode
    <3> QED BY <3>1, <3>2, <2>1, <2>2, <1>0, ModeSet
  <2>3. ASSUME setMode(transitionSourceMode, command, TransitionFailed(fdir)) PROVE IInv'
    <3>1. transitionSourceMode \in {"ON", "NORMAL", "RAW", "POWER_DOWN"}
      BY DEF IInv, TypeOK
    <3>2. transitionSourceMode \in AllModes
      BY <3>1 DEF AllModes, Mode, BaseMode
    <3> QED BY <3>1, <3>2, <2>1, <2>3, <1>0, ModeSet
  <2> QED BY <1>1, <1>a, <2>2, <2>3 DEF ChildTransition
<1>2. CASE PowerDown
  <2>1. "WAIT_OFF" \in AllModes
    BY DEF AllModes, BaseMode
  <2> QED BY <1>2, <2>1, <1>0, ModeSet DEF PowerDown, commandSwitch
<1>3. CASE PowerOn
  <2>1. "WAIT_ON" \in AllModes
    BY DEF AllModes, BaseMode
  <2> QED BY <1>3, <2>1, <1>0, ModeSet DEF PowerOn, commandSwitch
<1>4. CASE WaitOn
  <2>1. switchCommand = "ON" /\ switchCommand' = switchCommand
    BY <1>4 DEF WaitOn, IInv, SwitchFollowsMode
  <2>2. ASSUME setMode("POWER_DOWN", command, TransitionFailed(fdir)) PROVE IInv'
    <3>1. "POWER_DOWN" \in AllModes
      BY DEF AllModes, BaseMode
    <3> QED BY <3>1, <2>1, <2>2, <1>0, ModeSet
  <2>3. ASSUME NEW m \in {"START_UP"} \union ChildEnds("START_UP"), setMode(m, command, fdir)
        PROVE  IInv'
    <3>1. m \in {"START_UP", "TO_ON", "ON"} /\ m \in AllModes
      BY <2>3 DEF ChildEnds, AllModes, Mode, ChildMode
    <3> QED BY <3>1, <2>1, <2>3, <1>0, ModeSet
  <2> QED BY <1>4, <1>a, <2>2, <2>3 DEF WaitOn
<1>5. CASE WaitOff
  <2>1. switchCommand = "OFF" /\ switchCommand' = switchCommand
    BY <1>5 DEF WaitOff, IInv, SwitchFollowsMode
  <2>2. "ERROR_ON" \in AllModes /\ "SWITCH_IS_OFF" \in AllModes
    BY DEF AllModes, Mode, BaseMode
  <2>3. ASSUME setMode("ERROR_ON", command, TransitionFailed(fdir)) PROVE IInv'
    BY <2>1, <2>2, <2>3, <1>0, ModeSet
  <2>4. ASSUME setMode("SWITCH_IS_OFF", command, fdir) PROVE IInv'
    BY <2>1, <2>2, <2>4, <1>0, ModeSet
  <2> QED BY <1>5, <1>a, <2>3, <2>4 DEF WaitOff
<1>6. CASE SwitchIsOff
  <2>1. switchCommand = "OFF" /\ switchCommand' = switchCommand /\ "OFF" \in AllModes
    BY <1>6 DEF SwitchIsOff, IInv, SwitchFollowsMode, AllModes, Mode
  <2> QED BY <1>6, <2>1, <1>0, ModeSet DEF SwitchIsOff
<1>7. CASE Settled
  BY <1>7, <1>a DEF Settled
<1> QED BY <1>1, <1>2, <1>3, <1>4, <1>5, <1>6, <1>7

LEMMA WatchSteps ==
  ASSUME IInv, CheckSwitchState \/ Exchange \/ CheckForFailures
  PROVE  IInv'
<1>0. fdir \in Fdir /\ elapsed \in Nat
  BY DEF IInv, TypeOK, Fdir
<1>1. CASE CheckSwitchState
  <2>1. [fdir EXCEPT !.state = "DEVICE_MIGHT_BE_OFF"] \in Fdir
    BY <1>0 DEF Fdir, FDIRState
  <2> QED BY <1>0, <1>1, <2>1, ModeKept DEF CheckSwitchState, IInv, TypeOK
<1>2. CASE Exchange
  <2>1. \A f \in Counted : f \in Fdir
    BY <1>0, FdirClosed DEF Counted
  <2> QED BY <1>0, <1>2, <2>1, ModeKept DEF Exchange, IInv, TypeOK
<1>3. CASE CheckForFailures
  <2>1. \A f \in {fdir, setFaulty(fdir), handleRecovery(fdir)} \union Counted :
          \A g \in Decremented(f) : g \in Fdir
    BY <1>0, FdirClosed DEF Counted
  <2>2. fdir' \in Fdir
    BY <1>3, <2>1 DEF CheckForFailures, eventConfirmed
  <2>3. elapsed' \in Nat
    BY <1>0, <1>3 DEF CheckForFailures
  <2>4. requests' \subseteq requests
    BY <1>3 DEF CheckForFailures
  <2>5. requests' \subseteq {"switch", "missed"}
    BY <2>4 DEF IInv, TypeOK
  <2> QED BY <1>3, <2>2, <2>3, <2>5, ModeKept DEF CheckForFailures, IInv, TypeOK
<1> QED BY <1>1, <1>2, <1>3

LEMMA StepIInv == IInv /\ [Next]_vars => IInv'
<1> SUFFICES ASSUME IInv, [Next]_vars PROVE IInv'
  OBVIOUS
<1>1. CASE UNCHANGED vars
  BY <1>1 DEF vars, IInv, TypeOK, SwitchFollowsMode
<1> QED BY <1>1, ReadStep, StateMachineStep, WatchSteps DEF Next

-----------------------------------------------------------------------------
(* Every variable keeps its type; above all the recovery counter stays in  *)
(* 0 .. MaxReboot, and no transition has OFF as its source.                *)
THEOREM TypeCorrect == Spec => []TypeOK
<1>1. IInv => TypeOK
  BY DEF IInv
<1> QED BY <1>1, InitIInv, StepIInv, PTL DEF Spec

(* The handler rests in OFF only after the switch has been told to go off, *)
(* and starts the device up only after it has been told to go on, whatever *)
(* the delays, the commands and the faults on the way.                     *)
THEOREM SwitchIsTold == Spec => []SwitchFollowsMode
<1>1. IInv => SwitchFollowsMode
  BY DEF IInv
<1> QED BY <1>1, InitIInv, StepIInv, PTL DEF Spec

-----------------------------------------------------------------------------
(***************************************************************************)
(* The steps of DeviceModes are steps of a ModeHolder.                     *)
(***************************************************************************)
\* A handler that rests in a mode has no command in progress
Rested == ~isTransitionalMode(mode) => command = NO_COMMAND

\* Within a transition, setMode either ends it with one answer or is silent
LEMMA SetModeInTransition ==
  ASSUME isTransitionalMode(mode), NEW m \in AllModes, NEW f, setMode(m, command, f)
  PROVE  Holder!HolderNext /\ Rested'
<1>1. CASE isTransitionalMode(m)
  BY <1>1 DEF setMode, settled, Rested, Holder!HolderNext, Holder!Silence, isTransitionalMode
<1>2. CASE ~isTransitionalMode(m)
  <2>1. m \in Mode
    BY <1>2 DEF AllModes, isTransitionalMode
  <2>2. mode' = m /\ command' = NO_COMMAND /\ answer' = Answers(command, m)
    BY <1>2 DEF setMode
  <2>3. ~isTransitionalMode(mode)'
    BY <1>2, <2>2 DEF isTransitionalMode
  <2> QED BY <2>1, <2>2, <2>3 DEF settled, Rested, Answers, Holder!HolderNext, Holder!Settle, Holder!Reply
<1> QED BY <1>1, <1>2

\* At rest, a mode command is taken on or answered at once
LEMMA SetModeOnCommand ==
  ASSUME ~isTransitionalMode(mode), command = NO_COMMAND,
         NEW m \in AllModes, NEW f, NEW c \in [by : Commander, mode : Commandable],
         setMode(m, c, f), isTransitionalMode(m) \/ m = c.mode
  PROVE  Holder!HolderNext /\ Rested'
<1>0. c \in Holder!Command
  BY DEF Holder!Command, Commandable
<1>1. CASE isTransitionalMode(m)
  <2>1. mode' = m /\ command' = c /\ answer' = {}
    BY <1>1 DEF setMode
  <2>2. isTransitionalMode(mode)'
    BY <1>1, <2>1 DEF isTransitionalMode
  <2> QED BY <1>0, <2>1, <2>2 DEF settled, Rested, Holder!HolderNext, Holder!TakeOn
<1>2. CASE ~isTransitionalMode(m)
  <2>1. mode' = m /\ command' = NO_COMMAND /\ answer' = Answers(c, m)
    BY <1>2 DEF setMode
  <2>2. ~isTransitionalMode(mode)'
    BY <1>2, <2>1 DEF isTransitionalMode
  <2>3. Holder!Silence \/ Holder!AnswerAtOnce
    BY <1>0, <1>2, <2>1, <2>2
       DEF settled, Answers, Holder!Silence, Holder!AnswerAtOnce, Holder!Reply
  <2> QED BY <2>1, <2>3 DEF Rested, Holder!HolderNext
<1> QED BY <1>1, <1>2

\* Nothing said and nothing taken on
LEMMA Silent ==
  ASSUME Rested, answer' = {}, UNCHANGED <<mode, command>>
  PROVE  Holder!HolderNext /\ Rested'
BY DEF settled, Rested, isTransitionalMode, Holder!HolderNext, Holder!Silence

LEMMA HolderStep == IInv /\ Rested /\ [Next]_vars => [Holder!HolderNext]_Holder!holderVars /\ Rested'
<1> SUFFICES ASSUME IInv, Rested, Next PROVE Holder!HolderNext /\ Rested'
  BY DEF vars, Holder!holderVars, settled, Rested, isTransitionalMode
<1>1. CASE ReadCommandQueue
  <2>1. ASSUME NEW by \in Commander, NEW m \in Commandable, ModeCommand(by, m)
        PROVE  Holder!HolderNext /\ Rested'
    <3> DEFINE f == IF by = Parent THEN fdir ELSE setHealth(fdir, "EXTERNAL_CONTROL")
               c == [by |-> by, mode |-> m]
    <3>1. CASE checkModeCommand(m) /\ startTransition(m, c, f)
      <4>1. ~isTransitionalMode(mode) /\ command = NO_COMMAND
        BY <3>1 DEF checkModeCommand, Rested
      <4>2. c \in [by : Commander, mode : Commandable] /\ c.mode = m
        OBVIOUS
      <4>3. PICK k : /\ setMode(k, c, f)
                     /\ \/ k \in {"POWER_ON", "POWER_DOWN", "SHUT_DOWN", "TO_ON", "TO_NORMAL", "TO_RAW"}
                        \/ k = "RAW" /\ k = m
        <5> HIDE DEF f, c
        <5>1. m \in {"OFF", "ON", "NORMAL", "RAW"}
          BY DEF Commandable, Mode
        <5>2. m # "OFF" => To(m) \in {"TO_ON", "TO_NORMAL", "TO_RAW"}
          BY <5>1 DEF To
        <5> QED BY <3>1, <5>1, <5>2 DEF startTransition
      <4>4. k \in AllModes /\ (isTransitionalMode(k) \/ k = m)
        BY <4>3 DEF AllModes, isTransitionalMode, BaseMode, ChildMode, Mode
      <4> HIDE DEF f, c
      <4> QED BY <4>1, <4>2, <4>3, <4>4, SetModeOnCommand
    <3>2. CASE ~checkModeCommand(m)
      BY <2>1, <3>2, Silent DEF ModeCommand
    <3> QED BY <2>1, <3>1, <3>2 DEF ModeCommand
  <2>2. ASSUME NEW h \in HealthState, HealthCommand(h) PROVE Holder!HolderNext /\ Rested'
    BY <2>2, Silent DEF HealthCommand
  <2>3. CASE Announce
    BY <2>3, Silent DEF Announce
  <2>4. CASE NoMessage
    BY <2>4, Silent DEF NoMessage
  <2> QED BY <1>1, <2>1, <2>2, <2>3, <2>4 DEF ReadCommandQueue
<1>2. CASE DoStateMachine
  <2>a. ASSUME mode \in ChildMode \union BaseMode, NEW m \in AllModes, NEW f, setMode(m, command, f)
        PROVE  Holder!HolderNext /\ Rested'
    BY <2>a, SetModeInTransition DEF isTransitionalMode
  <2>1. CASE ChildTransition
    <3>1. mode \in ChildMode
      BY <2>1 DEF ChildTransition
    <3>2. \A m \in ChildEnds(mode) : m \in AllModes
      BY <3>1 DEF ChildMode, ChildEnds, AllModes, Mode, BaseMode
    <3>3. transitionSourceMode \in AllModes
      BY DEF IInv, TypeOK, AllModes, Mode, BaseMode
    <3> QED BY <2>1, <2>a, <3>1, <3>2, <3>3, Silent DEF ChildTransition
  <2>2. CASE PowerDown \/ PowerOn \/ SwitchIsOff
    <3>1. "WAIT_OFF" \in AllModes /\ "WAIT_ON" \in AllModes /\ "OFF" \in AllModes
      BY DEF AllModes, Mode, BaseMode
    <3> QED BY <2>2, <2>a, <3>1 DEF PowerDown, PowerOn, SwitchIsOff, BaseMode
  <2>3. CASE WaitOn
    <3>1. \A m \in {"START_UP", "POWER_DOWN"} \union ChildEnds("START_UP") : m \in AllModes
      BY DEF ChildEnds, AllModes, Mode, BaseMode, ChildMode
    <3>2. mode \in ChildMode \union BaseMode
      BY <2>3 DEF WaitOn, BaseMode
    <3> QED BY <2>3, <2>a, <3>1, <3>2, Silent DEF WaitOn
  <2>4. CASE WaitOff
    <3>1. "ERROR_ON" \in AllModes /\ "SWITCH_IS_OFF" \in AllModes
      BY DEF AllModes, Mode, BaseMode
    <3>2. mode \in ChildMode \union BaseMode
      BY <2>4 DEF WaitOff, BaseMode
    <3> QED BY <2>4, <2>a, <3>1, <3>2, Silent DEF WaitOff
  <2>5. CASE Settled
    BY <2>5, Silent DEF Settled
  <2> QED BY <1>2, <2>1, <2>2, <2>3, <2>4, <2>5 DEF DoStateMachine
<1>3. CASE CheckSwitchState \/ Exchange \/ CheckForFailures
  <2>1. answer' = {} /\ UNCHANGED <<mode, command>>
    BY <1>3 DEF CheckSwitchState, Exchange, CheckForFailures
  <2> QED BY <2>1, Silent
<1> QED BY <1>1, <1>2, <1>3 DEF Next

(* Every behaviour of the handler is, step by step, one of a ModeHolder:   *)
(* no command is answered twice, by a wrong mode or to a wrong commander,  *)
(* none is taken on while another is in progress, and no mode is left      *)
(* without a command.  (That each command ends is left to model checking.) *)
THEOREM HoldsModes == Spec => Holder!HolderSafe
<1>1. Init => Holder!HolderInit /\ Rested
  BY DEF Init, Holder!HolderInit, settled, Rested, isTransitionalMode, ChildMode, BaseMode
<1>2. IInv /\ Rested /\ [Next]_vars => [Holder!HolderNext]_Holder!holderVars /\ Rested'
  BY HolderStep
<1> QED BY <1>1, <1>2, InitIInv, StepIInv, PTL DEF Spec, Holder!HolderSafe

-----------------------------------------------------------------------------
(***************************************************************************)
(* The failure isolation of a faulty device is passed by in all but two    *)
(* steps of the cycle.                                                     *)
(***************************************************************************)
FaultyStays == fdir.health = "FAULTY" /\ fdir'.health # "FAULTY"
                 => pc = "readCommandQueue" \/ (pc = "checkForFailures" /\ requests # {})

\* Neither a mode report nor a fault counter that goes down changes the health,
\* and a failed transition does not if the device is faulty already
LEMMA HealthKept ==
  ASSUME TypeOK, fdir.health = "FAULTY"
  PROVE  /\ ~Listens(fdir) /\ TransitionFailed(fdir) = fdir
         /\ ModeInfo(fdir).health = "FAULTY"
         /\ \A g \in Decremented(fdir) : g.health = "FAULTY"
<1>1. ~Listens(fdir) /\ TransitionFailed(fdir) = fdir
  BY DEF Listens, TransitionFailed
<1>2. PICK f \in Fdir : f = fdir
  BY DEF TypeOK, Fdir
<1>3. ModeInfo(f).health = f.health /\ \A g \in Decremented(f) : g.health = f.health
  BY <1>2 DEF ModeInfo, Decremented, Fdir
<1> QED BY <1>1, <1>2, <1>3

LEMMA FaultyStep == ASSUME TypeOK, Next PROVE FaultyStays
<1> SUFFICES ASSUME fdir.health = "FAULTY", pc # "readCommandQueue",
                    pc = "checkForFailures" => requests = {}
             PROVE  fdir'.health = "FAULTY"
  BY DEF FaultyStays
<1>1. ASSUME NEW m, NEW c, setMode(m, c, fdir) PROVE fdir'.health = "FAULTY"
  BY <1>1, HealthKept DEF setMode
<1>2. CASE DoStateMachine
  <2>1. ASSUME NEW m, setMode(m, command, TransitionFailed(fdir)) PROVE fdir'.health = "FAULTY"
    BY <1>1, <2>1, HealthKept
  <2> QED BY <1>1, <1>2, <2>1
          DEF DoStateMachine, ChildTransition, PowerDown, PowerOn, WaitOn, WaitOff, SwitchIsOff, Settled
<1>3. CASE CheckSwitchState
  BY <1>3, HealthKept DEF CheckSwitchState
<1>4. CASE Exchange
  BY <1>4, HealthKept DEF Exchange
<1>5. CASE CheckForFailures
  BY <1>5, HealthKept DEF CheckForFailures
<1>6. CASE ReadCommandQueue
  BY <1>6 DEF ReadCommandQueue
<1> QED BY <1>2, <1>3, <1>4, <1>5, <1>6 DEF Next

\* A device found faulty is taken out of that only by a command, or by the
\* confirmation of a fault that was put to others before: no event of the
\* handler or of the power unit restarts it, whatever the delays
THEOREM FaultyLeftKnowingly == Spec => FaultyIsLeftKnowingly
<1>1. TypeOK /\ [Next]_vars => [FaultyStays]_vars
  BY FaultyStep
<1> QED BY <1>1, TypeCorrect, PTL DEF Spec, FaultyIsLeftKnowingly, FaultyStays
=============================================================================
