--------------------------- MODULE DeviceExchange ---------------------------
(***************************************************************************)
(* DeviceHandlerBase, the half that talks to the device: commands come in  *)
(* from commanders (executeAction), from the ground (raw commands) or from *)
(* the handler itself, are written to the device, and replies are matched  *)
(* to them or time out.  The polling sequence calls performOperation four  *)
(* times in a cycle: SEND_WRITE, GET_WRITE, SEND_READ, GET_READ.           *)
(*                                                                         *)
(* One task runs it all.  "pc" names the next piece of performOperation;   *)
(* nothing else touches this state in between.  How the mode moves is the  *)
(* subject of module DeviceModes: here a command starts a transition, and  *)
(* the transition ends in any mode.  "TRANSITION" stands for MODE_ERROR_ON  *)
(* too, in which commands are refused in the same way.                     *)
(***************************************************************************)
EXTENDS Integers, FiniteSets

CONSTANTS
  Command,         \* deviceCommandMap without RAW_COMMAND_ID
  WithReply,       \* the commands whose id is in deviceReplyMap as well
  Periodic,        \* the replies that are entered as periodic
  maxDelayCycles,
  Commander,
  NO_COMMANDER,
  RAW_COMMAND_ID,
  END,             \* deviceCommandMap.end()
  ReplyRange,      \* expectedReplies counts modulo this, 2^8 in the code
  MaxFrames,       \* replies in what one read returns
  IgnoreBound      \* reads fail while ignoreMissedRepliesCount is below it

ASSUME DeviceExchangeAssumption ==
  /\ Periodic \subseteq WithReply /\ WithReply \subseteq Command
  /\ maxDelayCycles \in [WithReply -> Nat \ {0}]
  /\ NO_COMMANDER \notin Commander
  /\ RAW_COMMAND_ID \notin Command /\ END \notin Command /\ END # RAW_COMMAND_ID
  /\ ReplyRange \in Nat /\ ReplyRange > 1
  /\ MaxFrames \in Nat /\ IgnoreBound \in Nat

Mode == {"OFF", "ON", "NORMAL", "RAW", "TRANSITION"}
DeviceCommand == Command \union {RAW_COMMAND_ID}
CookieState == {"UNUSED", "WRITE_READY", "WRITE_SENT", "READ_SENT"}
Place == {"readCommandQueue", "doStateMachine", "decrementDeviceReplyMap",
          "buildInternalCommand", "doSendWrite", "doGetWrite", "doSendRead",
          "doGetRead", "parseReply"}

VARIABLES
  pc, mode,
  cookieState, pendingCommand,    \* cookieInfo
  deviceCommandMap,               \* command -> isExecuting, expectedReplies, sendReplyTo
  deviceReplyMap,                 \* reply -> delayCycles, linked (to its command)
  ignoreMissedRepliesCount,
  lastPartner,                    \* of commandQueue: where reply() goes
  frames,                         \* replies left in the data that was read
  open,                           \* commander and command: taken on, not yet answered
  sent                            \* the answers that the last step sent

cookie == <<cookieState, pendingCommand>>
vars == <<pc, mode, cookie, deviceCommandMap, deviceReplyMap,
          ignoreMissedRepliesCount, lastPartner, frames, open, sent>>

Answer == [to : Commander, of : DeviceCommand,
           kind : {"refused", "step", "failed", "finished"}]

\* The last word on a command: a failed step or the completion
Final(answers) == {<<a.to, a.of>> : a \in {b \in answers : b.kind \in {"failed", "finished"}}}

Send(answers) == sent' = answers
TakeOn(commander, c) == open' = open \union {<<commander, c>>}
Close(answers) == open' = open \ Final(answers)

Init ==
  /\ pc = "readCommandQueue" /\ mode = "OFF"
  /\ cookieState = "UNUSED" /\ pendingCommand = END
  /\ deviceCommandMap = [c \in DeviceCommand |->
       [isExecuting |-> FALSE, expectedReplies |-> 0, sendReplyTo |-> NO_COMMANDER]]
  /\ deviceReplyMap = [r \in WithReply |-> [delayCycles |-> 0, linked |-> FALSE]]
  /\ ignoreMissedRepliesCount = 0
  /\ lastPartner \in Commander
  /\ frames = 0 /\ open = {} /\ sent = {}

-----------------------------------------------------------------------------
(***************************************************************************)
(* SEND_WRITE.  performOperation sets the cookie to UNUSED, reads one      *)
(* message, runs the state machine, counts the replies' time down and then *)
(* writes the command that was built, or one of the handler's own.         *)
(***************************************************************************)
Executes(c, commander) ==
  /\ cookieState' = "WRITE_READY" /\ pendingCommand' = c
  /\ deviceCommandMap' = [deviceCommandMap EXCEPT ![c].isExecuting = TRUE,
                                                  ![c].sendReplyTo = commander]

\* ActionHelper::prepareExecution and executeAction
executeAction(commander, c) ==
  /\ IF /\ mode \in {"ON", "NORMAL"}
        /\ ~deviceCommandMap[c].isExecuting
     THEN \/ Executes(c, commander) /\ TakeOn(commander, c) /\ Send({})
          \/ \* buildCommandFromCommand has failed
             /\ UNCHANGED <<pendingCommand, deviceCommandMap, open>>
             /\ cookieState' = "UNUSED"
             /\ Send({[to |-> commander, of |-> c, kind |-> "refused"]})
     ELSE /\ UNCHANGED <<pendingCommand, deviceCommandMap, open>>
          /\ cookieState' = "UNUSED"
          /\ Send({[to |-> commander, of |-> c, kind |-> "refused"]})
  /\ UNCHANGED mode

\* handleDeviceHandlerMessage, CMD_RAW: isExecuting is set, never looked at
RawCommand(commander) ==
  /\ IF mode = "RAW"
     THEN \/ /\ cookieState' = "WRITE_READY" /\ pendingCommand' = RAW_COMMAND_ID
             /\ deviceCommandMap' = [deviceCommandMap EXCEPT ![RAW_COMMAND_ID].isExecuting = TRUE]
             /\ TakeOn(commander, RAW_COMMAND_ID) /\ Send({})
          \/ \* the data is not in the IPC store
             /\ UNCHANGED <<pendingCommand, deviceCommandMap, open>>
             /\ cookieState' = "UNUSED"
             /\ Send({[to |-> commander, of |-> RAW_COMMAND_ID, kind |-> "refused"]})
     ELSE /\ UNCHANGED <<pendingCommand, deviceCommandMap, open>>
          /\ cookieState' = "UNUSED"
          /\ Send({[to |-> commander, of |-> RAW_COMMAND_ID, kind |-> "refused"]})
  /\ UNCHANGED mode

\* A mode command that is carried out: OFF to RAW at once, all others by a transition
ModeCommand ==
  /\ mode # "TRANSITION"
  /\ mode' \in {"TRANSITION"} \union (IF mode = "OFF" THEN {"RAW"} ELSE {})
  /\ cookieState' = "UNUSED" /\ Send({})
  /\ UNCHANGED <<pendingCommand, deviceCommandMap, open>>

NoMessage ==
  /\ cookieState' = "UNUSED" /\ Send({})
  /\ UNCHANGED <<mode, pendingCommand, deviceCommandMap, open>>

ReadCommandQueue ==
  /\ pc = "readCommandQueue" /\ pc' = "doStateMachine"
  /\ \/ NoMessage /\ UNCHANGED lastPartner
     \/ \E commander \in Commander :
          /\ lastPartner' = commander
          /\ \/ \E c \in Command : executeAction(commander, c)
             \/ RawCommand(commander)
             \/ ModeCommand
  /\ UNCHANGED <<deviceReplyMap, ignoreMissedRepliesCount, frames>>

(***************************************************************************)
(* A transition ends in any mode or goes on.  On its way, or in another    *)
(* mode, the child switches periodic replies on and off, as the header     *)
(* asks it to (updateReplyMapEntry); here only for replies that no command *)
(* waits for.                                                              *)
(***************************************************************************)
updateReplyMapEntry(r, delayCycles) ==
  deviceReplyMap' = [deviceReplyMap EXCEPT ![r].delayCycles = delayCycles]

DoStateMachine ==
  /\ pc = "doStateMachine" /\ pc' = "decrementDeviceReplyMap"
  /\ IF mode = "TRANSITION" THEN mode' \in Mode ELSE mode' = mode
  /\ \/ UNCHANGED deviceReplyMap
     \/ \E r \in {p \in Periodic : ~deviceCommandMap[p].isExecuting},
           on \in BOOLEAN :
          updateReplyMapEntry(r, IF on THEN maxDelayCycles[r] ELSE 0)
  /\ Send({})
  /\ UNCHANGED <<cookie, deviceCommandMap, ignoreMissedRepliesCount, lastPartner,
                 frames, open>>

(***************************************************************************)
(* replyToReply for the replies in R: a reply no command was linked to is  *)
(* passed over; the last reply a command expects completes it.             *)
(***************************************************************************)
Linked(R) == {r \in R : deviceReplyMap[r].linked}
expectedRepliesLeft(c) == (deviceCommandMap[c].expectedReplies - 1) % ReplyRange
Completed(R) == {r \in Linked(R) : expectedRepliesLeft(r) = 0}

replyToReply(R) ==
  LET answers == {[to |-> deviceCommandMap[c].sendReplyTo, of |-> c, kind |-> "finished"] :
                  c \in {d \in Completed(R) : deviceCommandMap[d].sendReplyTo # NO_COMMANDER}}
  IN  /\ deviceCommandMap' = [c \in DeviceCommand |->
           IF c \in Linked(R)
           THEN [deviceCommandMap[c] EXCEPT
                   !.expectedReplies = expectedRepliesLeft(c),
                   !.isExecuting = IF c \in Completed(R) THEN FALSE ELSE @]
           ELSE deviceCommandMap[c]]
      /\ Send(answers) /\ Close(answers)

Awaited == {r \in WithReply : deviceReplyMap[r].delayCycles # 0}

\* A periodic reply starts over, in time or late
Rearmed_Always(r) == maxDelayCycles[r]
Rearmed(r) == IF r \in Periodic THEN maxDelayCycles[r] ELSE 0

DecrementDeviceReplyMap ==
  LET late == {r \in Awaited : deviceReplyMap[r].delayCycles = 1}
      ignored == Cardinality(late)
  IN  /\ pc = "decrementDeviceReplyMap"
      /\ deviceReplyMap' = [r \in WithReply |->
           [deviceReplyMap[r] EXCEPT
              !.delayCycles = IF r \in late THEN Rearmed(r)
                              ELSE IF r \in Awaited THEN @ - 1 ELSE @]]
      /\ replyToReply(late)
      \* missedReply
      /\ ignoreMissedRepliesCount' = IF ignored > ignoreMissedRepliesCount THEN 0
                                     ELSE ignoreMissedRepliesCount - ignored
      /\ pc' = IF mode = "OFF" THEN "readCommandQueue"
               ELSE IF cookieState = "UNUSED" THEN "buildInternalCommand"
               ELSE "doSendWrite"
      /\ UNCHANGED <<mode, cookie, lastPartner, frames>>

\* An internal command that still executes is passed over without a word
InternalCommands_All == Command
InternalCommands == {c \in Command : ~deviceCommandMap[c].isExecuting}

BuildInternalCommand ==
  /\ pc = "buildInternalCommand" /\ pc' = "doSendWrite"
  /\ \/ UNCHANGED <<cookie, deviceCommandMap>>
     \/ /\ mode \in {"NORMAL", "TRANSITION"}
        /\ \E c \in InternalCommands : Executes(c, NO_COMMANDER)
  /\ Send({})
  /\ UNCHANGED <<mode, deviceReplyMap, ignoreMissedRepliesCount, lastPartner, frames, open>>

-----------------------------------------------------------------------------
(***************************************************************************)
(* replyToCommand: how the pending command fared.  A raw command is        *)
(* answered to whoever sent the last message.                              *)
(***************************************************************************)
ReplyKind(status) == CASE status = "OK"                -> "step"
                       [] status = "NO_REPLY_EXPECTED" -> "finished"
                       [] status = "FAILED"            -> "failed"
replyToCommand(status) ==
  LET commander == deviceCommandMap[pendingCommand].sendReplyTo
      answers == IF pendingCommand = RAW_COMMAND_ID
                 THEN {[to |-> lastPartner, of |-> RAW_COMMAND_ID,
                        kind |-> IF status = "FAILED" THEN "failed" ELSE "finished"]}
                 ELSE IF commander # NO_COMMANDER
                 THEN {[to |-> commander, of |-> pendingCommand, kind |-> ReplyKind(status)]}
                 ELSE {}
  IN  Send(answers) /\ Close(answers)

Stop(c) == deviceCommandMap' = [deviceCommandMap EXCEPT ![c].isExecuting = FALSE]

DoSendWrite ==
  /\ pc = "doSendWrite" /\ pc' = "doGetWrite"
  /\ \/ /\ cookieState = "WRITE_READY" /\ cookieState' = "WRITE_SENT"
        /\ Send({}) /\ UNCHANGED <<deviceCommandMap, open>>
     \/ \* sendMessage has failed
        /\ cookieState = "WRITE_READY" /\ cookieState' = "UNUSED"
        /\ replyToCommand("FAILED") /\ Stop(pendingCommand)
     \/ /\ cookieState # "WRITE_READY"
        /\ Send({}) /\ UNCHANGED <<cookieState, deviceCommandMap, open>>
  /\ UNCHANGED <<mode, pendingCommand, deviceReplyMap, ignoreMissedRepliesCount,
                 lastPartner, frames>>

(***************************************************************************)
(* GET_WRITE.  enableReplyInReplyMap, in its default form: a command that  *)
(* is in the reply map awaits one reply of its own id.                     *)
(***************************************************************************)
enableReplyInReplyMap_NotTimed(c) ==
  /\ deviceReplyMap' = [deviceReplyMap EXCEPT ![c].linked = TRUE]
  /\ deviceCommandMap' = [deviceCommandMap EXCEPT ![c].expectedReplies = 1]

enableReplyInReplyMap_CountKept(c) ==
  /\ deviceReplyMap' = [deviceReplyMap EXCEPT ![c].delayCycles = maxDelayCycles[c],
                                              ![c].linked = TRUE]
  /\ UNCHANGED deviceCommandMap

enableReplyInReplyMap(c) ==
  /\ deviceReplyMap' = [deviceReplyMap EXCEPT ![c].delayCycles = maxDelayCycles[c],
                                              ![c].linked = TRUE]
  /\ deviceCommandMap' = [deviceCommandMap EXCEPT ![c].expectedReplies = 1]

WriteSucceeded ==
  \/ /\ pendingCommand \in WithReply
     /\ enableReplyInReplyMap(pendingCommand) /\ replyToCommand("OK")
  \/ /\ pendingCommand \notin WithReply
     /\ Stop(pendingCommand) /\ replyToCommand("NO_REPLY_EXPECTED")
     /\ UNCHANGED deviceReplyMap

WriteFailed ==
  Stop(pendingCommand) /\ replyToCommand("FAILED") /\ UNCHANGED deviceReplyMap

DoGetWrite ==
  /\ pc = "doGetWrite" /\ pc' = "doSendRead"
  /\ \/ /\ cookieState = "WRITE_SENT" /\ cookieState' = "UNUSED"
        /\ WriteSucceeded \/ WriteFailed
     \/ /\ cookieState # "WRITE_SENT"
        /\ Send({})
        /\ UNCHANGED <<cookieState, deviceCommandMap, deviceReplyMap, open>>
  /\ UNCHANGED <<mode, pendingCommand, ignoreMissedRepliesCount, lastPartner, frames>>

(***************************************************************************)
(* SEND_READ and GET_READ.  Data is asked for in every cycle, whether a    *)
(* reply is due or not.                                                    *)
(***************************************************************************)
ReadFails ==
  /\ ignoreMissedRepliesCount < IgnoreBound
  /\ ignoreMissedRepliesCount' = ignoreMissedRepliesCount + 1

DoSendRead ==
  /\ pc = "doSendRead" /\ pc' = "doGetRead"
  /\ \/ cookieState' = "READ_SENT" /\ UNCHANGED ignoreMissedRepliesCount
     \/ cookieState' = "UNUSED" /\ ReadFails
  /\ Send({})
  /\ UNCHANGED <<mode, pendingCommand, deviceCommandMap, deviceReplyMap, lastPartner,
                 frames, open>>

\* In MODE_RAW the data goes to the raw receiver and is not looked into
DoGetRead ==
  /\ pc = "doGetRead"
  /\ cookieState' = "UNUSED"
  /\ \/ frames' = 0 /\ pc' = "readCommandQueue" /\ UNCHANGED ignoreMissedRepliesCount
     \/ /\ cookieState = "READ_SENT" /\ ReadFails
        /\ frames' = 0 /\ pc' = "readCommandQueue"
     \/ /\ cookieState = "READ_SENT" /\ mode # "RAW"
        /\ frames' \in 1 .. MaxFrames /\ pc' = "parseReply"
        /\ UNCHANGED ignoreMissedRepliesCount
  /\ Send({})
  /\ UNCHANGED <<mode, pendingCommand, deviceCommandMap, deviceReplyMap, lastPartner, open>>

\* The reply matches or comes unrequested
handleReply(r) ==
  \/ /\ deviceReplyMap[r].delayCycles # 0
     /\ deviceReplyMap' = [deviceReplyMap EXCEPT ![r].delayCycles = Rearmed(r)]
     /\ replyToReply({r})
  \/ /\ deviceReplyMap[r].delayCycles = 0
     /\ Send({}) /\ UNCHANGED <<deviceCommandMap, deviceReplyMap, open>>

ParseReply ==
  /\ pc = "parseReply"
  /\ \/ /\ \/ \E r \in WithReply : handleReply(r)
           \/ \* nothing that scanForReply knows
              Send({}) /\ UNCHANGED <<deviceCommandMap, deviceReplyMap, open>>
        /\ frames' = frames - 1
     \/ \* IGNORE_FULL_PACKET
        /\ frames' = 0
        /\ Send({}) /\ UNCHANGED <<deviceCommandMap, deviceReplyMap, open>>
  /\ pc' = IF frames' = 0 THEN "readCommandQueue" ELSE "parseReply"
  /\ UNCHANGED <<mode, cookie, ignoreMissedRepliesCount, lastPartner>>

Next ==
  \/ ReadCommandQueue \/ DoStateMachine \/ DecrementDeviceReplyMap
  \/ BuildInternalCommand \/ DoSendWrite
  \/ DoGetWrite \/ DoSendRead \/ DoGetRead \/ ParseReply

\* The polling sequence calls the handler for ever
Spec == Init /\ [][Next]_vars /\ WF_vars(Next)

-----------------------------------------------------------------------------
\* A command that is marked as executing, and so is refused to everyone
\* (COMMAND_ALREADY_SENT), is either about to be written or awaits a reply
\* whose time runs: no error path leaves the mark behind
BeingWritten(c) == cookieState \in {"WRITE_READY", "WRITE_SENT"} /\ pendingCommand = c
AwaitsReply(c) == /\ c \in WithReply
                  /\ deviceReplyMap[c].linked /\ deviceReplyMap[c].delayCycles # 0
                  /\ deviceCommandMap[c].expectedReplies # 0
NothingExecutesForEver ==
  \A c \in Command : deviceCommandMap[c].isExecuting => BeingWritten(c) \/ AwaitsReply(c)

\* Who waits for an answer is the commander the executing command would
\* answer to: commands of others and of the handler itself do not take it over
CommanderIsKept ==
  \A commander \in Commander, c \in Command :
    <<commander, c>> \in open =>
      /\ deviceCommandMap[c].isExecuting
      /\ deviceCommandMap[c].sendReplyTo = commander

\* A failed step or a completion goes to a commander that waits for it, so
\* that nobody has two of them for one command.  Periodic replies are left
\* out: with them it is not so
OneFinalAnswer ==
  [][\A answer \in Final(sent') : answer[2] \notin Periodic => answer \in open]_vars

\* Every command taken on from a commander is answered for good, whatever
\* the device and the link do
EveryCommandIsAnswered ==
  \A commander \in Commander, c \in DeviceCommand :
    (<<commander, c>> \in open) ~> (<<commander, c>> \notin open)
=============================================================================
