------------------------ MODULE DeviceExchange_proofs ------------------------
(***************************************************************************)
(* Proofs about DeviceExchange: for any commands and replies, times to     *)
(* wait, commanders and amounts of data read at once.                      *)
(***************************************************************************)
EXTENDS DeviceExchange, TLAPS

CommandInfo == [isExecuting : BOOLEAN, expectedReplies : Int,
                sendReplyTo : Commander \cup {NO_COMMANDER}]
ReplyInfo == [delayCycles : Nat, linked : BOOLEAN]

-----------------------------------------------------------------------------
(***************************************************************************)
(* The inductive invariant.                                                *)
(***************************************************************************)
Typed ==
  /\ pc \in Place /\ mode \in Mode /\ cookieState \in CookieState
  /\ pendingCommand \in DeviceCommand \cup {END}
  /\ deviceCommandMap \in [DeviceCommand -> CommandInfo]
  /\ deviceReplyMap \in [WithReply -> ReplyInfo]
  /\ lastPartner \in Commander
  /\ open \subseteq Commander \X DeviceCommand

\* A command is in the cookie from the time it is taken on until it is
\* written, and only while the handler goes on to write it
Writing == cookieState \in {"WRITE_READY", "WRITE_SENT"}
CookieInPlace ==
  /\ Writing => /\ pc \in {"doStateMachine", "decrementDeviceReplyMap", "doSendWrite", "doGetWrite"}
                /\ pendingCommand # END
  /\ Writing /\ pc \in {"doStateMachine", "decrementDeviceReplyMap"}
       => mode \in {"ON", "NORMAL", "RAW"}
  /\ pc = "doGetWrite" => cookieState # "WRITE_READY"
  /\ cookieState = "WRITE_SENT" => pc = "doGetWrite"

\* An executing command is written or has one reply to wait for
OneReplyLeft ==
  \A c \in Command : deviceCommandMap[c].isExecuting =>
    BeingWritten(c) \/ (AwaitsReply(c) /\ deviceCommandMap[c].expectedReplies = 1)

\* Without periodic replies, the time of a reply runs only for a command that
\* was written and executes, and one that is being written executes
OnlyExecuting ==
  \A c \in Command \ Periodic :
    /\ c \in WithReply /\ deviceReplyMap[c].delayCycles # 0
         => deviceCommandMap[c].isExecuting /\ ~BeingWritten(c)
    /\ BeingWritten(c) => deviceCommandMap[c].isExecuting

\* The commander of an executing command, or of a raw one, waits for its answer
CommanderWaits ==
  /\ \A c \in Command \ Periodic :
       deviceCommandMap[c].isExecuting /\ deviceCommandMap[c].sendReplyTo # NO_COMMANDER
         => <<deviceCommandMap[c].sendReplyTo, c>> \in open
  /\ BeingWritten(RAW_COMMAND_ID) => <<lastPartner, RAW_COMMAND_ID>> \in open

IInv == Typed /\ CookieInPlace /\ OneReplyLeft /\ OnlyExecuting /\ CommanderIsKept /\ CommanderWaits

\* A failed step or a completion only ever goes to a commander that waits for it
Expected == \A answer \in Final(sent') : answer[2] \notin Periodic => answer \in open

\* The parts of the invariant that say what is executed and who waits
Kept == OneReplyLeft /\ OnlyExecuting /\ CommanderIsKept /\ CommanderWaits

-----------------------------------------------------------------------------
\* Facts about the constants, in the form in which they are needed
LEMMA Constants ==
  /\ \A r \in WithReply : r \in Command
  /\ \A c \in Command : c \in DeviceCommand /\ c # RAW_COMMAND_ID /\ c # END
  /\ RAW_COMMAND_ID \in DeviceCommand /\ RAW_COMMAND_ID # END
  /\ \A c \in DeviceCommand : c = RAW_COMMAND_ID \/ c \in Command
  /\ NO_COMMANDER \notin Commander
  /\ \A r \in WithReply : maxDelayCycles[r] \in Nat \ {0}
BY DeviceExchangeAssumption DEF DeviceCommand

\* The last replies: answers that are not final, and which ones are
LEMMA Finals ==
  ASSUME NEW answers
  PROVE  /\ (\A a \in answers : a.kind \notin {"failed", "finished"}) => Final(answers) = {}
         /\ \A x \in Final(answers) : \E a \in answers : x = <<a.to, a.of>>
         /\ \A a \in answers : a.kind \in {"failed", "finished"} => <<a.to, a.of>> \in Final(answers)
BY DEF Final

LEMMA Silent ==
  ASSUME Send({}) \/ \E a : Send({a}) /\ a.kind \in {"refused", "step"}
  PROVE  Expected /\ Final(sent') = {}
<1>1. \A a \in sent' : a.kind \notin {"failed", "finished"}
  BY DEF Send
<1>2. Final(sent') = {}
  BY <1>1, Finals
<1> QED BY <1>2 DEF Expected

-----------------------------------------------------------------------------
(***************************************************************************)
(* What the updates of the command map make of it.                         *)
(***************************************************************************)
LEMMA Marked ==
  ASSUME Typed, NEW c \in Command, NEW commander \in Commander \cup {NO_COMMANDER},
         Executes(c, commander)
  PROVE  /\ deviceCommandMap' \in [DeviceCommand -> CommandInfo]
         /\ deviceCommandMap'[c].isExecuting /\ deviceCommandMap'[c].sendReplyTo = commander
         /\ \A d \in DeviceCommand : d # c => deviceCommandMap'[d] = deviceCommandMap[d]
         /\ cookieState' = "WRITE_READY" /\ pendingCommand' = c
<1>1. PICK e \in CommandInfo : e = deviceCommandMap[c]
  BY Constants DEF Typed
<1>2. PICK new : new = [e EXCEPT !.isExecuting = TRUE, !.sendReplyTo = commander]
  OBVIOUS
<1>3. new \in CommandInfo /\ new.isExecuting /\ new.sendReplyTo = commander
  BY <1>1, <1>2 DEF CommandInfo
<1>4. deviceCommandMap' = [deviceCommandMap EXCEPT ![c] = new]
  BY <1>1, <1>2, Constants DEF Executes, Typed
<1>5. /\ deviceCommandMap' \in [DeviceCommand -> CommandInfo] /\ deviceCommandMap'[c] = new
      /\ \A d \in DeviceCommand : d # c => deviceCommandMap'[d] = deviceCommandMap[d]
  BY <1>3, <1>4, Constants DEF Typed
<1>6. cookieState' = "WRITE_READY" /\ pendingCommand' = c
  BY DEF Executes
<1> QED BY <1>3, <1>5, <1>6

LEMMA MarkedRaw ==
  ASSUME Typed,
         deviceCommandMap' = [deviceCommandMap EXCEPT ![RAW_COMMAND_ID].isExecuting = TRUE]
  PROVE  /\ deviceCommandMap' \in [DeviceCommand -> CommandInfo]
         /\ \A d \in Command : deviceCommandMap'[d] = deviceCommandMap[d]
<1>1. PICK e \in CommandInfo : e = deviceCommandMap[RAW_COMMAND_ID]
  BY Constants DEF Typed
<1>2. PICK new : new = [e EXCEPT !.isExecuting = TRUE]
  OBVIOUS
<1>3. new \in CommandInfo
  BY <1>1, <1>2 DEF CommandInfo
<1>4. deviceCommandMap' = [deviceCommandMap EXCEPT ![RAW_COMMAND_ID] = new]
  BY <1>1, <1>2, Constants DEF Typed
<1> QED BY <1>3, <1>4, Constants DEF Typed

LEMMA Stopped ==
  ASSUME Typed, NEW c \in DeviceCommand, Stop(c)
  PROVE  /\ deviceCommandMap' \in [DeviceCommand -> CommandInfo]
         /\ ~deviceCommandMap'[c].isExecuting
         /\ deviceCommandMap'[c].sendReplyTo = deviceCommandMap[c].sendReplyTo
         /\ \A d \in DeviceCommand : d # c => deviceCommandMap'[d] = deviceCommandMap[d]
<1>1. PICK e \in CommandInfo : e = deviceCommandMap[c]
  BY DEF Typed
<1>2. PICK new : new = [e EXCEPT !.isExecuting = FALSE]
  OBVIOUS
<1>3. new \in CommandInfo /\ ~new.isExecuting /\ new.sendReplyTo = e.sendReplyTo
  BY <1>1, <1>2 DEF CommandInfo
<1>4. deviceCommandMap' = [deviceCommandMap EXCEPT ![c] = new]
  BY <1>1, <1>2 DEF Stop, Typed
<1> QED BY <1>1, <1>3, <1>4 DEF Typed

\* One reply is left to wait for
LEMMA Awaits ==
  ASSUME Typed, NEW c \in WithReply, enableReplyInReplyMap(c)
  PROVE  /\ deviceCommandMap' \in [DeviceCommand -> CommandInfo]
         /\ deviceReplyMap' \in [WithReply -> ReplyInfo]
         /\ deviceReplyMap'[c].linked /\ deviceReplyMap'[c].delayCycles # 0
         /\ deviceCommandMap'[c].expectedReplies = 1
         /\ deviceCommandMap'[c].isExecuting = deviceCommandMap[c].isExecuting
         /\ deviceCommandMap'[c].sendReplyTo = deviceCommandMap[c].sendReplyTo
         /\ \A d \in DeviceCommand : d # c => deviceCommandMap'[d] = deviceCommandMap[d]
         /\ \A r \in WithReply : r # c => deviceReplyMap'[r] = deviceReplyMap[r]
<1>1. PICK e \in CommandInfo, f \in ReplyInfo : e = deviceCommandMap[c] /\ f = deviceReplyMap[c]
  BY Constants DEF Typed
<1>2. PICK new, fresh : /\ new = [e EXCEPT !.expectedReplies = 1]
                        /\ fresh = [f EXCEPT !.delayCycles = maxDelayCycles[c], !.linked = TRUE]
  OBVIOUS
<1>3. /\ new \in CommandInfo /\ new.expectedReplies = 1
      /\ new.isExecuting = e.isExecuting /\ new.sendReplyTo = e.sendReplyTo
  BY <1>1, <1>2 DEF CommandInfo
<1>4. fresh \in ReplyInfo /\ fresh.linked /\ fresh.delayCycles # 0
  BY <1>1, <1>2, Constants DEF ReplyInfo
<1>5. /\ deviceCommandMap' = [deviceCommandMap EXCEPT ![c] = new]
      /\ deviceReplyMap' = [deviceReplyMap EXCEPT ![c] = fresh]
  BY <1>1, <1>2, Constants DEF enableReplyInReplyMap, Typed
<1>6. /\ deviceCommandMap' \in [DeviceCommand -> CommandInfo] /\ deviceCommandMap'[c] = new
      /\ \A d \in DeviceCommand : d # c => deviceCommandMap'[d] = deviceCommandMap[d]
  BY <1>3, <1>5, Constants DEF Typed
<1>7. /\ deviceReplyMap' \in [WithReply -> ReplyInfo] /\ deviceReplyMap'[c] = fresh
      /\ \A r \in WithReply : r # c => deviceReplyMap'[r] = deviceReplyMap[r]
  BY <1>4, <1>5 DEF Typed
<1> QED BY <1>1, <1>3, <1>4, <1>6, <1>7

LEMMA Replied ==
  ASSUME Typed, NEW R \in SUBSET WithReply, replyToReply(R)
  PROVE  /\ deviceCommandMap' \in [DeviceCommand -> CommandInfo]
         /\ \A c \in DeviceCommand :
              /\ deviceCommandMap'[c].sendReplyTo = deviceCommandMap[c].sendReplyTo
              /\ c \notin Linked(R) => deviceCommandMap'[c] = deviceCommandMap[c]
              /\ c \in Completed(R) => ~deviceCommandMap'[c].isExecuting
              /\ c \notin Completed(R) =>
                   deviceCommandMap'[c].isExecuting = deviceCommandMap[c].isExecuting
              /\ c \in Linked(R) /\ deviceCommandMap[c].expectedReplies = 1 => c \in Completed(R)
<1>1. /\ \A x \in Int : (x - 1) % ReplyRange \in Int
      /\ (1 - 1) % ReplyRange = 0
  BY DeviceExchangeAssumption
<1>2. deviceCommandMap' = [c \in DeviceCommand |->
           IF c \in Linked(R)
           THEN [deviceCommandMap[c] EXCEPT
                   !.expectedReplies = expectedRepliesLeft(c),
                   !.isExecuting = IF c \in Completed(R) THEN FALSE ELSE @]
           ELSE deviceCommandMap[c]]
  BY DEF replyToReply
<1>3. ASSUME NEW c \in DeviceCommand
      PROVE  /\ deviceCommandMap'[c] \in CommandInfo
             /\ deviceCommandMap'[c].sendReplyTo = deviceCommandMap[c].sendReplyTo
             /\ c \notin Linked(R) => deviceCommandMap'[c] = deviceCommandMap[c]
             /\ c \in Completed(R) => ~deviceCommandMap'[c].isExecuting
             /\ c \notin Completed(R) =>
                  deviceCommandMap'[c].isExecuting = deviceCommandMap[c].isExecuting
             /\ c \in Linked(R) /\ deviceCommandMap[c].expectedReplies = 1 => c \in Completed(R)
  <2>1. PICK e \in CommandInfo : e = deviceCommandMap[c]
    BY DEF Typed
  <2>2. e.expectedReplies \in Int /\ expectedRepliesLeft(c) = (e.expectedReplies - 1) % ReplyRange
    BY <2>1 DEF CommandInfo, expectedRepliesLeft
  <2>3. PICK left \in Int : left = expectedRepliesLeft(c)
    BY <1>1, <2>2
  <2>4. c \in Linked(R) /\ e.expectedReplies = 1 => c \in Completed(R)
    BY <1>1, <2>2 DEF Completed
  <2>5. c \in Completed(R) => c \in Linked(R)
    BY DEF Completed
  <2>6. CASE c \notin Linked(R)
    BY <1>2, <2>1, <2>5, <2>6
  <2>7. CASE c \in Linked(R)
    <3>1. deviceCommandMap'[c] = [e EXCEPT !.expectedReplies = left,
                                  !.isExecuting = IF c \in Completed(R) THEN FALSE ELSE e.isExecuting]
      BY <1>2, <2>1, <2>3, <2>7
    <3>2. CASE c \in Completed(R)
      <4>1. deviceCommandMap'[c] = [e EXCEPT !.expectedReplies = left, !.isExecuting = FALSE]
        BY <3>1, <3>2
      <4>2. /\ deviceCommandMap'[c] \in CommandInfo /\ deviceCommandMap'[c].sendReplyTo = e.sendReplyTo
            /\ ~deviceCommandMap'[c].isExecuting
        BY <2>1, <2>3, <4>1 DEF CommandInfo
      <4> QED BY <2>1, <2>7, <3>2, <4>2
    <3>3. CASE c \notin Completed(R)
      <4>1. deviceCommandMap'[c] = [e EXCEPT !.expectedReplies = left, !.isExecuting = e.isExecuting]
        BY <3>1, <3>3
      <4>2. /\ deviceCommandMap'[c] \in CommandInfo /\ deviceCommandMap'[c].sendReplyTo = e.sendReplyTo
            /\ deviceCommandMap'[c].isExecuting = e.isExecuting
        BY <2>1, <2>3, <4>1 DEF CommandInfo
      <4> QED BY <2>1, <2>4, <2>7, <3>3, <4>2
    <3> QED BY <3>2, <3>3
  <2> QED BY <2>6, <2>7
<1> QED BY <1>2, <1>3

-----------------------------------------------------------------------------
(***************************************************************************)
(* What is executed and who waits, over the steps of a command's life.     *)
(***************************************************************************)
Answered(c) == [to |-> deviceCommandMap[c].sendReplyTo, of |-> c, kind |-> "finished"]

\* The answers of replyToReply
LEMMA Answers ==
  ASSUME Typed, NEW R \in SUBSET WithReply, replyToReply(R)
  PROVE  /\ \A x \in Final(sent') : \E c \in Completed(R) :
              x = <<deviceCommandMap[c].sendReplyTo, c>> /\ x[1] # NO_COMMANDER
         /\ \A c \in Completed(R) : deviceCommandMap[c].sendReplyTo # NO_COMMANDER
              => <<deviceCommandMap[c].sendReplyTo, c>> \in Final(sent')
         /\ open' = open \ Final(sent')
<1>1. sent' = {Answered(c) : c \in {d \in Completed(R) : deviceCommandMap[d].sendReplyTo # NO_COMMANDER}}
  BY DEF replyToReply, Send, Answered
<1>2. open' = open \ Final(sent')
  BY DEF replyToReply, Send, Close
<1>3. ASSUME NEW x \in Final(sent')
      PROVE  \E c \in Completed(R) : x = <<deviceCommandMap[c].sendReplyTo, c>> /\ x[1] # NO_COMMANDER
  <2>1. PICK a \in sent' : x = <<a.to, a.of>>
    BY Finals
  <2>2. PICK c \in Completed(R) : a = Answered(c) /\ deviceCommandMap[c].sendReplyTo # NO_COMMANDER
    BY <1>1, <2>1
  <2> QED BY <2>1, <2>2 DEF Answered
<1>4. ASSUME NEW c \in Completed(R), deviceCommandMap[c].sendReplyTo # NO_COMMANDER
      PROVE  <<deviceCommandMap[c].sendReplyTo, c>> \in Final(sent')
  <2>1. Answered(c) \in sent' /\ Answered(c).kind = "finished"
    BY <1>1, <1>4 DEF Answered
  <2>2. <<Answered(c).to, Answered(c).of>> \in Final(sent')
    BY <2>1, Finals
  <2> QED BY <2>2 DEF Answered
<1> QED BY <1>2, <1>3, <1>4

\* Replies that came, or did not come in time, answer who waits for them; all
\* others go on waiting
LEMMA RepliedKeeps ==
  ASSUME IInv, NEW R \in SUBSET Awaited, replyToReply(R),
         UNCHANGED <<cookie, lastPartner>>,
         \A r \in WithReply :
           /\ deviceReplyMap'[r].linked = deviceReplyMap[r].linked
           /\ r \in R => deviceReplyMap'[r].delayCycles = Rearmed(r)
           /\ r \notin R => (deviceReplyMap'[r].delayCycles # 0 <=> deviceReplyMap[r].delayCycles # 0)
  PROVE  Kept' /\ Expected
<1>1. Typed /\ OneReplyLeft /\ OnlyExecuting /\ CommanderIsKept /\ CommanderWaits
  BY DEF IInv
<1>2. R \in SUBSET WithReply /\ \A r \in R : deviceReplyMap[r].delayCycles # 0
  BY DEF Awaited
<1>3. /\ Completed(R) \subseteq Linked(R) /\ Linked(R) \subseteq R
      /\ \A r \in R : deviceReplyMap[r].linked => r \in Linked(R)
  BY DEF Completed, Linked
<1>4. \A c \in DeviceCommand :
        /\ deviceCommandMap'[c].sendReplyTo = deviceCommandMap[c].sendReplyTo
        /\ c \notin Linked(R) => deviceCommandMap'[c] = deviceCommandMap[c]
        /\ c \in Completed(R) => ~deviceCommandMap'[c].isExecuting
        /\ c \notin Completed(R) =>
             deviceCommandMap'[c].isExecuting = deviceCommandMap[c].isExecuting
        /\ c \in Linked(R) /\ deviceCommandMap[c].expectedReplies = 1 => c \in Completed(R)
  BY <1>1, <1>2, Replied
<1>5. /\ \A x \in Final(sent') : \E c \in Completed(R) :
           x = <<deviceCommandMap[c].sendReplyTo, c>> /\ x[1] # NO_COMMANDER
      /\ \A c \in Completed(R) : deviceCommandMap[c].sendReplyTo # NO_COMMANDER
           => <<deviceCommandMap[c].sendReplyTo, c>> \in Final(sent')
      /\ open' = open \ Final(sent')
  BY <1>1, <1>2, Answers
<1>6. \A c : BeingWritten(c)' <=> BeingWritten(c)
  BY DEF BeingWritten, cookie
<1>7. OneReplyLeft'
  <2>1. ASSUME NEW c \in Command, deviceCommandMap'[c].isExecuting, ~BeingWritten(c)
        PROVE  AwaitsReply(c)' /\ deviceCommandMap'[c].expectedReplies = 1
    <3>1. c \notin Completed(R) /\ deviceCommandMap[c].isExecuting
      BY <1>4, <2>1, Constants
    <3>2. AwaitsReply(c) /\ deviceCommandMap[c].expectedReplies = 1
      BY <1>1, <2>1, <3>1 DEF OneReplyLeft
    <3>3. c \notin R
      BY <1>3, <1>4, <3>1, <3>2, Constants DEF AwaitsReply
    <3>4. deviceCommandMap'[c] = deviceCommandMap[c]
      BY <1>3, <1>4, <3>3, Constants
    <3> QED BY <3>2, <3>3, <3>4 DEF AwaitsReply
  <2> QED BY <1>6, <2>1 DEF OneReplyLeft
<1>8. OnlyExecuting'
  <2>1. ASSUME NEW c \in Command \ Periodic, c \in WithReply, deviceReplyMap'[c].delayCycles # 0
        PROVE  deviceCommandMap'[c].isExecuting /\ ~BeingWritten(c)'
    <3>1. c \notin R
      BY <2>1 DEF Rearmed
    <3>2. deviceCommandMap[c].isExecuting /\ ~BeingWritten(c)
      BY <1>1, <2>1, <3>1 DEF OnlyExecuting
    <3> QED BY <1>3, <1>4, <1>6, <3>1, <3>2, Constants
  <2>2. ASSUME NEW c \in Command \ Periodic, BeingWritten(c)'
        PROVE  deviceCommandMap'[c].isExecuting
    <3>1. deviceCommandMap[c].isExecuting
      BY <1>1, <1>6, <2>2 DEF OnlyExecuting
    <3>2. c \notin R
      BY <1>1, <1>2, <1>6, <2>2 DEF OnlyExecuting
    <3> QED BY <1>3, <1>4, <3>1, <3>2, Constants
  <2> QED BY <2>1, <2>2 DEF OnlyExecuting
<1>9. CommanderIsKept'
  <2>1. ASSUME NEW commander \in Commander, NEW c \in Command, <<commander, c>> \in open'
        PROVE  /\ deviceCommandMap'[c].isExecuting
               /\ deviceCommandMap'[c].sendReplyTo = commander
    <3>1. deviceCommandMap[c].isExecuting /\ deviceCommandMap[c].sendReplyTo = commander
      BY <1>1, <1>5, <2>1 DEF CommanderIsKept
    <3>2. c \notin Completed(R)
      BY <1>5, <2>1, <3>1, Constants
    <3> QED BY <1>4, <3>1, <3>2, Constants
  <2> QED BY <2>1 DEF CommanderIsKept
<1>10. CommanderWaits'
  <2>1. ASSUME NEW c \in Command \ Periodic, deviceCommandMap'[c].isExecuting,
               deviceCommandMap'[c].sendReplyTo # NO_COMMANDER
        PROVE  <<deviceCommandMap'[c].sendReplyTo, c>> \in open'
    <3>1. /\ c \notin Completed(R) /\ deviceCommandMap[c].isExecuting
          /\ deviceCommandMap'[c].sendReplyTo = deviceCommandMap[c].sendReplyTo
      BY <1>4, <2>1, Constants
    <3>2. <<deviceCommandMap[c].sendReplyTo, c>> \in open
      BY <1>1, <2>1, <3>1 DEF CommanderWaits
    <3>3. <<deviceCommandMap[c].sendReplyTo, c>> \notin Final(sent')
      BY <1>5, <3>1
    <3> QED BY <1>5, <3>1, <3>2, <3>3
  <2>2. ASSUME BeingWritten(RAW_COMMAND_ID)'
        PROVE  <<lastPartner', RAW_COMMAND_ID>> \in open'
    <3>1. <<lastPartner, RAW_COMMAND_ID>> \in open
      BY <1>1, <1>6, <2>2 DEF CommanderWaits
    <3>2. RAW_COMMAND_ID \notin Completed(R)
      BY <1>2, <1>3, Constants
    <3>3. <<lastPartner, RAW_COMMAND_ID>> \notin Final(sent')
      BY <1>5, <3>2
    <3> QED BY <1>5, <3>1, <3>3
  <2> QED BY <2>1, <2>2 DEF CommanderWaits
<1>11. Expected
  <2>1. ASSUME NEW x \in Final(sent'), x[2] \notin Periodic
        PROVE  x \in open
    <3>1. PICK c \in Completed(R) : x = <<deviceCommandMap[c].sendReplyTo, c>> /\ x[1] # NO_COMMANDER
      BY <1>5
    <3>2. c \in WithReply /\ c \in Command \ Periodic /\ deviceReplyMap[c].delayCycles # 0
      BY <1>2, <1>3, <2>1, <3>1, Constants
    <3>3. deviceCommandMap[c].isExecuting
      BY <1>1, <3>2 DEF OnlyExecuting
    <3> QED BY <1>1, <3>1, <3>2, <3>3 DEF CommanderWaits
  <2> QED BY <2>1 DEF Expected
<1> QED BY <1>7, <1>8, <1>9, <1>10, <1>11 DEF Kept

\* The answer to the command that was to be written
LEMMA CommandAnswers ==
  ASSUME Typed, pendingCommand \in DeviceCommand,
         NEW status \in {"OK", "NO_REPLY_EXPECTED", "FAILED"}, replyToCommand(status)
  PROVE  /\ open' = open \ Final(sent')
         /\ status = "OK" /\ pendingCommand # RAW_COMMAND_ID => Final(sent') = {}
         /\ status # "OK" /\ pendingCommand = RAW_COMMAND_ID
              => /\ <<lastPartner, RAW_COMMAND_ID>> \in Final(sent')
                 /\ \A x \in Final(sent') : x = <<lastPartner, RAW_COMMAND_ID>>
         /\ status # "OK" /\ pendingCommand # RAW_COMMAND_ID
              => LET commander == deviceCommandMap[pendingCommand].sendReplyTo
                 IN  /\ commander # NO_COMMANDER => <<commander, pendingCommand>> \in Final(sent')
                     /\ \A x \in Final(sent') :
                          commander # NO_COMMANDER /\ x = <<commander, pendingCommand>>
<1>1. open' = open \ Final(sent')
  BY DEF replyToCommand, Send, Close
<1>2. CASE pendingCommand = RAW_COMMAND_ID
  <2>0. PICK a : a = [to |-> lastPartner, of |-> RAW_COMMAND_ID,
                      kind |-> IF status = "FAILED" THEN "failed" ELSE "finished"]
    OBVIOUS
  <2>1. /\ sent' = {a} /\ a.to = lastPartner /\ a.of = RAW_COMMAND_ID
        /\ status # "OK" => a.kind \in {"failed", "finished"}
    BY <1>2, <2>0 DEF replyToCommand, Send
  <2>2. \A x \in Final(sent') : x = <<lastPartner, RAW_COMMAND_ID>>
    BY <2>1, Finals
  <2>3. status # "OK" => <<lastPartner, RAW_COMMAND_ID>> \in Final(sent')
    BY <2>1, Finals
  <2> QED BY <1>1, <1>2, <2>2, <2>3
<1>3. CASE pendingCommand # RAW_COMMAND_ID
  <2> DEFINE commander == deviceCommandMap[pendingCommand].sendReplyTo
  <2>1. sent' = IF commander # NO_COMMANDER
                THEN {[to |-> commander, of |-> pendingCommand, kind |-> ReplyKind(status)]}
                ELSE {}
    BY <1>3 DEF replyToCommand, Send
  <2>2. /\ status = "OK" => ReplyKind(status) = "step"
        /\ status # "OK" => ReplyKind(status) \in {"failed", "finished"}
    BY DEF ReplyKind
  <2>3. CASE commander = NO_COMMANDER
    <3>1. sent' = {}
      BY <2>1, <2>3
    <3>2. Final(sent') = {}
      BY <3>1, Finals
    <3> QED BY <1>1, <1>3, <2>3, <3>2
  <2>4. CASE commander # NO_COMMANDER
    <3>0. PICK a : a = [to |-> commander, of |-> pendingCommand, kind |-> ReplyKind(status)]
      OBVIOUS
    <3>1. sent' = {a} /\ a.to = commander /\ a.of = pendingCommand /\ a.kind = ReplyKind(status)
      BY <2>1, <2>4, <3>0
    <3>2. \A x \in Final(sent') : x = <<commander, pendingCommand>>
      BY <3>1, Finals
    <3>3. status = "OK" => Final(sent') = {}
      BY <2>2, <3>1, Finals
    <3>4. status # "OK" => <<commander, pendingCommand>> \in Final(sent')
      BY <2>2, <3>1, Finals
    <3> QED BY <1>1, <1>3, <2>4, <3>2, <3>3, <3>4
  <2> QED BY <2>3, <2>4
<1> QED BY <1>2, <1>3

\* A command that could not be written, or that nothing answers, is over
LEMMA WriteAnswered ==
  ASSUME IInv, Writing, NEW status \in {"NO_REPLY_EXPECTED", "FAILED"},
         replyToCommand(status), Stop(pendingCommand), cookieState' = "UNUSED",
         UNCHANGED <<pendingCommand, deviceReplyMap, lastPartner>>
  PROVE  Kept' /\ Expected
<1>1. Typed /\ OneReplyLeft /\ OnlyExecuting /\ CommanderIsKept /\ CommanderWaits
  BY DEF IInv
<1>2. pendingCommand \in DeviceCommand
  BY DEF IInv, Typed, CookieInPlace
<1>3. PICK p \in DeviceCommand : p = pendingCommand
  BY <1>2
<1>4. /\ \A c \in DeviceCommand : BeingWritten(c) <=> c = p
      /\ \A c \in DeviceCommand : ~BeingWritten(c)'
  BY <1>3 DEF BeingWritten, Writing
<1>5. /\ ~deviceCommandMap'[p].isExecuting
      /\ \A c \in DeviceCommand : c # p => deviceCommandMap'[c] = deviceCommandMap[c]
  BY <1>1, <1>3, Stopped
<1>6. /\ open' = open \ Final(sent')
      /\ p = RAW_COMMAND_ID =>
           \A x \in Final(sent') : x = <<lastPartner, RAW_COMMAND_ID>>
      /\ p # RAW_COMMAND_ID =>
           LET commander == deviceCommandMap[p].sendReplyTo
           IN  /\ commander # NO_COMMANDER => <<commander, p>> \in Final(sent')
               /\ \A x \in Final(sent') : commander # NO_COMMANDER /\ x = <<commander, p>>
  BY <1>1, <1>3, CommandAnswers
<1>7. OneReplyLeft'
  <2>1. ASSUME NEW c \in Command, deviceCommandMap'[c].isExecuting
        PROVE  AwaitsReply(c)' /\ deviceCommandMap'[c].expectedReplies = 1
    <3>1. c # p /\ deviceCommandMap'[c] = deviceCommandMap[c] /\ ~BeingWritten(c)
      BY <1>4, <1>5, <2>1, Constants
    <3> QED BY <1>1, <2>1, <3>1 DEF OneReplyLeft, AwaitsReply
  <2> QED BY <2>1 DEF OneReplyLeft
<1>8. OnlyExecuting'
  <2>1. ASSUME NEW c \in Command \ Periodic, c \in WithReply, deviceReplyMap'[c].delayCycles # 0
        PROVE  deviceCommandMap'[c].isExecuting
    <3>1. deviceCommandMap[c].isExecuting /\ ~BeingWritten(c)
      BY <1>1, <2>1 DEF OnlyExecuting
    <3> QED BY <1>4, <1>5, <3>1, Constants
  <2> QED BY <1>4, <2>1, Constants DEF OnlyExecuting
<1>9. CommanderIsKept'
  <2>1. ASSUME NEW commander \in Commander, NEW c \in Command, <<commander, c>> \in open'
        PROVE  /\ deviceCommandMap'[c].isExecuting
               /\ deviceCommandMap'[c].sendReplyTo = commander
    <3>1. deviceCommandMap[c].isExecuting /\ deviceCommandMap[c].sendReplyTo = commander
      BY <1>1, <1>6, <2>1 DEF CommanderIsKept
    <3>2. c # p
      BY <1>6, <2>1, <3>1, Constants
    <3> QED BY <1>5, <3>1, <3>2, Constants
  <2> QED BY <2>1 DEF CommanderIsKept
<1>10. CommanderWaits'
  <2>1. ASSUME NEW c \in Command \ Periodic, deviceCommandMap'[c].isExecuting,
               deviceCommandMap'[c].sendReplyTo # NO_COMMANDER
        PROVE  <<deviceCommandMap'[c].sendReplyTo, c>> \in open'
    <3>1. c # p /\ deviceCommandMap'[c] = deviceCommandMap[c]
      BY <1>5, <2>1, Constants
    <3>2. <<deviceCommandMap[c].sendReplyTo, c>> \in open
      BY <1>1, <2>1, <3>1 DEF CommanderWaits
    <3>3. <<deviceCommandMap[c].sendReplyTo, c>> \notin Final(sent')
      BY <1>6, <3>1, Constants
    <3> QED BY <1>6, <3>1, <3>2, <3>3
  <2> QED BY <1>4, <2>1, Constants DEF CommanderWaits
<1>11. Expected
  <2>1. CASE p = RAW_COMMAND_ID
    <3>1. <<lastPartner, RAW_COMMAND_ID>> \in open
      BY <1>1, <1>4, <2>1 DEF CommanderWaits
    <3> QED BY <1>6, <2>1, <3>1 DEF Expected
  <2>2. CASE p # RAW_COMMAND_ID
    <3>1. ASSUME NEW x \in Final(sent'), x[2] \notin Periodic PROVE x \in open
      <4>1. /\ deviceCommandMap[p].sendReplyTo # NO_COMMANDER
            /\ x = <<deviceCommandMap[p].sendReplyTo, p>>
        BY <1>6, <2>2, <3>1
      <4>2. p \in Command \ Periodic
        BY <2>2, <3>1, <4>1, Constants
      <4>3. deviceCommandMap[p].isExecuting
        BY <1>1, <1>4, <4>2 DEF OnlyExecuting
      <4> QED BY <1>1, <4>1, <4>2, <4>3 DEF CommanderWaits
    <3> QED BY <3>1 DEF Expected
  <2> QED BY <2>1, <2>2
<1> QED BY <1>7, <1>8, <1>9, <1>10, <1>11 DEF Kept

\* A command that was written and has a reply goes on to wait for it
LEMMA Enabled ==
  ASSUME IInv, Writing, pendingCommand \in WithReply,
         enableReplyInReplyMap(pendingCommand), replyToCommand("OK"), cookieState' = "UNUSED",
         UNCHANGED <<pendingCommand, lastPartner>>
  PROVE  Kept' /\ Expected
<1>1. Typed /\ OneReplyLeft /\ OnlyExecuting /\ CommanderIsKept /\ CommanderWaits
  BY DEF IInv
<1>2. PICK p \in WithReply : p = pendingCommand
  OBVIOUS
<1>3. p \in Command /\ p \in DeviceCommand /\ p # RAW_COMMAND_ID
  BY Constants
<1>4. /\ \A c \in DeviceCommand : BeingWritten(c) <=> c = p
      /\ \A c \in DeviceCommand : ~BeingWritten(c)'
  BY <1>2 DEF BeingWritten, Writing
<1>5. /\ deviceReplyMap'[p].linked /\ deviceReplyMap'[p].delayCycles # 0
      /\ deviceCommandMap'[p].expectedReplies = 1
      /\ deviceCommandMap'[p].isExecuting = deviceCommandMap[p].isExecuting
      /\ deviceCommandMap'[p].sendReplyTo = deviceCommandMap[p].sendReplyTo
      /\ \A d \in DeviceCommand : d # p => deviceCommandMap'[d] = deviceCommandMap[d]
      /\ \A r \in WithReply : r # p => deviceReplyMap'[r] = deviceReplyMap[r]
  BY <1>1, <1>2, Awaits
<1>6. Final(sent') = {} /\ open' = open
  BY <1>1, <1>2, <1>3, CommandAnswers
<1>7. OneReplyLeft'
  <2>1. ASSUME NEW c \in Command, deviceCommandMap'[c].isExecuting
        PROVE  AwaitsReply(c)' /\ deviceCommandMap'[c].expectedReplies = 1
    <3>1. CASE c = p
      BY <1>5, <3>1 DEF AwaitsReply
    <3>2. CASE c # p
      <4>1. deviceCommandMap'[c] = deviceCommandMap[c] /\ ~BeingWritten(c)
        BY <1>4, <1>5, <3>2, Constants
      <4>2. AwaitsReply(c) /\ deviceCommandMap[c].expectedReplies = 1
        BY <1>1, <2>1, <4>1 DEF OneReplyLeft
      <4> QED BY <1>5, <3>2, <4>1, <4>2 DEF AwaitsReply
    <3> QED BY <3>1, <3>2
  <2> QED BY <2>1 DEF OneReplyLeft
<1>8. OnlyExecuting'
  <2>1. ASSUME NEW c \in Command \ Periodic, c \in WithReply, deviceReplyMap'[c].delayCycles # 0
        PROVE  deviceCommandMap'[c].isExecuting
    <3>1. CASE c = p
      BY <1>1, <1>3, <1>4, <1>5, <3>1 DEF OnlyExecuting
    <3>2. CASE c # p
      BY <1>1, <1>5, <2>1, <3>2, Constants DEF OnlyExecuting
    <3> QED BY <3>1, <3>2
  <2> QED BY <1>4, <2>1, Constants DEF OnlyExecuting
<1>9. \A c \in DeviceCommand :
        /\ deviceCommandMap'[c].isExecuting = deviceCommandMap[c].isExecuting
        /\ deviceCommandMap'[c].sendReplyTo = deviceCommandMap[c].sendReplyTo
  BY <1>5
<1>10. CommanderIsKept'
  BY <1>1, <1>6, <1>9, Constants DEF CommanderIsKept
<1>11. CommanderWaits'
  <2>1. ASSUME NEW c \in Command \ Periodic, deviceCommandMap'[c].isExecuting,
               deviceCommandMap'[c].sendReplyTo # NO_COMMANDER
        PROVE  <<deviceCommandMap'[c].sendReplyTo, c>> \in open'
    <3>1. /\ deviceCommandMap[c].isExecuting
          /\ deviceCommandMap'[c].sendReplyTo = deviceCommandMap[c].sendReplyTo
      BY <1>9, <2>1, Constants
    <3> QED BY <1>1, <1>6, <2>1, <3>1 DEF CommanderWaits
  <2> QED BY <1>4, <2>1, Constants DEF CommanderWaits
<1>12. Expected
  BY <1>6 DEF Expected
<1> QED BY <1>7, <1>8, <1>10, <1>11, <1>12 DEF Kept

\* A step that leaves the commands alone, and the replies that a command waits for
LEMMA Calm ==
  ASSUME IInv, UNCHANGED open,
         \A c \in Command : /\ deviceCommandMap'[c] = deviceCommandMap[c]
                            /\ BeingWritten(c)' <=> BeingWritten(c),
         BeingWritten(RAW_COMMAND_ID)' => BeingWritten(RAW_COMMAND_ID) /\ lastPartner' = lastPartner,
         \A r \in WithReply : \/ deviceReplyMap'[r] = deviceReplyMap[r]
                              \/ r \in Periodic /\ ~deviceCommandMap[r].isExecuting
  PROVE  Kept'
<1>1. OneReplyLeft /\ OnlyExecuting /\ CommanderIsKept /\ CommanderWaits
  BY DEF IInv
<1>2. OneReplyLeft'
  <2>1. ASSUME NEW c \in Command, deviceCommandMap'[c].isExecuting, ~BeingWritten(c)
        PROVE  AwaitsReply(c)' /\ deviceCommandMap'[c].expectedReplies = 1
    <3>1. AwaitsReply(c) /\ deviceCommandMap[c].expectedReplies = 1
      BY <1>1, <2>1 DEF OneReplyLeft
    <3> QED BY <2>1, <3>1 DEF AwaitsReply
  <2> QED BY <2>1 DEF OneReplyLeft
<1>3. OnlyExecuting'
  <2>1. ASSUME NEW c \in Command \ Periodic
        PROVE  /\ c \in WithReply => deviceReplyMap'[c] = deviceReplyMap[c]
               /\ deviceCommandMap'[c] = deviceCommandMap[c]
               /\ BeingWritten(c)' <=> BeingWritten(c)
    OBVIOUS
  <2>2. ASSUME NEW c \in Command \ Periodic, c \in WithReply, deviceReplyMap'[c].delayCycles # 0
        PROVE  deviceCommandMap'[c].isExecuting /\ ~BeingWritten(c)'
    BY <1>1, <2>1, <2>2 DEF OnlyExecuting
  <2>3. ASSUME NEW c \in Command \ Periodic, BeingWritten(c)'
        PROVE  deviceCommandMap'[c].isExecuting
    BY <1>1, <2>1, <2>3 DEF OnlyExecuting
  <2> QED BY <2>2, <2>3 DEF OnlyExecuting
<1>4. CommanderIsKept'
  BY <1>1 DEF CommanderIsKept
<1>5. CommanderWaits'
  BY <1>1 DEF CommanderWaits
<1> QED BY <1>2, <1>3, <1>4, <1>5 DEF Kept

\* A command is taken on, from a commander or from the handler itself
LEMMA Executed ==
  ASSUME IInv, ~Writing, NEW c \in Command, ~deviceCommandMap[c].isExecuting,
         NEW commander \in Commander \cup {NO_COMMANDER}, Executes(c, commander),
         open' = IF commander = NO_COMMANDER THEN open ELSE open \cup {<<commander, c>>},
         UNCHANGED deviceReplyMap
  PROVE  Kept'
<1>1. Typed /\ OneReplyLeft /\ OnlyExecuting /\ CommanderIsKept /\ CommanderWaits
  BY DEF IInv
<1>2. /\ deviceCommandMap'[c].isExecuting /\ deviceCommandMap'[c].sendReplyTo = commander
      /\ \A d \in DeviceCommand : d # c => deviceCommandMap'[d] = deviceCommandMap[d]
      /\ cookieState' = "WRITE_READY" /\ pendingCommand' = c
  BY <1>1, Marked
<1>3. /\ \A d \in DeviceCommand : ~BeingWritten(d)
      /\ \A d \in DeviceCommand : BeingWritten(d)' <=> d = c
  BY <1>2 DEF BeingWritten, Writing
<1>4. OneReplyLeft'
  <2>1. ASSUME NEW d \in Command, d # c, deviceCommandMap'[d].isExecuting
        PROVE  AwaitsReply(d)' /\ deviceCommandMap'[d].expectedReplies = 1
    <3>1. deviceCommandMap'[d] = deviceCommandMap[d] /\ ~BeingWritten(d)
      BY <1>2, <1>3, <2>1, Constants
    <3> QED BY <1>1, <2>1, <3>1 DEF OneReplyLeft, AwaitsReply
  <2> QED BY <1>3, <2>1, Constants DEF OneReplyLeft
<1>5. OnlyExecuting'
  <2>1. ASSUME NEW d \in Command \ Periodic, d \in WithReply, deviceReplyMap'[d].delayCycles # 0
        PROVE  deviceCommandMap'[d].isExecuting /\ ~BeingWritten(d)'
    <3>1. deviceCommandMap[d].isExecuting
      BY <1>1, <2>1 DEF OnlyExecuting
    <3> QED BY <1>2, <1>3, <3>1, Constants
  <2> QED BY <1>2, <1>3, <2>1, Constants DEF OnlyExecuting
<1>6. CommanderIsKept'
  <2>1. ASSUME NEW partner \in Commander, NEW d \in Command, <<partner, d>> \in open'
        PROVE  /\ deviceCommandMap'[d].isExecuting
               /\ deviceCommandMap'[d].sendReplyTo = partner
    <3>1. CASE <<partner, d>> \in open
      <4>1. deviceCommandMap[d].isExecuting /\ deviceCommandMap[d].sendReplyTo = partner
        BY <1>1, <3>1 DEF CommanderIsKept
      <4> QED BY <1>2, <4>1, Constants
    <3>2. CASE <<partner, d>> \notin open
      BY <1>2, <2>1, <3>2
    <3> QED BY <3>1, <3>2
  <2> QED BY <2>1 DEF CommanderIsKept
<1>7. CommanderWaits'
  <2>1. ASSUME NEW d \in Command \ Periodic, deviceCommandMap'[d].isExecuting,
               deviceCommandMap'[d].sendReplyTo # NO_COMMANDER
        PROVE  <<deviceCommandMap'[d].sendReplyTo, d>> \in open'
    <3>1. CASE d = c
      BY <1>2, <2>1, <3>1
    <3>2. CASE d # c
      <4>1. deviceCommandMap'[d] = deviceCommandMap[d]
        BY <1>2, <3>2, Constants
      <4>2. <<deviceCommandMap[d].sendReplyTo, d>> \in open
        BY <1>1, <2>1, <4>1 DEF CommanderWaits
      <4> QED BY <4>1, <4>2
    <3> QED BY <3>1, <3>2
  <2> QED BY <1>3, <2>1, Constants DEF CommanderWaits
<1> QED BY <1>4, <1>5, <1>6, <1>7 DEF Kept

\* A raw command is taken on from the ground
LEMMA RawExecuted ==
  ASSUME IInv, ~Writing, NEW commander \in Commander, lastPartner' = commander,
         cookieState' = "WRITE_READY", pendingCommand' = RAW_COMMAND_ID,
         deviceCommandMap' = [deviceCommandMap EXCEPT ![RAW_COMMAND_ID].isExecuting = TRUE],
         TakeOn(commander, RAW_COMMAND_ID), UNCHANGED deviceReplyMap
  PROVE  Kept'
<1>1. Typed /\ OneReplyLeft /\ OnlyExecuting /\ CommanderIsKept /\ CommanderWaits
  BY DEF IInv
<1>2. \A d \in Command : deviceCommandMap'[d] = deviceCommandMap[d]
  BY <1>1, MarkedRaw
<1>3. \A d \in Command : ~BeingWritten(d) /\ ~BeingWritten(d)'
  BY Constants DEF BeingWritten, Writing
<1>4. open' = open \cup {<<commander, RAW_COMMAND_ID>>}
  BY DEF TakeOn
<1>5. OneReplyLeft'
  BY <1>1, <1>2, <1>3 DEF OneReplyLeft, AwaitsReply
<1>6. OnlyExecuting'
  BY <1>1, <1>2, <1>3 DEF OnlyExecuting
<1>7. CommanderIsKept'
  <2>1. ASSUME NEW partner \in Commander, NEW d \in Command, <<partner, d>> \in open'
        PROVE  <<partner, d>> \in open
    BY <1>4, <2>1, Constants
  <2> QED BY <1>1, <1>2, <2>1 DEF CommanderIsKept
<1>8. CommanderWaits'
  <2>1. ASSUME NEW d \in Command \ Periodic, deviceCommandMap'[d].isExecuting,
               deviceCommandMap'[d].sendReplyTo # NO_COMMANDER
        PROVE  <<deviceCommandMap'[d].sendReplyTo, d>> \in open'
    <3>1. <<deviceCommandMap[d].sendReplyTo, d>> \in open
      BY <1>1, <1>2, <2>1 DEF CommanderWaits
    <3> QED BY <1>2, <1>4, <3>1
  <2>2. <<lastPartner', RAW_COMMAND_ID>> \in open'
    BY <1>4
  <2> QED BY <2>1, <2>2 DEF CommanderWaits
<1> QED BY <1>5, <1>6, <1>7, <1>8 DEF Kept

-----------------------------------------------------------------------------
(***************************************************************************)
(* Each action keeps the invariant and gives a last answer only to those   *)
(* who wait for one.                                                       *)
(***************************************************************************)
LEMMA InitIInv == Init => IInv
<1> SUFFICES ASSUME Init PROVE IInv
  OBVIOUS
<1>1. Typed
  <2>1. /\ [isExecuting |-> FALSE, expectedReplies |-> 0, sendReplyTo |-> NO_COMMANDER] \in CommandInfo
        /\ [delayCycles |-> 0, linked |-> FALSE] \in ReplyInfo
    BY DEF CommandInfo, ReplyInfo
  <2> QED BY <2>1 DEF Init, Typed, Place, Mode, CookieState
<1>2. /\ \A c \in DeviceCommand : ~deviceCommandMap[c].isExecuting /\ ~BeingWritten(c)
      /\ \A r \in WithReply : deviceReplyMap[r].delayCycles = 0
      /\ open = {}
  BY DEF Init, BeingWritten
<1>3. CookieInPlace
  BY DEF Init, CookieInPlace, Writing
<1>4. OneReplyLeft /\ OnlyExecuting /\ CommanderIsKept /\ CommanderWaits
  BY <1>2, Constants DEF OneReplyLeft, OnlyExecuting, CommanderIsKept, CommanderWaits
<1> QED BY <1>1, <1>3, <1>4 DEF IInv

LEMMA StutterKeeps == IInv /\ UNCHANGED vars => IInv'
<1> SUFFICES ASSUME IInv, UNCHANGED vars PROVE IInv'
  OBVIOUS
<1> USE DEF vars, cookie
<1>1. Typed'
  BY DEF IInv, Typed
<1>2. CookieInPlace'
  BY DEF IInv, CookieInPlace, Writing
<1>3. OneReplyLeft'
  BY DEF IInv, OneReplyLeft, BeingWritten, AwaitsReply
<1>4. OnlyExecuting'
  BY DEF IInv, OnlyExecuting, BeingWritten
<1>5. CommanderIsKept'
  BY DEF IInv, CommanderIsKept
<1>6. CommanderWaits'
  BY DEF IInv, CommanderWaits, BeingWritten
<1> QED BY <1>1, <1>2, <1>3, <1>4, <1>5, <1>6 DEF IInv

\* What the mapping of a message to the handler leaves behind
LEMMA MessageTypes ==
  ASSUME IInv, pc = "readCommandQueue", pc' = "doStateMachine",
         UNCHANGED <<deviceReplyMap, mode>>, lastPartner' \in Commander,
         deviceCommandMap' \in [DeviceCommand -> CommandInfo],
         open' \subseteq Commander \X DeviceCommand,
         \/ cookieState' = "UNUSED" /\ UNCHANGED pendingCommand
         \/ /\ cookieState' = "WRITE_READY" /\ pendingCommand' \in DeviceCommand
            /\ mode \in {"ON", "NORMAL", "RAW"}
  PROVE  Typed' /\ CookieInPlace'
<1>1. Typed'
  BY DEF IInv, Typed, Place, CookieState
<1>2. CookieInPlace'
  BY Constants DEF CookieInPlace, Writing
<1> QED BY <1>1, <1>2

LEMMA ReadCommandQueueKeeps == IInv /\ ReadCommandQueue => IInv' /\ Expected
<1> SUFFICES ASSUME IInv, ReadCommandQueue PROVE IInv' /\ Expected
  OBVIOUS
<1>1. Typed /\ ~Writing
  BY DEF IInv, ReadCommandQueue, CookieInPlace
<1>2. /\ pc = "readCommandQueue" /\ pc' = "doStateMachine" /\ UNCHANGED deviceReplyMap
      /\ lastPartner' \in Commander
  BY <1>1 DEF ReadCommandQueue, Typed
<1>3. ASSUME cookieState' = "UNUSED", UNCHANGED <<pendingCommand, deviceCommandMap, open>>,
             mode' \in Mode, Send({}) \/ \E a : Send({a}) /\ a.kind \in {"refused", "step"}
      PROVE  IInv' /\ Expected
  <2>1. \A c : ~BeingWritten(c) /\ ~BeingWritten(c)'
    BY <1>1, <1>3 DEF BeingWritten, Writing
  <2>2. Kept'
    BY <1>2, <1>3, <2>1, Calm
  <2>3. Typed'
    BY <1>1, <1>2, <1>3 DEF Typed, Place, CookieState
  <2>4. CookieInPlace'
    BY <1>2, <1>3 DEF CookieInPlace, Writing
  <2> QED BY <1>3, <2>2, <2>3, <2>4, Silent DEF IInv, Kept
<1>4. CASE NoMessage \/ ModeCommand
  <2>1. mode' \in Mode
    BY <1>1, <1>4 DEF NoMessage, ModeCommand, Mode, Typed
  <2> QED BY <1>3, <1>4, <2>1 DEF NoMessage, ModeCommand
<1>5. ASSUME NEW commander \in Commander, lastPartner' = commander, NEW c \in Command,
             executeAction(commander, c)
      PROVE  IInv' /\ Expected
  <2>1. CASE cookieState' = "UNUSED"
    <3>1. /\ UNCHANGED <<pendingCommand, deviceCommandMap, open>>
          /\ Send({[to |-> commander, of |-> c, kind |-> "refused"]}) /\ UNCHANGED mode
      BY <1>5, <2>1 DEF executeAction, Executes
    <3>2. \E a : Send({a}) /\ a.kind \in {"refused", "step"}
      <4> WITNESS [to |-> commander, of |-> c, kind |-> "refused"]
      <4> QED BY <3>1
    <3>3. mode' \in Mode
      BY <1>1, <3>1 DEF Typed
    <3> QED BY <1>3, <2>1, <3>1, <3>2, <3>3
  <2>2. CASE cookieState' # "UNUSED"
    <3>1. /\ mode \in {"ON", "NORMAL"} /\ ~deviceCommandMap[c].isExecuting
          /\ Executes(c, commander) /\ TakeOn(commander, c) /\ Send({}) /\ UNCHANGED mode
      BY <1>5, <2>2 DEF executeAction
    <3>2. open' = IF commander = NO_COMMANDER THEN open ELSE open \cup {<<commander, c>>}
      BY <3>1, Constants DEF TakeOn
    <3>3. Kept'
      BY <1>1, <1>2, <3>1, <3>2, Executed
    <3>4. /\ deviceCommandMap' \in [DeviceCommand -> CommandInfo]
          /\ cookieState' = "WRITE_READY" /\ pendingCommand' = c
      BY <1>1, <3>1, Marked
    <3>5. open' \subseteq Commander \X DeviceCommand
      BY <1>1, <3>1, Constants DEF TakeOn, Typed
    <3>6. Typed' /\ CookieInPlace'
      BY <1>2, <3>1, <3>4, <3>5, MessageTypes, Constants
    <3> QED BY <3>1, <3>3, <3>6, Silent DEF IInv, Kept
  <2> QED BY <2>1, <2>2
<1>6. ASSUME NEW commander \in Commander, lastPartner' = commander, RawCommand(commander)
      PROVE  IInv' /\ Expected
  <2>1. CASE cookieState' = "UNUSED"
    <3>1. /\ UNCHANGED <<pendingCommand, deviceCommandMap, open>>
          /\ Send({[to |-> commander, of |-> RAW_COMMAND_ID, kind |-> "refused"]}) /\ UNCHANGED mode
      BY <1>6, <2>1 DEF RawCommand
    <3>2. \E a : Send({a}) /\ a.kind \in {"refused", "step"}
      <4> WITNESS [to |-> commander, of |-> RAW_COMMAND_ID, kind |-> "refused"]
      <4> QED BY <3>1
    <3>3. mode' \in Mode
      BY <1>1, <3>1 DEF Typed
    <3> QED BY <1>3, <2>1, <3>1, <3>2, <3>3
  <2>2. CASE cookieState' # "UNUSED"
    <3>1. /\ mode = "RAW" /\ cookieState' = "WRITE_READY" /\ pendingCommand' = RAW_COMMAND_ID
          /\ deviceCommandMap' = [deviceCommandMap EXCEPT ![RAW_COMMAND_ID].isExecuting = TRUE]
          /\ TakeOn(commander, RAW_COMMAND_ID) /\ Send({}) /\ UNCHANGED mode
      BY <1>6, <2>2 DEF RawCommand
    <3>2. Kept'
      BY <1>1, <1>2, <1>6, <3>1, RawExecuted
    <3>3. deviceCommandMap' \in [DeviceCommand -> CommandInfo]
      BY <1>1, <3>1, MarkedRaw
    <3>4. open' \subseteq Commander \X DeviceCommand
      BY <1>1, <3>1, Constants DEF TakeOn, Typed
    <3>5. Typed' /\ CookieInPlace'
      BY <1>2, <3>1, <3>3, <3>4, MessageTypes, Constants
    <3> QED BY <3>1, <3>2, <3>5, Silent DEF IInv, Kept
  <2> QED BY <2>1, <2>2
<1> QED BY <1>4, <1>5, <1>6 DEF ReadCommandQueue

LEMMA DoStateMachineKeeps == IInv /\ DoStateMachine => IInv' /\ Expected
<1> SUFFICES ASSUME IInv, DoStateMachine PROVE IInv' /\ Expected
  OBVIOUS
<1>1. Typed /\ CookieInPlace
  BY DEF IInv
<1>2. /\ pc = "doStateMachine" /\ pc' = "decrementDeviceReplyMap" /\ Send({})
      /\ UNCHANGED <<cookieState, pendingCommand, deviceCommandMap, lastPartner, open>>
  BY DEF DoStateMachine, cookie
<1>3. mode' \in Mode /\ (mode # "TRANSITION" => mode' = mode)
  BY <1>1 DEF DoStateMachine, Typed
<1>4. /\ deviceReplyMap' \in [WithReply -> ReplyInfo]
      /\ \A r \in WithReply : \/ deviceReplyMap'[r] = deviceReplyMap[r]
                              \/ r \in Periodic /\ ~deviceCommandMap[r].isExecuting
  <2>1. CASE UNCHANGED deviceReplyMap
    BY <1>1, <2>1 DEF Typed
  <2>2. ASSUME NEW r \in Periodic, ~deviceCommandMap[r].isExecuting, NEW n,
               n = maxDelayCycles[r] \/ n = 0, updateReplyMapEntry(r, n)
        PROVE  /\ deviceReplyMap' \in [WithReply -> ReplyInfo]
               /\ \A p \in WithReply : \/ deviceReplyMap'[p] = deviceReplyMap[p]
                                       \/ p \in Periodic /\ ~deviceCommandMap[p].isExecuting
    <3>1. r \in WithReply /\ n \in Nat
      BY <2>2, Constants, DeviceExchangeAssumption
    <3>2. PICK f \in ReplyInfo : f = deviceReplyMap[r]
      BY <1>1, <3>1 DEF Typed
    <3>3. PICK fresh : fresh = [f EXCEPT !.delayCycles = n]
      OBVIOUS
    <3>4. fresh \in ReplyInfo
      BY <3>1, <3>2, <3>3 DEF ReplyInfo
    <3>5. deviceReplyMap' = [deviceReplyMap EXCEPT ![r] = fresh]
      BY <1>1, <2>2, <3>1, <3>2, <3>3 DEF updateReplyMapEntry, Typed
    <3> QED BY <1>1, <2>2, <3>1, <3>4, <3>5 DEF Typed
  <2> QED BY <2>1, <2>2 DEF DoStateMachine
<1>5. \A c : BeingWritten(c)' <=> BeingWritten(c)
  BY <1>2 DEF BeingWritten
<1>6. Kept'
  BY <1>2, <1>4, <1>5, Calm
<1>7. Typed'
  BY <1>1, <1>2, <1>3, <1>4 DEF Typed, Place
<1>8. CookieInPlace'
  BY <1>1, <1>2, <1>3 DEF CookieInPlace, Writing
<1> QED BY <1>2, <1>6, <1>7, <1>8, Silent DEF IInv, Kept

LEMMA DecrementDeviceReplyMapKeeps == IInv /\ DecrementDeviceReplyMap => IInv' /\ Expected
<1> SUFFICES ASSUME IInv, DecrementDeviceReplyMap PROVE IInv' /\ Expected
  OBVIOUS
<1> DEFINE late == {r \in Awaited : deviceReplyMap[r].delayCycles = 1}
           updated(r) == [deviceReplyMap[r] EXCEPT
                            !.delayCycles = IF r \in late THEN Rearmed(r)
                                            ELSE IF r \in Awaited THEN @ - 1 ELSE @]
<1>1. Typed /\ CookieInPlace
  BY DEF IInv
<1>2. PICK R : R = late
  OBVIOUS
<1>3. /\ pc = "decrementDeviceReplyMap" /\ replyToReply(R)
      /\ UNCHANGED <<mode, cookie, lastPartner>>
      /\ deviceReplyMap' = [r \in WithReply |-> updated(r)]
      /\ pc' = IF mode = "OFF" THEN "readCommandQueue"
               ELSE IF cookieState = "UNUSED" THEN "buildInternalCommand"
               ELSE "doSendWrite"
  BY <1>2 DEF DecrementDeviceReplyMap
<1>4. R \in SUBSET Awaited /\ R \in SUBSET WithReply
  BY <1>2 DEF Awaited
<1>5. ASSUME NEW r \in WithReply
      PROVE  /\ deviceReplyMap'[r] \in ReplyInfo
             /\ deviceReplyMap'[r].linked = deviceReplyMap[r].linked
             /\ r \in R => deviceReplyMap'[r].delayCycles = Rearmed(r)
             /\ r \notin R => (deviceReplyMap'[r].delayCycles # 0 <=> deviceReplyMap[r].delayCycles # 0)
  <2>1. PICK f \in ReplyInfo : f = deviceReplyMap[r]
    BY <1>1 DEF Typed
  <2>2. Rearmed(r) \in Nat /\ f.delayCycles \in Nat
    BY <2>1, Constants DEF Rearmed, ReplyInfo
  <2>3. PICK n : n = IF r \in R THEN Rearmed(r)
                     ELSE IF f.delayCycles # 0 THEN f.delayCycles - 1 ELSE f.delayCycles
    OBVIOUS
  <2>4. deviceReplyMap'[r] = [f EXCEPT !.delayCycles = n]
    BY <1>2, <1>3, <2>1, <2>3 DEF Awaited
  <2>5. r \in R <=> f.delayCycles = 1
    BY <1>2, <2>1 DEF Awaited
  <2>6. n \in Nat /\ (r \notin R => (n # 0 <=> f.delayCycles # 0))
    BY <2>2, <2>3, <2>5
  <2> QED BY <2>1, <2>3, <2>4, <2>6 DEF ReplyInfo
<1>6. deviceReplyMap' \in [WithReply -> ReplyInfo]
  <2>1. deviceReplyMap' = [r \in WithReply |-> deviceReplyMap'[r]]
    BY <1>3
  <2> QED BY <1>5, <2>1
<1>7. Kept' /\ Expected
  <2>1. UNCHANGED <<cookie, lastPartner>>
    BY <1>3
  <2> HIDE DEF late, updated
  <2> QED BY <1>3, <1>4, <1>5, <2>1, RepliedKeeps
<1>8. Typed'
  <2>1. deviceCommandMap' \in [DeviceCommand -> CommandInfo]
    BY <1>1, <1>3, <1>4, Replied
  <2>2. open' \subseteq open
    BY <1>1, <1>3, <1>4, Answers
  <2>3. pc' \in Place
    BY <1>3 DEF Place
  <2> HIDE DEF late, updated
  <2> QED BY <1>1, <1>3, <1>6, <2>1, <2>2, <2>3 DEF Typed, cookie
<1>9. CookieInPlace'
  <2> HIDE DEF late, updated
  <2>1. Writing => cookieState = "WRITE_READY" /\ mode \in {"ON", "NORMAL", "RAW"} /\ pendingCommand # END
    BY <1>1, <1>3 DEF CookieInPlace, Writing
  <2>2. Writing => pc' = "doSendWrite"
    BY <1>3, <2>1
  <2> QED BY <1>3, <2>1, <2>2 DEF CookieInPlace, Writing, cookie
<1> QED BY <1>7, <1>8, <1>9 DEF IInv, Kept

LEMMA BuildInternalCommandKeeps == IInv /\ BuildInternalCommand => IInv' /\ Expected
<1> SUFFICES ASSUME IInv, BuildInternalCommand PROVE IInv' /\ Expected
  OBVIOUS
<1>1. Typed /\ CookieInPlace
  BY DEF IInv
<1>2. /\ pc = "buildInternalCommand" /\ pc' = "doSendWrite" /\ Send({})
      /\ UNCHANGED <<mode, deviceReplyMap, lastPartner, open>>
  BY DEF BuildInternalCommand
<1>3. ~Writing
  BY <1>1, <1>2 DEF CookieInPlace
<1>4. CASE UNCHANGED <<cookie, deviceCommandMap>>
  <2>1. \A c : BeingWritten(c)' <=> BeingWritten(c)
    BY <1>4 DEF BeingWritten, cookie
  <2>2. Kept'
    BY <1>2, <1>4, <2>1, Calm
  <2>3. Typed' /\ CookieInPlace'
    BY <1>1, <1>2, <1>3, <1>4 DEF Typed, Place, CookieInPlace, Writing, cookie
  <2> QED BY <1>2, <2>2, <2>3, Silent DEF IInv, Kept
<1>5. ASSUME NEW c \in Command, ~deviceCommandMap[c].isExecuting, Executes(c, NO_COMMANDER)
      PROVE  IInv' /\ Expected
  <2>1. Kept'
    BY <1>2, <1>3, <1>5, Executed
  <2>2. /\ deviceCommandMap' \in [DeviceCommand -> CommandInfo]
        /\ cookieState' = "WRITE_READY" /\ pendingCommand' = c
    BY <1>1, <1>5, Marked
  <2>3. Typed' /\ CookieInPlace'
    BY <1>1, <1>2, <2>2, Constants DEF Typed, Place, CookieState, CookieInPlace, Writing
  <2> QED BY <1>2, <2>1, <2>3, Silent DEF IInv, Kept
<1> QED BY <1>4, <1>5 DEF BuildInternalCommand, InternalCommands

LEMMA DoSendWriteKeeps == IInv /\ DoSendWrite => IInv' /\ Expected
<1> SUFFICES ASSUME IInv, DoSendWrite PROVE IInv' /\ Expected
  OBVIOUS
<1>1. Typed /\ CookieInPlace
  BY DEF IInv
<1>2. /\ pc = "doSendWrite" /\ pc' = "doGetWrite"
      /\ UNCHANGED <<mode, pendingCommand, deviceReplyMap, lastPartner>>
  BY DEF DoSendWrite
<1>3. cookieState # "WRITE_SENT"
  BY <1>1, <1>2 DEF CookieInPlace
<1>4. ASSUME Send({}), UNCHANGED <<deviceCommandMap, open>>,
             \/ cookieState = "WRITE_READY" /\ cookieState' = "WRITE_SENT"
             \/ cookieState # "WRITE_READY" /\ UNCHANGED cookieState
      PROVE  IInv' /\ Expected
  <2>1. \A c : BeingWritten(c)' <=> BeingWritten(c)
    BY <1>2, <1>4 DEF BeingWritten
  <2>2. Kept'
    BY <1>2, <1>4, <2>1, Calm
  <2>3. Typed' /\ CookieInPlace'
    BY <1>1, <1>2, <1>3, <1>4 DEF Typed, Place, CookieState, CookieInPlace, Writing
  <2> QED BY <1>4, <2>2, <2>3, Silent DEF IInv, Kept
<1>5. ASSUME cookieState = "WRITE_READY", cookieState' = "UNUSED", replyToCommand("FAILED"),
             Stop(pendingCommand)
      PROVE  IInv' /\ Expected
  <2>1. Writing /\ pendingCommand \in DeviceCommand
    BY <1>1, <1>5 DEF Writing, CookieInPlace, Typed
  <2>2. Kept' /\ Expected
    BY <1>2, <1>5, <2>1, WriteAnswered
  <2>3. deviceCommandMap' \in [DeviceCommand -> CommandInfo]
    BY <1>1, <1>5, <2>1, Stopped
  <2>4. open' \subseteq open
    BY <1>1, <1>5, <2>1, CommandAnswers
  <2>5. Typed' /\ CookieInPlace'
    BY <1>1, <1>2, <1>5, <2>3, <2>4 DEF Typed, Place, CookieState, CookieInPlace, Writing
  <2> QED BY <2>2, <2>5 DEF IInv, Kept
<1> QED BY <1>4, <1>5 DEF DoSendWrite

LEMMA DoGetWriteKeeps == IInv /\ DoGetWrite => IInv' /\ Expected
<1> SUFFICES ASSUME IInv, DoGetWrite PROVE IInv' /\ Expected
  OBVIOUS
<1>1. Typed /\ CookieInPlace
  BY DEF IInv
<1>2. /\ pc = "doGetWrite" /\ pc' = "doSendRead"
      /\ UNCHANGED <<mode, pendingCommand, lastPartner>>
  BY DEF DoGetWrite
<1>3. cookieState # "WRITE_READY"
  BY <1>1, <1>2 DEF CookieInPlace
<1>4. ASSUME Kept' /\ Expected, open' \subseteq open,
             cookieState' \in CookieState /\ cookieState' \notin {"WRITE_READY", "WRITE_SENT"},
             deviceCommandMap' \in [DeviceCommand -> CommandInfo],
             deviceReplyMap' \in [WithReply -> ReplyInfo]
      PROVE  IInv' /\ Expected
  <2>1. Typed'
    BY <1>1, <1>2, <1>4 DEF Typed, Place
  <2>2. CookieInPlace'
    BY <1>2, <1>4 DEF CookieInPlace, Writing
  <2> QED BY <1>4, <2>1, <2>2 DEF IInv, Kept
<1>5. CASE cookieState # "WRITE_SENT"
  <2>1. Send({}) /\ UNCHANGED <<cookieState, deviceCommandMap, deviceReplyMap, open>>
    BY <1>5 DEF DoGetWrite
  <2>2. \A c : BeingWritten(c)' <=> BeingWritten(c)
    BY <1>2, <2>1 DEF BeingWritten
  <2>3. Kept'
    BY <1>2, <2>1, <2>2, Calm
  <2> QED BY <1>1, <1>3, <1>4, <1>5, <2>1, <2>3, Silent DEF Typed
<1>6. CASE cookieState = "WRITE_SENT"
  <2>1. Writing /\ pendingCommand \in DeviceCommand
    BY <1>1, <1>6 DEF Writing, CookieInPlace, Typed
  <2>2. cookieState' = "UNUSED" /\ cookieState' \in CookieState
    BY <1>6 DEF DoGetWrite, CookieState
  <2>3. ASSUME NEW status \in {"NO_REPLY_EXPECTED", "FAILED"}, replyToCommand(status),
               Stop(pendingCommand), UNCHANGED deviceReplyMap
        PROVE  IInv' /\ Expected
    <3>1. Kept' /\ Expected
      BY <1>2, <2>1, <2>2, <2>3, WriteAnswered
    <3>2. deviceCommandMap' \in [DeviceCommand -> CommandInfo]
      BY <1>1, <2>1, <2>3, Stopped
    <3>3. open' \subseteq open
      BY <1>1, <2>1, <2>3, CommandAnswers
    <3> QED BY <1>1, <1>4, <2>2, <2>3, <3>1, <3>2, <3>3 DEF Typed
  <2>4. ASSUME pendingCommand \in WithReply, enableReplyInReplyMap(pendingCommand),
               replyToCommand("OK")
        PROVE  IInv' /\ Expected
    <3>1. Kept' /\ Expected
      BY <1>2, <2>1, <2>2, <2>4, Enabled
    <3>2. /\ deviceCommandMap' \in [DeviceCommand -> CommandInfo]
          /\ deviceReplyMap' \in [WithReply -> ReplyInfo]
      BY <1>1, <2>4, Awaits
    <3>3. open' \subseteq open
      BY <1>1, <2>1, <2>4, CommandAnswers
    <3> QED BY <1>4, <2>2, <3>1, <3>2, <3>3
  <2> QED BY <1>6, <2>3, <2>4 DEF DoGetWrite, WriteSucceeded, WriteFailed
<1> QED BY <1>5, <1>6

\* The two read steps touch neither commands nor replies
LEMMA ReadKeeps ==
  ASSUME IInv, pc \in {"doSendRead", "doGetRead"}, pc' \in Place,
         cookieState' \in {"UNUSED", "READ_SENT"}, Send({}), pc' # "doGetWrite",
         UNCHANGED <<mode, pendingCommand, deviceCommandMap, deviceReplyMap, lastPartner, open>>
  PROVE  IInv' /\ Expected
<1>1. Typed /\ ~Writing
  BY DEF IInv, CookieInPlace
<1>2. \A c : ~BeingWritten(c) /\ ~BeingWritten(c)'
  BY <1>1 DEF BeingWritten, Writing
<1>3. Kept'
  BY <1>2, Calm
<1>4. Typed'
  BY <1>1 DEF Typed, CookieState
<1>5. CookieInPlace'
  BY DEF CookieInPlace, Writing
<1> QED BY <1>3, <1>4, <1>5, Silent DEF IInv, Kept

LEMMA DoSendReadKeeps == IInv /\ DoSendRead => IInv' /\ Expected
BY ReadKeeps DEF DoSendRead, Place

LEMMA DoGetReadKeeps == IInv /\ DoGetRead => IInv' /\ Expected
BY ReadKeeps DEF DoGetRead, Place

LEMMA ParseReplyKeeps == IInv /\ ParseReply => IInv' /\ Expected
<1> SUFFICES ASSUME IInv, ParseReply PROVE IInv' /\ Expected
  OBVIOUS
<1>1. Typed /\ ~Writing
  BY DEF IInv, CookieInPlace, ParseReply
<1>2. pc' \in {"readCommandQueue", "parseReply"} /\ UNCHANGED <<mode, cookie, lastPartner>>
  BY DEF ParseReply
<1>3. ASSUME Kept' /\ Expected, open' \subseteq open,
             deviceCommandMap' \in [DeviceCommand -> CommandInfo],
             deviceReplyMap' \in [WithReply -> ReplyInfo]
      PROVE  IInv' /\ Expected
  <2>1. Typed'
    BY <1>1, <1>2, <1>3 DEF Typed, Place, cookie
  <2>2. CookieInPlace'
    BY <1>1, <1>2 DEF CookieInPlace, Writing, cookie
  <2> QED BY <1>3, <2>1, <2>2 DEF IInv, Kept
<1>4. ASSUME Send({}), UNCHANGED <<deviceCommandMap, deviceReplyMap, open>>
      PROVE  IInv' /\ Expected
  <2>1. \A c : BeingWritten(c)' <=> BeingWritten(c)
    BY <1>2 DEF BeingWritten, cookie
  <2>2. Kept'
    BY <1>2, <1>4, <2>1, Calm
  <2> QED BY <1>1, <1>3, <1>4, <2>2, Silent DEF Typed
<1>5. ASSUME NEW r \in WithReply, deviceReplyMap[r].delayCycles # 0, replyToReply({r}),
             deviceReplyMap' = [deviceReplyMap EXCEPT ![r].delayCycles = Rearmed(r)]
      PROVE  IInv' /\ Expected
  <2>1. {r} \in SUBSET Awaited /\ {r} \in SUBSET WithReply
    BY <1>5 DEF Awaited
  <2>2. PICK f \in ReplyInfo : f = deviceReplyMap[r]
    BY <1>1 DEF Typed
  <2>3. Rearmed(r) \in Nat
    BY Constants DEF Rearmed
  <2>4. PICK fresh : fresh = [f EXCEPT !.delayCycles = Rearmed(r)]
    OBVIOUS
  <2>5. fresh \in ReplyInfo /\ fresh.linked = f.linked /\ fresh.delayCycles = Rearmed(r)
    BY <2>2, <2>3, <2>4 DEF ReplyInfo
  <2>6. deviceReplyMap' = [deviceReplyMap EXCEPT ![r] = fresh]
    BY <1>1, <1>5, <2>2, <2>4 DEF Typed
  <2>7. /\ deviceReplyMap' \in [WithReply -> ReplyInfo] /\ deviceReplyMap'[r] = fresh
        /\ \A q \in WithReply : q # r => deviceReplyMap'[q] = deviceReplyMap[q]
    BY <1>1, <2>5, <2>6 DEF Typed
  <2>8. \A q \in WithReply :
          /\ deviceReplyMap'[q].linked = deviceReplyMap[q].linked
          /\ q \in {r} => deviceReplyMap'[q].delayCycles = Rearmed(q)
          /\ q \notin {r} => (deviceReplyMap'[q].delayCycles # 0 <=> deviceReplyMap[q].delayCycles # 0)
    BY <2>2, <2>5, <2>7
  <2>9. Kept' /\ Expected
    BY <1>2, <1>5, <2>1, <2>8, RepliedKeeps
  <2>10. deviceCommandMap' \in [DeviceCommand -> CommandInfo] /\ open' \subseteq open
    BY <1>1, <1>5, <2>1, Replied, Answers
  <2> QED BY <1>3, <2>7, <2>9, <2>10
<1> QED BY <1>4, <1>5 DEF ParseReply, handleReply

-----------------------------------------------------------------------------
LEMMA StepIInv == IInv /\ [Next]_vars => IInv'
<1> SUFFICES ASSUME IInv, [Next]_vars PROVE IInv'
  OBVIOUS
<1> QED BY StutterKeeps, ReadCommandQueueKeeps, DoStateMachineKeeps, DecrementDeviceReplyMapKeeps,
           BuildInternalCommandKeeps, DoSendWriteKeeps, DoGetWriteKeeps, DoSendReadKeeps,
           DoGetReadKeeps, ParseReplyKeeps DEF Next

LEMMA StepExpected == IInv /\ Next => Expected
BY ReadCommandQueueKeeps, DoStateMachineKeeps, DecrementDeviceReplyMapKeeps,
   BuildInternalCommandKeeps, DoSendWriteKeeps, DoGetWriteKeeps, DoSendReadKeeps,
   DoGetReadKeeps, ParseReplyKeeps DEF Next

\* In every state the cookie, the command map, the reply map and the answers
\* that are due agree on which command is at work and for whom
THEOREM Invariant == Spec => []IInv
BY InitIInv, StepIInv, PTL DEF Spec

\* A command that is marked as executing is about to be written or awaits a
\* reply whose time runs, whatever fails: the mark, because of which the
\* command is refused to everyone, is never left behind
THEOREM MarkIsTakenOff == Spec => []NothingExecutesForEver
<1>1. IInv => NothingExecutesForEver
  BY DEF IInv, OneReplyLeft, NothingExecutesForEver
<1> QED BY <1>1, Invariant, PTL

\* Who waits for an answer to a command is the commander that the command
\* would answer to: a command of somebody else, or of the handler itself, does
\* not take the answer over
THEOREM AnswersItsCommander == Spec => []CommanderIsKept
<1>1. IInv => CommanderIsKept
  BY DEF IInv
<1> QED BY <1>1, Invariant, PTL

\* A failed step or a completion only goes to a commander that still waits for
\* one, so that none is answered for good twice (periodic replies aside)
THEOREM AnswersOnce == Spec => OneFinalAnswer
<1>1. IInv /\ [Next]_vars => [Expected]_vars
  BY StepExpected
<1> QED BY Invariant, <1>1, PTL DEF Spec, OneFinalAnswer, Expected
=============================================================================
