----------------------------- MODULE ModeHolder -----------------------------
(***************************************************************************)
(* What a HasModesIF object with a ModeHelper promises to those who        *)
(* command it: a mode command is refused at once or taken on; one that is  *)
(* taken on ends, and is then answered once, to the one who gave it, with  *)
(* the mode that was reached, be it the commanded one or not.  While one   *)
(* command is in progress no other is taken on, and a mode is left on      *)
(* command only.                                                           *)
(***************************************************************************)
CONSTANTS
  Mode,           \* modes to command or to come to rest in
  Commander,
  NO_COMMAND

VARIABLES
  settled,        \* the mode is one of Mode, no transition
  command,        \* the command in progress, [by, mode], or NO_COMMAND
  answer          \* the mode replies of the last step

holderVars == <<settled, command, answer>>

Command == [by : Commander, mode : Mode]
Reply(c, m) == [to |-> c.by, mode |-> m, right |-> m = c.mode]

HolderInit == settled = TRUE /\ command = NO_COMMAND /\ answer = {}

TakeOn == /\ settled /\ command = NO_COMMAND
          /\ settled' = FALSE /\ command' \in Command /\ answer' = {}

AnswerAtOnce == /\ settled /\ command = NO_COMMAND
                /\ \E c \in Command : answer' = {Reply(c, c.mode)}
                /\ UNCHANGED <<settled, command>>

Settle == /\ ~settled
          /\ settled' = TRUE /\ command' = NO_COMMAND
          /\ IF command = NO_COMMAND THEN answer' = {}
             ELSE \E m \in Mode : answer' = {Reply(command, m)}

\* Nothing is said; above all, no mode is left without a command
Silence == answer' = {} /\ UNCHANGED <<settled, command>>

HolderNext == TakeOn \/ AnswerAtOnce \/ Settle \/ Silence

HolderSafe == HolderInit /\ [][HolderNext]_holderVars
HolderSpec == HolderSafe /\ WF_holderVars(Settle)
=============================================================================
