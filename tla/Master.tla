------------------------------- MODULE Master -------------------------------
(***************************************************************************)
(* The update master: main, Master_Handshake, FirmwareUpdateProcess and    *)
(* the commands of I2C_master/main.c, with Master_SendCommand and the      *)
(* transactions of I2C_master/i2c_driver.c.                                *)
(*                                                                         *)
(* step says which command the program is at.  Every command is sent by    *)
(* Master_SendCommand, whose progress is stage:                            *)
(*   send       about to start the write transaction                       *)
(*   sending    spinning on i2c_async_flag in I2C_Master_Send              *)
(*   receiving  spinning on i2c_async_flag in I2C_Master_Receive           *)
(*   answered   returned true to the caller, which looks at answer         *)
(* A transaction ends with a callback.  The two operators WriteDone and    *)
(* ReadDone are what the master does then; the module that has a bus says  *)
(* when they happen.                                                       *)
(***************************************************************************)
EXTENDS Integers, Sequences

CONSTANTS
  File,   \* the firmware file, the sequence of its chunks
  BUS     \* what the bus may do: refuse a transaction, end one with an error,
          \* end the slave's transaction when a read ends

ASSUME MasterAssumption ==
  /\ Len(File) \in Nat
  /\ BUS \subseteq {"refusal", "error", "wake"}

VARIABLES
  step,    \* where main and FirmwareUpdateProcess are
  stage,   \* where Master_SendCommand is
  tries,   \* its attempt
  answer,  \* the response byte of the calling function, uninitialised at first
  sent     \* chunks of the file that were programmed

masterVars == <<step, stage, tries, answer, sent>>

MASTER_ATTEMPTS == 3

\* The bytes the master tells apart; "other" is any answer it never expects.
AnswerBytes == {"success", "pong", "entered", "other"}

Procedure ==
  <<"handshake", "enter", "start", "erase", "program", "validate", "mark", "reboot">>

Steps == {Procedure[i] : i \in 1 .. Len(Procedure)}
Ended == step \in {"completed", "failed"}

MasterTypeOK ==
  /\ step \in Steps \cup {"completed", "failed"}
  /\ stage \in {"send", "sending", "receiving", "answered"}
  /\ tries \in 0 .. MASTER_ATTEMPTS - 1
  /\ answer \in AnswerBytes
  /\ sent \in 0 .. Len(File)

\* Mutant: the bytes of the entering command in the opposite order.
CommandOf_BytesSwapped(s) ==
  CASE s = "handshake" -> 16
    [] s = "enter"    -> 8
    [] s = "start"    -> 1
    [] s = "erase"    -> 2
    [] s = "program"  -> 3
    [] s = "validate" -> 4
    [] s = "mark"     -> 5
    [] s = "reboot"   -> 6

\* The command byte of each step; entering the bootloader sends 0x01, the
\* byte of CMD_START_UPDATE.
CommandOf(s) ==
  CASE s = "handshake" -> 16
    [] s \in {"enter", "start"} -> 1
    [] s = "erase"    -> 2
    [] s = "program"  -> 3
    [] s = "validate" -> 4
    [] s = "mark"     -> 5
    [] s = "reboot"   -> 6

\* Mutant: the handshake takes any answer for a PONG.
Expected_AnyPong(s) ==
  CASE s = "handshake" -> AnswerBytes
    [] s = "enter"     -> {"entered"}
    [] OTHER           -> {"success"}

\* CMD_PONG for the handshake, 0xAA for entering, CMD_SUCCESS for the rest.
Expected(s) ==
  CASE s = "handshake" -> {"pong"}
    [] s = "enter"     -> {"entered"}
    [] OTHER           -> {"success"}

\* The step after s, once its last command was answered as expected.
After(s) ==
  IF s = "reboot" THEN "completed"
  ELSE LET i == CHOOSE i \in 1 .. Len(Procedure) : Procedure[i] = s
       IN Procedure[i + 1]

MasterInit ==
  /\ step = "handshake" /\ stage = "send" /\ tries = 0 /\ sent = 0
  /\ answer \in AnswerBytes

\* A new step calls Master_SendCommand with a response variable of its own.
Enter(s) ==
  /\ step' = s /\ stage' = "send" /\ tries' = 0
  /\ answer' \in AnswerBytes
  /\ UNCHANGED sent

Fail ==
  /\ step' = "failed" /\ stage' = "send"
  /\ UNCHANGED <<tries, answer, sent>>

\* Mutant: the attempt is not counted.
Retry_Forever == stage' = "send" /\ UNCHANGED <<step, tries, answer, sent>>

\* Mutant: one attempt too many.
Retry_OneMore ==
  IF tries < MASTER_ATTEMPTS
  THEN stage' = "send" /\ tries' = tries + 1 /\ UNCHANGED <<step, answer, sent>>
  ELSE Fail

\* The next attempt of Master_SendCommand, or its return of false, on which
\* every caller gives the update up.
Retry ==
  IF tries + 1 < MASTER_ATTEMPTS
  THEN stage' = "send" /\ tries' = tries + 1 /\ UNCHANGED <<step, answer, sent>>
  ELSE Fail

----------------------------------------------------------------------------

\* Master_ProgramFirmware opens the file before its first chunk.
OpenFails ==
  /\ step = "program" /\ stage = "send" /\ tries = 0 /\ sent = 0
  /\ Fail

\* fread finds no more chunks.
EndOfFile ==
  /\ step = "program" /\ stage = "send" /\ sent = Len(File)
  /\ Enter(After("program"))

\* I2C_Master_Send: MXC_I2C_MasterTransactionAsync starts the write, or
\* refuses and I2C_ERROR makes Master_SendCommand try again.
StartWrite ==
  /\ step \in Steps /\ stage = "send"
  /\ step = "program" => sent < Len(File)
  /\ \/ stage' = "sending" /\ UNCHANGED <<step, tries, answer, sent>>
     \/ "refusal" \in BUS /\ Retry

\* The callback of the write sets the flag, error or not, and
\* I2C_Master_Receive starts the read, or is refused.
WriteDone ==
  /\ stage = "sending"
  /\ \/ stage' = "receiving" /\ UNCHANGED <<step, tries, answer, sent>>
     \/ "refusal" \in BUS /\ Retry

\* The callback of the read.  When it reports an error the response variable
\* was not written, and Master_SendCommand returns true all the same.
ReadDone(byte) ==
  /\ stage = "receiving"
  /\ stage' = "answered" /\ answer' = byte
  /\ UNCHANGED <<step, tries, sent>>

\* Mutant: a command that was sent counts as one that succeeded.
Judge_Unchecked ==
  /\ step \in Steps /\ stage = "answered"
  /\ IF step = "program"
     THEN stage' = "send" /\ tries' = 0 /\ sent' = sent + 1 /\ UNCHANGED <<step, answer>>
     ELSE Enter(After(step))

\* The caller looks at the response: the next chunk, whose response variable
\* is the same, the next step, or the end.
Judge ==
  /\ step \in Steps /\ stage = "answered"
  /\ IF answer \notin Expected(step) THEN Fail
     ELSE IF step = "program"
     THEN stage' = "send" /\ tries' = 0 /\ sent' = sent + 1 /\ UNCHANGED <<step, answer>>
     ELSE Enter(After(step))

MasterStep == OpenFails \/ EndOfFile \/ StartWrite \/ Judge
=============================================================================
