---------------------------- MODULE UpdateSystem ----------------------------
(***************************************************************************)
(* The two programs on one bus: Slave with the master of Master in place   *)
(* of any master.  A write transaction ends when the slave, blocked in     *)
(* I2C_Receive, has taken the frame; a read transaction when the transmit  *)
(* FIFO gave it a byte; either may also end with an error.  The end of a   *)
(* read or of a failed transaction completes that of a slave that is       *)
(* blocked, too, and since the slave does not look at what it received it  *)
(* then handles the command of the frame before once more or, when there   *)
(* was none, the byte its uninitialised buffer holds.                      *)
(***************************************************************************)
EXTENDS Slave, Master

CONSTANT POWER_FAILS  \* TRUE: the slave may lose its power

VARIABLES
  woken,      \* MXC_I2C_SlaveTransaction was completed without a byte
  unwritten,  \* history: the steps whose response a failed read left as it was
  fed         \* history: the slave took a frame since it was last powered

historyVars == <<unwritten, fed>>
systemVars  == <<slaveVars, masterVars, woken, historyVars>>

ASSUME SystemAssumption ==
  /\ POWER_FAILS \in BOOLEAN
  /\ File \in Seq(Chunks) /\ Chunks # {}
  /\ DELIVERIES = {"none", "command", "partial", "full"}

SystemTypeOK ==
  /\ SlaveTypeOK
  /\ MasterTypeOK
  /\ woken \in BOOLEAN
  /\ unwritten \subseteq Steps
  /\ fed \in BOOLEAN

SystemInit == Init /\ MasterInit /\ woken = FALSE /\ unwritten = {} /\ fed = FALSE

\* How much of a frame the slave finds in its buffer: a lone command byte, the
\* three bytes of entering, or a chunk that may be cut short anywhere.
Delivered(s) ==
  CASE s = "program" -> {"command", "partial", "full"}
    [] s = "enter"   -> {"command", "partial"}
    [] OTHER         -> {"command"}

\* The slave takes the frame of the command the master is at.
TakeFrame ==
  /\ \E delivered \in Delivered(step) :
       Deliver(CommandOf(step),
               IF step = "program" THEN File[sent + 1] ELSE CHOOSE c \in Chunks : TRUE,
               delivered)
  /\ woken' = FALSE /\ fed' = TRUE
  /\ UNCHANGED unwritten

\* A transaction that brings the slave no byte may still complete the one it
\* is blocked in: i2c_slave_callback sees MXC_I2C_EVT_TRANS_COMP and no more.
Wakes == woken' = ("wake" \in BUS /\ pc = "receive")

\* The master knows CMD_SUCCESS, 0, and none of the slave's error codes.
ByteOf(r) == IF r = "CMD_SUCCESS" THEN "success" ELSE "other"

BusWrite == WriteDone /\ TakeFrame

\* The callback reports an error; the slave took the frame, or nothing, and
\* may be woken without a byte.
BusWriteError ==
  /\ "error" \in BUS
  /\ WriteDone
  /\ \/ TakeFrame
     \/ Wakes /\ UNCHANGED <<slaveVars, historyVars>>

BusRead ==
  /\ MasterReads /\ ReadDone(ByteOf(Head(tx)))
  /\ Wakes
  /\ UNCHANGED historyVars

\* The callback reports an error; the response was not written, the byte of
\* the slave may be lost, and the slave may be woken as by any read.
BusReadError ==
  /\ "error" \in BUS
  /\ ReadDone(answer)
  /\ UNCHANGED slaveVars \/ MasterReads
  /\ Wakes
  /\ unwritten' = unwritten \cup {step} /\ UNCHANGED fed

\* The slave's transaction completes without a byte received.
StaleReceive ==
  /\ woken /\ woken' = FALSE
  /\ Deliver(buffer.command, CHOOSE c \in Chunks : TRUE, "none")
  /\ UNCHANGED <<masterVars, historyVars>>

Bus == BusWrite \/ BusWriteError \/ BusRead \/ BusReadError \/ StaleReceive

SlaveRuns  == SlaveStep /\ UNCHANGED <<masterVars, woken, historyVars>>
MasterRuns == MasterStep /\ UNCHANGED <<slaveVars, woken, historyVars>>

\* The slave loses its power, not the master.
SlavePowerLoss ==
  /\ POWER_FAILS /\ PowerLoss
  /\ woken' = FALSE /\ fed' = FALSE
  /\ UNCHANGED <<masterVars, unwritten>>

SystemNext == SlaveRuns \/ MasterRuns \/ Bus \/ SlavePowerLoss

SystemSpec == SystemInit /\ [][SystemNext]_systemVars

\* Both processors run; a transaction that both sides wait for ends.
SystemFairSpec ==
  /\ SystemSpec
  /\ WF_systemVars(SlaveRuns) /\ WF_systemVars(MasterRuns)
  /\ WF_systemVars(BusWrite) /\ WF_systemVars(BusRead)

----------------------------------------------------------------------------
\* Properties.

\* The slave in the system is a slave under any master: every property of
\* Slave holds here (every command of the master's main.c is a frame
\* ProcessI2CCommands may receive).
ImplementsSlave == Spec

\* Every answer the slave ever queues is one the master refuses at its first
\* two steps: it gets past the handshake and into the update only where the
\* read of the response failed and the uninitialised byte happened to be right.
UpdateOnlyByAccident ==
  /\ step \notin {"handshake", "failed"} => "handshake" \in unwritten
  /\ step \notin {"handshake", "enter", "failed"} => "enter" \in unwritten

\* The slave handles a command that no frame brought it: woken before its
\* first frame it runs the byte its uninitialised buffer holds (main.c:61).
InHandler == pc \in {"dispatch", "flash", "send"}
Blind == InHandler /\ ~fed

\* So as long as no read failed the master never makes the slave do anything:
\* but for what it does blind, all the slave handles is the CMD_PING it does not
\* know, through refused and repeated transactions, failed writes, receives
\* that bring nothing and lost power (main.c of both programs).
OnlyPingsCommanded ==
  unwritten = {} /\ InHandler => Blind \/ buffer.command = CMD_PING

\* And no frame gets anything installed: until a read fails, a step of a slave
\* that does not run blind writes at most the page of the inactive bank's flag,
\* at start-up; bootloader, running bank, the firmware in the inactive one and
\* the flags behind them stay word by word, whatever the file, the transactions
\* and the power do (SimulateValidFirmware, command_handler.c).
NothingInstalled ==
  [][unwritten = {} /\ ~Blind =>
       \A w \in Words \ PageWords(InactiveFlagWord) : flash'[w] = flash[w]]_systemVars

\* A master whose slave serves returns, whatever it was refused and however
\* often it tried, on a bus without errors and a slave that keeps its power.
MasterReturnsIfServed == <>(pc = "receive") => <>Ended

----------------------------------------------------------------------------
\* What the programs say of themselves and do not do.

\* I2C_master/main.c:122: an update that completed successfully has its first
\* chunk in the slave's inactive bank.
ReportedUpdateHappened ==
  step = "completed" /\ File # <<>> => Holds(flash, FirstChunk, File[1])

\* I2C_master/i2c_driver.c:12: a transaction takes a second at most, so the
\* update ends, one way or the other, whatever the slave does.
MasterReturns == <>Ended
=============================================================================
