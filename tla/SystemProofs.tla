---------------------------- MODULE SystemProofs ----------------------------
(***************************************************************************)
(* Theorems about the two programs on one bus, for every file, every       *)
(* geometry of the slave and everything the bus may do.                    *)
(***************************************************************************)
EXTENDS UpdateSystem, SlaveProofs

busVars == <<woken, historyVars>>

\* What the master is doing while a transaction runs.
MasterInv ==
  /\ MasterTypeOK
  /\ woken \in BOOLEAN /\ unwritten \subseteq Steps /\ fed \in BOOLEAN
  /\ stage # "send" => step \in Steps /\ (step = "program" => sent < Len(File))

\* An answer that lets the master through the first two steps is one that was
\* never written.
Accident ==
  /\ stage = "answered" /\ step = "handshake" /\ answer = "pong" => "handshake" \in unwritten
  /\ stage = "answered" /\ step = "enter" /\ answer = "entered" => "enter" \in unwritten

MInv == MasterInv /\ Accident /\ UpdateOnlyByAccident

LEMMA FileFacts ==
  /\ Len(File) \in Nat
  /\ \A i \in 1 .. Len(File) : File[i] \in Chunks
BY SystemAssumption

LEMMA AfterFacts ==
  /\ After("handshake") = "enter" /\ After("enter") = "start"
  /\ \A s \in Steps : After(s) \in (Steps \cup {"completed"}) \ {"handshake", "enter", "failed"}
                        \/ s = "handshake"
  /\ After("handshake") \in Steps /\ After("program") \in Steps
  /\ After("program") \notin {"handshake", "enter", "program"}
  /\ "completed" \notin Steps /\ "failed" \notin Steps
  /\ {"handshake", "enter", "program"} \subseteq Steps
<1>1. Steps = {"handshake", "enter", "start", "erase", "program", "validate", "mark", "reboot"}
  BY DEF Steps, Procedure
<1>2. After("handshake") = "enter"   BY DEF After, Procedure
<1>3. After("enter") = "start"       BY DEF After, Procedure
<1>4. After("start") = "erase"       BY DEF After, Procedure
<1>5. After("erase") = "program"     BY DEF After, Procedure
<1>6. After("program") = "validate"  BY DEF After, Procedure
<1>7. After("validate") = "mark"     BY DEF After, Procedure
<1>8. After("mark") = "reboot"       BY DEF After, Procedure
<1>9. After("reboot") = "completed"  BY DEF After
<1> QED BY <1>1, <1>2, <1>3, <1>4, <1>5, <1>6, <1>7, <1>8, <1>9

LEMMA CommandBytes == \A s \in Steps : CommandOf(s) \in Bytes
BY DEF CommandOf, Bytes, CMD_PING, Steps, Procedure

\* What the two ends of a transaction and a retry leave of the invariant.
LEMMA RetryInv ==
  ASSUME MInv, step \in Steps, Retry, UNCHANGED busVars
  PROVE  MInv'
<1> USE DEF MInv, MasterInv, MasterTypeOK, Accident, UpdateOnlyByAccident, busVars, historyVars
<1>1. CASE tries + 1 < MASTER_ATTEMPTS
  BY <1>1, AfterFacts DEF Retry, MASTER_ATTEMPTS
<1>2. CASE ~(tries + 1 < MASTER_ATTEMPTS)
  BY <1>2, AfterFacts DEF Retry, Fail
<1> QED BY <1>1, <1>2

LEMMA WriteDoneInv ==
  ASSUME MInv, WriteDone, UNCHANGED unwritten, woken' \in BOOLEAN, fed' \in BOOLEAN
  PROVE  MInv'
<1>1. CASE UNCHANGED <<step, tries, answer, sent>> /\ stage' = "receiving"
  BY <1>1 DEF WriteDone, MInv, MasterInv, MasterTypeOK, Accident, UpdateOnlyByAccident
<1>2. CASE Retry
  <2>1. step \in Steps  BY DEF WriteDone, MInv, MasterInv
  <2> USE DEF MInv, MasterInv, MasterTypeOK, Accident, UpdateOnlyByAccident
  <2>2. CASE tries + 1 < MASTER_ATTEMPTS
    BY <1>2, <2>1, <2>2, AfterFacts DEF Retry, MASTER_ATTEMPTS
  <2>3. CASE ~(tries + 1 < MASTER_ATTEMPTS)
    BY <1>2, <2>1, <2>3, AfterFacts DEF Retry, Fail
  <2> QED BY <2>2, <2>3
<1> QED BY <1>1, <1>2 DEF WriteDone

LEMMA EnterInv ==
  ASSUME MInv, NEW s \in (Steps \cup {"completed"}) \ {"handshake", "failed"}, Enter(s),
         "handshake" \in unwritten, s # "enter" => "enter" \in unwritten,
         UNCHANGED busVars
  PROVE  MInv'
BY AfterFacts DEF Enter, MInv, MasterInv, MasterTypeOK, Accident, UpdateOnlyByAccident,
                  busVars, historyVars, MASTER_ATTEMPTS

LEMMA MasterStepInv ==
  ASSUME MInv, MasterStep, UNCHANGED busVars
  PROVE  MInv'
<1>1. CASE OpenFails
  BY <1>1, AfterFacts DEF OpenFails, Fail, MInv, MasterInv, MasterTypeOK, Accident,
                          UpdateOnlyByAccident, busVars, historyVars
<1>2. CASE EndOfFile
  <2>1. "handshake" \in unwritten /\ "enter" \in unwritten
    BY <1>2 DEF EndOfFile, MInv, UpdateOnlyByAccident
  <2> QED BY <1>2, <2>1, AfterFacts, EnterInv DEF EndOfFile
<1>3. CASE StartWrite
  <2>1. CASE stage' = "sending" /\ UNCHANGED <<step, tries, answer, sent>>
    BY <1>3, <2>1 DEF StartWrite, MInv, MasterInv, MasterTypeOK, Accident,
                      UpdateOnlyByAccident, busVars, historyVars
  <2>2. CASE Retry  BY <1>3, <2>2, RetryInv DEF StartWrite
  <2> QED BY <1>3, <2>1, <2>2 DEF StartWrite
<1>4. CASE Judge
  <2>1. step \in Steps /\ stage = "answered"  BY <1>4 DEF Judge
  <2>2. CASE answer \notin Expected(step)
    BY <1>4, <2>1, <2>2, AfterFacts
       DEF Judge, Fail, MInv, MasterInv, MasterTypeOK, Accident, UpdateOnlyByAccident,
           busVars, historyVars
  <2>3. CASE answer \in Expected(step) /\ step = "program"
    BY <1>4, <2>1, <2>3, FileFacts
       DEF Judge, MInv, MasterInv, MasterTypeOK, Accident, UpdateOnlyByAccident,
           busVars, historyVars, MASTER_ATTEMPTS
  <2>4. CASE answer \in Expected(step) /\ step # "program"
    <3>1. Enter(After(step))  BY <1>4, <2>4 DEF Judge
    <3>2. "handshake" \in unwritten
      BY <2>1, <2>4, AfterFacts DEF Expected, MInv, Accident, UpdateOnlyByAccident
    <3>3. step # "handshake" => "enter" \in unwritten
      BY <2>1, <2>4, AfterFacts DEF Expected, MInv, Accident, UpdateOnlyByAccident
    <3>4. After(step) \in (Steps \cup {"completed"}) \ {"handshake", "failed"}
      BY <2>1, AfterFacts
    <3> QED BY <2>1, <3>1, <3>2, <3>3, <3>4, AfterFacts, EnterInv
  <2> QED BY <2>2, <2>3, <2>4
<1> QED BY <1>1, <1>2, <1>3, <1>4 DEF MasterStep

LEMMA MasterInvariance == SystemSpec => []MInv
<1>1. ASSUME SystemInit PROVE MInv
  <2>1. /\ step = "handshake" /\ stage = "send" /\ tries = 0 /\ sent = 0
        /\ answer \in AnswerBytes /\ woken = FALSE /\ unwritten = {} /\ fed = FALSE
    BY <1>1 DEF SystemInit, MasterInit
  <2>2. "handshake" \in Steps  BY AfterFacts
  <2>3. MasterTypeOK  BY <2>1, <2>2, FileFacts DEF MasterTypeOK, MASTER_ATTEMPTS
  <2> QED BY <2>1, <2>3 DEF MInv, MasterInv, Accident, UpdateOnlyByAccident
<1>2. ASSUME MInv, [SystemNext]_systemVars PROVE MInv'
  <2>1. CASE UNCHANGED <<masterVars, woken, historyVars>>
    BY <1>2, <2>1 DEF masterVars, historyVars, MInv, MasterInv, MasterTypeOK, Accident, UpdateOnlyByAccident
  <2>2. CASE MasterRuns  BY <1>2, <2>2, MasterStepInv DEF MasterRuns, busVars, historyVars
  <2>3. CASE BusWrite \/ BusWriteError
    <3>1. WriteDone /\ UNCHANGED unwritten
      BY <2>3 DEF BusWrite, BusWriteError, TakeFrame, historyVars
    <3>2. woken' \in BOOLEAN /\ fed' \in BOOLEAN
      BY <1>2, <2>3 DEF BusWrite, BusWriteError, TakeFrame, Wakes, historyVars, MInv, MasterInv
    <3> QED BY <1>2, <3>1, <3>2, WriteDoneInv
  <2>4. CASE BusRead
    <3>1. answer' \in {"success", "other"} /\ stage' = "answered" /\ stage = "receiving"
          /\ UNCHANGED <<step, tries, sent, unwritten, fed>> /\ woken' \in BOOLEAN
      BY <2>4 DEF BusRead, Wakes, ReadDone, ByteOf, historyVars
    <3> QED BY <1>2, <3>1 DEF MInv, MasterInv, MasterTypeOK, Accident, UpdateOnlyByAccident, AnswerBytes
  <2>5. CASE BusReadError
    <3>1. stage' = "answered" /\ stage = "receiving" /\ answer' = answer
          /\ UNCHANGED <<step, tries, sent, fed>> /\ woken' \in BOOLEAN
          /\ unwritten' = unwritten \cup {step}
      BY <2>5 DEF BusReadError, Wakes, ReadDone
    <3> QED BY <1>2, <3>1 DEF MInv, MasterInv, MasterTypeOK, Accident, UpdateOnlyByAccident
  <2>6. CASE StaleReceive \/ SlavePowerLoss
    BY <1>2, <2>6 DEF StaleReceive, SlavePowerLoss, masterVars, historyVars, MInv, MasterInv,
                      MasterTypeOK, Accident, UpdateOnlyByAccident
  <2> QED BY <1>2, <2>1, <2>2, <2>3, <2>4, <2>5, <2>6
          DEF SystemNext, SlaveRuns, Bus, systemVars
<1> QED BY <1>1, <1>2, PTL DEF SystemSpec

\* The master gets into the update only on responses that were never written,
\* whatever the file, the bus and the slave's memory.
THEOREM UpdatesBeginByAccident == SystemSpec => []UpdateOnlyByAccident
BY MasterInvariance, PTL DEF MInv

----------------------------------------------------------------------------
\* The slave in the system.

\* A frame the master sends is one a slave may receive.
LEMMA TakeFrameReceives ==
  ASSUME MInv, stage = "sending", TakeFrame
  PROVE  Receive
<1>1. step \in Steps /\ (step = "program" => sent + 1 \in 1 .. Len(File))
  BY FileFacts DEF MInv, MasterInv, MasterTypeOK
<1>2. CommandOf(step) \in Bytes  BY <1>1, CommandBytes
<1> DEFINE chunk == IF step = "program" THEN File[sent + 1] ELSE CHOOSE c \in Chunks : TRUE
<1>3. chunk \in Chunks  BY <1>1, FileFacts, SystemAssumption
<1>4. Delivered(step) \subseteq DELIVERIES  BY SystemAssumption DEF Delivered
<1>5. PICK delivered \in Delivered(step) : Deliver(CommandOf(step), chunk, delivered)
  BY DEF TakeFrame
<1> HIDE DEF chunk
<1> QED BY <1>2, <1>3, <1>4, <1>5 DEF Receive

LEMMA SystemStepIsSlaveStep ==
  ASSUME MInv, SlaveTypeOK, [SystemNext]_systemVars
  PROVE  [Next]_slaveVars
<1>1. CASE SlaveRuns  BY <1>1 DEF SlaveRuns, Next
<1>2. CASE MasterRuns  BY <1>2 DEF MasterRuns
<1>3. CASE BusWrite
  BY <1>3, TakeFrameReceives DEF BusWrite, WriteDone, Next
<1>4. CASE BusWriteError
  BY <1>4, TakeFrameReceives DEF BusWriteError, WriteDone, Next
<1>5. CASE BusRead  BY <1>5 DEF BusRead, Next
<1>6. CASE BusReadError  BY <1>6 DEF BusReadError, Next
<1>7. CASE StaleReceive
  <2>1. buffer.command \in Bytes  BY DEF SlaveTypeOK
  <2>2. (CHOOSE c \in Chunks : TRUE) \in Chunks  BY SystemAssumption
  <2>3. "none" \in DELIVERIES  BY SystemAssumption
  <2> QED BY <1>7, <2>1, <2>2, <2>3 DEF StaleReceive, Receive, Next
<1>8. CASE SlavePowerLoss  BY <1>8 DEF SlavePowerLoss, Next
<1>9. CASE UNCHANGED systemVars  BY <1>9 DEF systemVars
<1> QED BY <1>1, <1>2, <1>3, <1>4, <1>5, <1>6, <1>7, <1>8, <1>9 DEF SystemNext, Bus

\* The type invariant of the slave along the system's steps; it is needed to
\* know that a stale command is a byte.
LEMMA SlaveTypes == SystemSpec => []SlaveTypeOK
<1>1. SystemInit => SlaveTypeOK  BY InitType DEF SystemInit
<1>2. MInv /\ SlaveTypeOK /\ [SystemNext]_systemVars => SlaveTypeOK'
    BY SystemStepIsSlaveStep, NextType
<1> QED BY <1>1, <1>2, MasterInvariance, PTL DEF SystemSpec

\* Both programs keep their types, and so do the histories of the bus: no step
\* of the master runs beyond the file or its retries (Master_SendCommand).
THEOREM SystemTyped == SystemSpec => []SystemTypeOK
<1>1. MInv /\ SlaveTypeOK => SystemTypeOK  BY DEF MInv, MasterInv, SystemTypeOK
<1> QED BY <1>1, MasterInvariance, SlaveTypes, PTL

\* The slave in the system is a slave under any master, so what is proved of
\* that one holds on the bus.
THEOREM SystemImplementsSlave == SystemSpec => ImplementsSlave
<1>1. SystemInit => Init  BY DEF SystemInit
<1>2. MInv /\ SlaveTypeOK /\ [SystemNext]_systemVars => [Next]_slaveVars
  BY SystemStepIsSlaveStep
<1> QED BY <1>1, <1>2, MasterInvariance, SlaveTypes, PTL DEF SystemSpec, ImplementsSlave, Spec

----------------------------------------------------------------------------
\* The slave is made to do nothing.

Served == {"receive", "dispatch", "flash", "send", "fault"}

\* Until a read fails the only frame the slave ever takes is a CMD_PING, which
\* stays in its buffer through receives that bring nothing.
OnlyPing ==
  /\ pc \notin Served => ~fed
  /\ unwritten = {} /\ fed => buffer.command = CMD_PING

\* How the slave's own steps move pc and the buffer.
LEMMA SlaveStepMoves ==
  ASSUME SlaveStep
  PROVE  pc \in Served => pc' \in Served /\ UNCHANGED buffer
<1> USE DEF Served
<1>1. CASE FlashCall  BY <1>1 DEF FlashCall, commandVars
<1>2. CASE SimulateReturn \/ Start  BY <1>2 DEF SimulateReturn, Start, commandVars
<1>3. CASE MainLoop  BY <1>3 DEF MainLoop, CaseBoot, CaseRollback, CaseService, commandVars
<1>4. CASE SendResponse  BY <1>4 DEF SendResponse
<1>5. CASE StartUpdate \/ ErasePartition \/ ProgramPage \/ FlashReturn
  BY <1>5 DEF StartUpdate, ErasePartition, ProgramPage, FlashReturn, Handling, Respond, commandVars
<1>6. CASE ValidateCRC \/ MarkActive \/ Reboot \/ QueryStatus \/ UnknownCommand
  BY <1>6 DEF ValidateCRC, MarkActive, Reboot, QueryStatus, UnknownCommand, Handling, Respond
<1> QED BY <1>1, <1>2, <1>3, <1>4, <1>5, <1>6 DEF SlaveStep, Handler

\* Before any read has failed the master is still at its handshake, so the
\* frame the slave takes holds CMD_PING.
LEMMA FrameIsPing ==
  ASSUME MInv, SlaveTypeOK, stage = "sending", unwritten = {}, TakeFrame
  PROVE  buffer'.command = CMD_PING
<1>1. step = "handshake"
  BY AfterFacts DEF MInv, MasterInv, UpdateOnlyByAccident
<1>2. buffer' = [buffer EXCEPT !.command = 16]
  BY <1>1 DEF TakeFrame, Delivered, CommandOf, Deliver
<1> QED BY <1>2 DEF SlaveTypeOK, CMD_PING

LEMMA OnlyPingStep ==
  ASSUME MInv, SlaveTypeOK, OnlyPing, [SystemNext]_systemVars
  PROVE  OnlyPing'
<1> USE DEF OnlyPing
<1>1. CASE SlaveRuns
  BY <1>1, SlaveStepMoves DEF SlaveRuns, historyVars
<1>2. CASE (BusWrite \/ BusWriteError) /\ TakeFrame
  <2>1. stage = "sending"  BY <1>2 DEF BusWrite, BusWriteError, WriteDone
  <2>2. pc' = "dispatch" /\ UNCHANGED unwritten  BY <1>2 DEF TakeFrame, Deliver
  <2> QED BY <1>2, <2>1, <2>2, FrameIsPing DEF Served
<1>3. CASE BusWriteError /\ ~TakeFrame
  BY <1>3 DEF BusWriteError, slaveVars, historyVars
<1>4. CASE BusRead
  BY <1>4 DEF BusRead, MasterReads, historyVars
<1>5. CASE BusReadError
  <2>1. unwritten' # {} /\ UNCHANGED <<pc, fed>>
    BY <1>5 DEF BusReadError, MasterReads, slaveVars
  <2> QED BY <2>1
<1>6. CASE StaleReceive
  <2>1. pc' = "dispatch" /\ UNCHANGED <<buffer, unwritten, fed>>
    BY <1>6 DEF StaleReceive, Deliver, historyVars
  <2> QED BY <2>1 DEF Served
<1>7. CASE SlavePowerLoss  BY <1>7 DEF SlavePowerLoss
<1>8. CASE MasterRuns \/ UNCHANGED systemVars
  BY <1>8 DEF MasterRuns, systemVars, slaveVars, historyVars
<1> QED BY <1>1, <1>2, <1>3, <1>4, <1>5, <1>6, <1>7, <1>8 DEF SystemNext, Bus, BusWrite

LEMMA AlwaysOnlyPing == SystemSpec => []OnlyPing
<1>1. SystemInit => OnlyPing
  BY DEF SystemInit, OnlyPing
<1>2. MInv /\ SlaveTypeOK /\ OnlyPing /\ [SystemNext]_systemVars => OnlyPing'
  BY OnlyPingStep
<1> QED BY <1>1, <1>2, MasterInvariance, SlaveTypes, PTL DEF SystemSpec

\* As long as no read has failed the slave handles nothing but CMD_PING and,
\* woken before its first frame, the byte its buffer came with; for every file,
\* flash and bus, through failed and repeated transactions, receives that bring
\* nothing and losses of power (main.c of both programs).
THEOREM OnlyPingsAreCommanded == SystemSpec => []OnlyPingsCommanded
<1>1. OnlyPing => OnlyPingsCommanded  BY DEF OnlyPing, OnlyPingsCommanded, Blind
<1> QED BY <1>1, AlwaysOnlyPing, PTL

----------------------------------------------------------------------------
\* The slave's theorems on the bus.

LEMMA SlaveInvariance == SystemSpec => []IInv
BY SystemImplementsSlave, Invariance, PTL DEF ImplementsSlave

\* With the master of main.c and a bus that refuses, fails and repeats
\* transactions, the slave's decisions, flags, acknowledgements and flash calls
\* are as sound as under any master.
THEOREM SlaveIsSafeOnTheBus ==
  SystemSpec => [](/\ BootDecision /\ InactiveFlagFresh /\ AckedChunkStored
                   /\ OneChunkOnly /\ CallBelongsToHandler)
<1>1. IInv => /\ BootDecision /\ InactiveFlagFresh /\ AckedChunkStored
              /\ OneChunkOnly /\ CallBelongsToHandler
  BY DEF IInv
<1> QED BY <1>1, SlaveInvariance, PTL

\* Nothing the master's program or the bus does gets a word outside the
\* inactive bank written (every command of the master's main.c).
THEOREM RunningBankIsSafeOnTheBus == SystemSpec => RunningBankUntouched
BY SystemImplementsSlave, RunningBankIsUntouched, PTL DEF ImplementsSlave

\* Whatever the two programs do to each other, what the slave boots is what it
\* booted at its first start: it keeps the boot policy, and the verdict of the
\* active flag never changes (main.c of both programs).
THEOREM BootVerdictIsPermanent ==
  SystemSpec => ImplementsBootPolicy /\ [][Verdict' = Verdict]_systemVars
<1>1. ASSUME MInv, IInv, [SystemNext]_systemVars PROVE [Verdict' = Verdict]_systemVars
  <2>1. [Next]_slaveVars  BY <1>1, SystemStepIsSlaveStep DEF IInv
  <2>2. flash'[ActiveFlagWord] = flash[ActiveFlagWord]  BY <1>1, <2>1, FlagsStay
  <2> QED BY <2>2 DEF Verdict
<1>2. SystemSpec => ImplementsBootPolicy
  BY SystemImplementsSlave, SlaveImplementsBootPolicy, PTL DEF ImplementsSlave
<1> QED BY <1>1, <1>2, MasterInvariance, SlaveInvariance, PTL DEF SystemSpec

\* The flash call of the start-up changes the page of the flag and no more.
LEMMA FlagFootprint ==
  Footprint(InactiveFlagWord, 4) \subseteq PageWords(InactiveFlagWord)
<1>1. InactiveFlagWord \in Words /\ InactiveFlagWord \in Nat  BY FlagWords
<1>2. FLASH_PAGE_SIZE \in Nat \ {0}  BY LayoutAssumption
<1>3. InactiveFlagWord % FLASH_PAGE_SIZE \in 0 .. FLASH_PAGE_SIZE - 1
  BY <1>1, <1>2, Division
<1>4. InactiveFlagWord \in PageWords(InactiveFlagWord)
  BY <1>1, <1>2, <1>3 DEF PageWords, PAGE_START_ADDR
<1>5. ASSUME NEW w \in BlockWords(InactiveFlagWord, 4) PROVE w = InactiveFlagWord
  BY <1>1, <1>5, LayoutAssumption DEF BlockWords, Words
<1> QED BY <1>4, <1>5 DEF Footprint

\* A flash call that runs before any read has failed, and not blind, is that of
\* the start-up: those of the handlers belong to commands the slave is not given.
LEMMA OnlyStartUpCalls ==
  ASSUME IInv, OnlyPing, unwritten = {}, ~Blind, FlashCall
  PROVE  /\ FlashTypeOK /\ FlashStep
         /\ call.address = InactiveFlagWord /\ call.length = 4
<1>1. FlashTypeOK /\ FlashStep  BY DEF IInv, SlaveTypeOK, FlashCall
<1>2. call.step \in {"erase", "write"}  BY <1>1, FlashStepCall
<1>3. pc \in {"simulate", "flash"}
  BY <1>2 DEF IInv, CallBelongsToHandler, NoCall
<1>4. pc # "flash"
  <2>1. SUFFICES ASSUME pc = "flash" PROVE FALSE  OBVIOUS
  <2>2. buffer.command = CMD_PING  BY <2>1 DEF OnlyPing, Blind, InHandler
  <2>3. buffer.command \in {CMD_ERASE_PARTITION, CMD_PROGRAM_PAGE}
    BY <2>1 DEF IInv, CallBelongsToHandler, EraseCall, ProgramCall
  <2> QED BY <2>2, <2>3 DEF CMD_PING, CMD_ERASE_PARTITION, CMD_PROGRAM_PAGE
<1>5. SimulateCall  BY <1>3, <1>4 DEF IInv, CallBelongsToHandler
<1> QED BY <1>1, <1>5 DEF SimulateCall

\* Until a read fails, a slave that does not run the command of a buffer no
\* frame was put in writes nothing but the page of the inactive bank's flag, at
\* start-up: for every file, geometry, retry count and bus, through flash errors,
\* receives that bring nothing and losses of power (main.c of both programs).
THEOREM NothingIsInstalled == SystemSpec => NothingInstalled
<1> DEFINE Keeps == unwritten = {} /\ ~Blind =>
             \A w \in Words \ PageWords(InactiveFlagWord) : flash'[w] = flash[w]
<1>1. ASSUME MInv, IInv, OnlyPing, [SystemNext]_systemVars PROVE [Keeps]_systemVars
  <2>1. [Next]_slaveVars
    BY <1>1, SystemStepIsSlaveStep DEF IInv
  <2>2. CASE FlashCall
    <3>1. SUFFICES ASSUME unwritten = {}, ~Blind,
                          NEW w \in Words \ PageWords(InactiveFlagWord)
                   PROVE  flash'[w] = flash[w]
      OBVIOUS
    <3>2. w \notin Footprint(call.address, call.length)
      BY <1>1, <2>2, <3>1, OnlyStartUpCalls, FlagFootprint
    <3> QED BY <1>1, <2>2, <3>1, <3>2, OnlyStartUpCalls, FlashStepFrame
  <2>3. CASE ~FlashCall  BY <2>1, <2>3, OnlyFlashCallWrites
  <2> QED BY <2>2, <2>3
<1> QED
  BY <1>1, MasterInvariance, SlaveInvariance, AlwaysOnlyPing, PTL
     DEF SystemSpec, NothingInstalled

----------------------------------------------------------------------------
\* The master's program is finite.

\* The steps from s to the end of the procedure.
StepsFrom(s) ==
  CASE s = "handshake" -> 8 [] s = "enter" -> 7 [] s = "start"    -> 6 [] s = "erase" -> 5
    [] s = "program"   -> 4 [] s = "mark"  -> 2 [] s = "validate" -> 3 [] s = "reboot" -> 1

\* What one attempt has still to go through.
StagesFrom(s) ==
  CASE s = "send" -> 4 [] s = "sending" -> 3 [] s = "receiving" -> 2 [] s = "answered" -> 1

\* What is left of the master's program: every command that is still to be
\* answered, one for each chunk, may take MASTER_ATTEMPTS attempts of four
\* stages.
WorkOf(steps, chunks, attempt, stages) ==
  12 * (steps + chunks) + 4 * (MASTER_ATTEMPTS - 1 - attempt) + stages
ChunksLeft == Len(File) - sent

MasterWork ==
  IF Ended THEN 0 ELSE WorkOf(StepsFrom(step), ChunksLeft, tries, StagesFrom(stage))

WorkLimit == 12 * (9 + Len(File))

\* The steps of the master's program, with those it takes when a transaction
\* ends.
MasterMoves == MasterRuns \/ BusWrite \/ BusWriteError \/ BusRead \/ BusReadError

LEMMA StepsFromFacts ==
  /\ \A s \in Steps : StepsFrom(s) \in 1 .. 8
  /\ \A s \in Steps : After(s) # "completed" =>
       After(s) \in Steps /\ StepsFrom(After(s)) = StepsFrom(s) - 1
<1>1. Steps = {"handshake", "enter", "start", "erase", "program", "validate", "mark", "reboot"}
  BY DEF Steps, Procedure
<1>2. After("handshake") = "enter"   BY DEF After, Procedure
<1>3. After("enter") = "start"       BY DEF After, Procedure
<1>4. After("start") = "erase"       BY DEF After, Procedure
<1>5. After("erase") = "program"     BY DEF After, Procedure
<1>6. After("program") = "validate"  BY DEF After, Procedure
<1>7. After("validate") = "mark"     BY DEF After, Procedure
<1>8. After("mark") = "reboot"       BY DEF After, Procedure
<1>9. After("reboot") = "completed"  BY DEF After
<1> QED
  BY <1>1, <1>2, <1>3, <1>4, <1>5, <1>6, <1>7, <1>8, <1>9 DEF StepsFrom

LEMMA WorkOrder ==
  ASSUME NEW p \in 1 .. 8, NEW c \in Nat, NEW t \in 0 .. 2, NEW g \in 1 .. 4
  PROVE  /\ WorkOf(p, c, t, g) \in 1 .. 12 * (9 + c)
         /\ t + 1 < 3 /\ g \in {3, 4} => WorkOf(p, c, t + 1, 4) < WorkOf(p, c, t, g)
         /\ \A h \in 1 .. 4 : h < g => WorkOf(p, c, t, h) < WorkOf(p, c, t, g)
         /\ WorkOf(p - 1, c, 0, 4) < WorkOf(p, c, t, g)
         /\ WorkOf(p, c - 1, 0, 4) < WorkOf(p, c, t, g)
BY DEF WorkOf, MASTER_ATTEMPTS

\* A program that is not at its end.
LEMMA Unfinished ==
  ASSUME MasterInv, ~Ended
  PROVE  /\ StepsFrom(step) \in 1 .. 8 /\ StagesFrom(stage) \in 1 .. 4
         /\ ChunksLeft \in Nat /\ tries \in 0 .. 2
         /\ MasterWork = WorkOf(StepsFrom(step), ChunksLeft, tries, StagesFrom(stage))
         /\ MasterWork \in 1 .. WorkLimit
<1>1. StepsFrom(step) \in 1 .. 8
  BY StepsFromFacts DEF MasterInv, MasterTypeOK, Ended
<1>2. StagesFrom(stage) \in 1 .. 4  BY DEF MasterInv, MasterTypeOK, StagesFrom
<1>3. Len(File) \in Nat /\ sent \in 0 .. Len(File) /\ tries \in 0 .. 2
  BY FileFacts DEF MasterInv, MasterTypeOK, MASTER_ATTEMPTS
<1>4. ChunksLeft \in Nat /\ ChunksLeft <= Len(File)  BY <1>3 DEF ChunksLeft
<1>5. MasterWork = WorkOf(StepsFrom(step), ChunksLeft, tries, StagesFrom(stage))
  BY DEF MasterWork
<1>6. MasterWork \in 1 .. 12 * (9 + ChunksLeft)
  BY <1>1, <1>2, <1>3, <1>4, <1>5, WorkOrder, Zenon
<1> QED BY <1>1, <1>2, <1>3, <1>4, <1>5, <1>6 DEF WorkLimit

LEMMA WorkInRange == MasterInv => MasterWork \in 0 .. WorkLimit
<1>1. CASE Ended  BY <1>1, FileFacts DEF MasterWork, WorkLimit
<1>2. CASE ~Ended  BY <1>2, Unfinished, FileFacts DEF WorkLimit
<1> QED BY <1>1, <1>2

LEMMA FailWork ==
  ASSUME MasterInv, ~Ended, Fail
  PROVE  MasterWork' < MasterWork
<1>1. MasterWork' = 0  BY DEF Fail, MasterWork, Ended
<1> QED BY <1>1, Unfinished, FileFacts DEF WorkLimit

LEMMA RetryWork ==
  ASSUME MasterInv, ~Ended, stage \in {"send", "sending"}, Retry
  PROVE  MasterWork' < MasterWork
<1>1. CASE tries + 1 < MASTER_ATTEMPTS
  <2>1. step' = step /\ sent' = sent /\ tries' = tries + 1 /\ stage' = "send"
    BY <1>1 DEF Retry
  <2>2. MasterWork' = WorkOf(StepsFrom(step), ChunksLeft, tries + 1, 4)
    BY <2>1 DEF MasterWork, Ended, StagesFrom, ChunksLeft
  <2>3. StagesFrom(stage) \in {3, 4}  BY DEF StagesFrom
  <2>4. tries + 1 < 3  BY <1>1 DEF MASTER_ATTEMPTS
  <2> QED BY <2>2, <2>3, <2>4, Unfinished, WorkOrder, Zenon
<1>2. CASE ~(tries + 1 < MASTER_ATTEMPTS)
  BY <1>2, FailWork DEF Retry
<1> QED BY <1>1, <1>2

\* The next stage of the same attempt.
LEMMA StageWork ==
  ASSUME MasterInv, ~Ended, UNCHANGED <<step, tries, sent>>,
         \/ stage = "send"      /\ stage' = "sending"
         \/ stage = "sending"   /\ stage' = "receiving"
         \/ stage = "receiving" /\ stage' = "answered"
  PROVE  MasterWork' < MasterWork
<1>1. MasterWork' = WorkOf(StepsFrom(step), ChunksLeft, tries, StagesFrom(stage'))
  BY DEF MasterWork, Ended, ChunksLeft
<1>2. StagesFrom(stage') \in 1 .. 4 /\ StagesFrom(stage') < StagesFrom(stage)
  BY DEF StagesFrom
<1> QED BY <1>1, <1>2, Unfinished, WorkOrder, Zenon

\* The next step of the procedure.
LEMMA EnterWork ==
  ASSUME MasterInv, step \in Steps, ~Ended, Enter(After(step))
  PROVE  MasterWork' < MasterWork
<1>1. step' = After(step) /\ sent' = sent /\ tries' = 0 /\ stage' = "send"
  BY DEF Enter
<1>2. CASE After(step) = "completed"
  <2>1. MasterWork' = 0  BY <1>1, <1>2 DEF MasterWork, Ended
  <2> QED BY <2>1, Unfinished, FileFacts DEF WorkLimit
<1>3. CASE After(step) # "completed"
  <2>1. After(step) \in Steps /\ StepsFrom(After(step)) = StepsFrom(step) - 1
    BY <1>3, StepsFromFacts
  <2>2. ~Ended'  BY <1>1, <1>3, <2>1, AfterFacts DEF Ended
  <2>3. MasterWork' = WorkOf(StepsFrom(step) - 1, ChunksLeft, 0, 4)
    BY <1>1, <2>1, <2>2 DEF MasterWork, StagesFrom, ChunksLeft
  <2> QED BY <2>3, Unfinished, WorkOrder, Zenon
<1> QED BY <1>2, <1>3

LEMMA MasterStepWork ==
  ASSUME MasterInv, MasterStep
  PROVE  MasterWork' < MasterWork
<1>1. step \in Steps => ~Ended  BY AfterFacts DEF Ended
<1>2. CASE OpenFails
  BY <1>1, <1>2, AfterFacts, FailWork DEF OpenFails
<1>3. CASE EndOfFile
  BY <1>1, <1>3, AfterFacts, EnterWork DEF EndOfFile
<1>4. CASE StartWrite
  BY <1>1, <1>4, StageWork, RetryWork DEF StartWrite
<1>5. CASE Judge
  <2>1. step \in Steps /\ stage = "answered" /\ ~Ended  BY <1>1, <1>5 DEF Judge
  <2>2. CASE Fail  BY <2>1, <2>2, FailWork
  <2>3. CASE Enter(After(step))  BY <2>1, <2>3, EnterWork
  <2>4. CASE stage' = "send" /\ tries' = 0 /\ sent' = sent + 1 /\ UNCHANGED step
    <3>1. Len(File) - (sent + 1) = ChunksLeft - 1
      BY FileFacts DEF MasterInv, MasterTypeOK, ChunksLeft
    <3>2. MasterWork' = WorkOf(StepsFrom(step), ChunksLeft - 1, 0, 4)
      BY <2>1, <2>4, <3>1 DEF MasterWork, Ended, StagesFrom, ChunksLeft
    <3> QED BY <2>1, <3>2, Unfinished, WorkOrder, Zenon
  <2> QED BY <1>5, <2>2, <2>3, <2>4 DEF Judge
<1> QED BY <1>2, <1>3, <1>4, <1>5 DEF MasterStep

\* Whatever the slave answers, the bus refuses or fails and the file holds, the
\* master's program has never more than WorkLimit steps to take
\* (FirmwareUpdateProcess, Master_SendCommand).
THEOREM MasterWorkIsBounded == SystemSpec => [](MasterWork \in 0 .. WorkLimit)
BY MasterInvariance, WorkInRange, PTL DEF MInv

\* Each of its steps leaves it less to do, and nothing the slave or the power
\* does gives it more: no answer makes Master_SendCommand or the loop over the
\* file go round for ever, so a master that does not return waits for the end of
\* a transaction (i2c_driver.c:55).
THEOREM MasterWorkShrinks ==
  SystemSpec => [][IF MasterMoves THEN MasterWork' < MasterWork
                   ELSE MasterWork' = MasterWork]_systemVars
<1> DEFINE Shrinks == IF MasterMoves THEN MasterWork' < MasterWork
                      ELSE MasterWork' = MasterWork
<1>1. ASSUME MInv, [SystemNext]_systemVars PROVE [Shrinks]_systemVars
  <2>1. MasterInv  BY <1>1 DEF MInv
  <2>2. CASE MasterRuns  BY <2>1, <2>2, MasterStepWork DEF MasterRuns, MasterMoves
  <2>3. ASSUME stage \in {"sending", "receiving"} PROVE ~Ended
    BY <2>1, <2>3, AfterFacts DEF MasterInv, Ended
  <2>4. CASE BusWrite \/ BusWriteError
    <3>1. WriteDone  BY <2>4 DEF BusWrite, BusWriteError
    <3>2. stage = "sending"  BY <3>1 DEF WriteDone
    <3>3. MasterWork' < MasterWork
      BY <2>1, <2>3, <3>1, <3>2, StageWork, RetryWork DEF WriteDone
    <3> QED BY <2>4, <3>3 DEF MasterMoves
  <2>5. CASE BusRead \/ BusReadError
    <3>1. /\ stage = "receiving" /\ stage' = "answered"
          /\ UNCHANGED <<step, tries, sent>>
      BY <2>5 DEF BusRead, BusReadError, ReadDone
    <3>2. MasterWork' < MasterWork  BY <2>1, <2>3, <3>1, StageWork
    <3> QED BY <2>5, <3>2 DEF MasterMoves
  <2>6. CASE ~MasterMoves
    <3>1. UNCHANGED masterVars \/ UNCHANGED systemVars
      BY <1>1, <2>6 DEF SystemNext, SlaveRuns, Bus, StaleReceive, SlavePowerLoss, MasterMoves
    <3>2. UNCHANGED <<step, stage, tries, sent>>  BY <3>1 DEF masterVars, systemVars
    <3>3. MasterWork' = MasterWork  BY <3>2 DEF MasterWork, Ended, ChunksLeft
    <3> QED BY <2>6, <3>3
  <2> QED BY <2>2, <2>4, <2>5, <2>6 DEF MasterMoves
<1> QED BY <1>1, MasterInvariance, PTL DEF SystemSpec
=============================================================================
