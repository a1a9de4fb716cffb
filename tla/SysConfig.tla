------------------------------ MODULE SysConfig ------------------------------
(***************************************************************************)
(* ecp5_sysconfig_program(): the board controller loads a bitstream into   *)
(* the FPGA.  The state is that of the C function between two uses of a    *)
(* board hook; pc names the statement that comes next.  SPI transfers may  *)
(* fail, the millisecond counter wraps around, the device may not answer,  *)
(* and the caller may call again after a failure.                          *)
(***************************************************************************)
EXTENDS Ecp5Device

CONSTANTS
  BURST_CHUNK_BYTES,
  TMO_INITN_MS, TMO_BUSY_MS, TMO_DONE_MS,
  MILLIS             \* ecp5_millis() counts modulo MILLIS (2^32 in the code)

ASSUME SysConfigAssumption ==
  /\ BURST_CHUNK_BYTES \in Nat \ {0}
  /\ MILLIS \in Nat
  /\ {TMO_INITN_MS, TMO_BUSY_MS, TMO_DONE_MS} \subseteq 1 .. MILLIS - 1

VARIABLES
  pc, cs,      \* the next statement, and the level of the chip select
  job, off,    \* the arguments, and the bytes of the burst sent so far
  rc,          \* what the last call returned
  now, t0,     \* ecp5_millis() now and at the start of the poll
  waited,      \* history: how long the poll has really lasted
  cause        \* history: what went wrong outside the code during this call

time == <<now, t0, waited>>
vars == <<dev, pc, cs, job, off, rc, time, cause>>

Jobs == [img : Images, len : 0 .. MAXLEN]

Init ==
  /\ DevInit
  /\ pc = "idle" /\ cs = 1 /\ job \in Jobs /\ off = 0 /\ rc = "none"
  /\ now \in 0 .. MILLIS - 1 /\ t0 = now /\ waited = 0
  /\ cause = {}

-----------------------------------------------------------------------------
(* Helpers.                                                                *)

\* ecp5_millis() - t0, in unsigned arithmetic.
Elapsed == (now + (MILLIS - t0)) % MILLIS

StartPoll == t0' = now /\ waited' = 0 /\ UNCHANGED now

Goto(next) == pc' = next /\ UNCHANGED rc
Return(code) == pc' = "idle" /\ rc' = code

Succeeds(next) == Goto(next) /\ UNCHANGED cause
Fails(code, why) == Return(code) /\ cause' = cause \union {why}

\* Send a four-byte command.  A transfer that fails may have reached the device.
cmd_write4(op, next) ==
  /\ \/ dev' = Received(op) /\ Succeeds(next)
     \/ dev' \in {dev, Received(op)} /\ Fails("ERR_SPI", "spi")
  /\ UNCHANGED <<cs, job, off>>

\* A round of a poll that ends it: the clock is looked at first, then what the
\* poll waits for.  A round that finds neither changes nothing.
\* Mutant: compares with a deadline, which may lie behind a wrap-around.
poll_deadline(ready, tmo, next) ==
  /\ IF now < (t0 + tmo) % MILLIS THEN ready /\ next
     ELSE Fails("ERR_TIMEOUT", IF waited >= tmo THEN "late" ELSE "nothing")
  /\ UNCHANGED <<dev, cs, job, off, time>>
poll(ready, tmo, next) ==
  /\ IF Elapsed < tmo THEN ready /\ next
     ELSE Fails("ERR_TIMEOUT", IF waited >= tmo THEN "late" ELSE "nothing")
  /\ UNCHANGED <<dev, cs, job, off, time>>

poll_initn_high(next) == poll(initn, TMO_INITN_MS, next)
poll_done_high(next) == poll(done, TMO_DONE_MS, next)

\* Mutant: any answer to the busy command ends the poll.
poll_busy_clear_answered(next) == poll(TRUE, TMO_BUSY_MS, next)
poll_busy_clear(next) == poll(~dev.busy, TMO_BUSY_MS, next)

-----------------------------------------------------------------------------
(* ecp5_sysconfig_program.                                                 *)

Call ==
  /\ pc = "idle"
  /\ job' \in Jobs
  /\ IF job'.len = 0 THEN Return("ERR_STATUS") ELSE Goto("programn")
  /\ off' = 0 /\ cause' = {}
  /\ UNCHANGED <<dev, cs, time>>

\* PROGRAMN goes low, and after a delay high again.
Programn ==
  /\ \/ pc = "programn" /\ dev' = ProgramnLow /\ Goto("release") /\ UNCHANGED time
     \/ pc = "release" /\ dev' = ProgramnHigh /\ Goto("initn") /\ StartPoll
  /\ UNCHANGED <<cs, job, off, cause>>

AwaitInitn == pc = "initn" /\ poll_initn_high(Succeeds("enable"))

Enable == pc = "enable" /\ cmd_write4("ISC_ENABLE", "enabling") /\ StartPoll

\* Mutant: goes on without the erase.
AwaitEnabledNoErase == pc = "enabling" /\ poll_busy_clear(Succeeds("init_addr"))
AwaitEnabled == pc = "enabling" /\ poll_busy_clear(Succeeds("erase"))

Erase == pc = "erase" /\ cmd_write4("ISC_ERASE", "erasing") /\ StartPoll
AwaitErased == pc = "erasing" /\ poll_busy_clear(Succeeds("init_addr"))

InitAddr ==
  pc = "init_addr" /\ cmd_write4("INIT_ADDR", "burst_cmd") /\ UNCHANGED time

\* The burst: the chip select stays down from the command to the last byte.
BurstCommand ==
  /\ pc = "burst_cmd"
  /\ \/ cs' = 0 /\ dev' = Received("BURST") /\ Succeeds("burst")
     \/ cs' = 1 /\ dev' \in {dev, Deselected(Received("BURST"))}
        /\ Fails("ERR_SPI", "spi")
  /\ UNCHANGED <<job, off, time>>

ChunkEnd ==
  IF job.len - off > BURST_CHUNK_BYTES THEN off + BURST_CHUNK_BYTES ELSE job.len

\* Mutant: the same chunk is sent again and again.
SendChunkAgain ==
  /\ pc = "burst" /\ off < job.len
  /\ dev' = ReceivedData(job.img, off, ChunkEnd, TRUE)
  /\ UNCHANGED <<pc, cs, job, off, rc, time, cause>>
SendChunk ==
  /\ pc = "burst" /\ off < job.len
  /\ \E intact \in BOOLEAN :
       /\ dev' = ReceivedData(job.img, off, ChunkEnd, intact)
       /\ cause' = IF intact THEN cause ELSE cause \union {"noise"}
  /\ off' = ChunkEnd
  /\ UNCHANGED <<pc, cs, job, rc, time>>

\* A chunk fails after some of its bytes.
\* Mutant: leaves the chip select down.
ChunkFailsSelected ==
  /\ pc = "burst" /\ off < job.len
  /\ \E sent \in off .. ChunkEnd : dev' = ReceivedData(job.img, off, sent, TRUE)
  /\ Fails("ERR_SPI", "spi")
  /\ UNCHANGED <<cs, job, off, time>>
ChunkFails ==
  /\ pc = "burst" /\ off < job.len
  /\ \E sent \in off .. ChunkEnd :
       dev' = Deselected(ReceivedData(job.img, off, sent, TRUE))
  /\ Fails("ERR_SPI", "spi")
  /\ cs' = 1
  /\ UNCHANGED <<job, off, time>>

BurstEnd ==
  /\ pc = "burst" /\ off >= job.len
  /\ cs' = 1 /\ dev' = Deselected(dev)
  /\ Succeeds("checking") /\ StartPoll
  /\ UNCHANGED <<job, off>>

AwaitChecked == pc = "checking" /\ poll_busy_clear(Succeeds("status"))

\* Mutant: does not look at the FAIL and error bits.
ReadStatusOnly ==
  /\ pc = "status"
  /\ Succeeds("disable") \/ Fails("ERR_SPI", "spi")
  /\ UNCHANGED <<dev, cs, job, off, time>>
ReadStatus ==
  /\ pc = "status"
  /\ \/ ~dev.fail /\ Succeeds("disable")
     \/ dev.fail /\ Return("ERR_STATUS") /\ UNCHANGED cause
     \/ Fails("ERR_SPI", "spi")
  /\ UNCHANGED <<dev, cs, job, off, time>>

Disable == pc = "disable" /\ cmd_write4("ISC_DISABLE", "done") /\ StartPoll

AwaitDone ==
  pc = "done" /\ poll_done_high(Return("OK") /\ UNCHANGED cause)

Step ==
  \/ Programn \/ AwaitInitn \/ Enable \/ AwaitEnabled \/ Erase \/ AwaitErased
  \/ InitAddr \/ BurstCommand \/ SendChunk \/ BurstEnd
  \/ AwaitChecked \/ ReadStatus \/ Disable \/ AwaitDone

\* The busy byte is read with a transfer of its own.  One that fails ends the
\* poll with ERR_SPI, of which the caller makes ERR_TIMEOUT.
BusyReadFails ==
  /\ pc \in {"enabling", "erasing", "checking"}
  /\ Elapsed < TMO_BUSY_MS
  /\ Fails("ERR_TIMEOUT", "spi")
  /\ UNCHANGED <<dev, cs, job, off, time>>

Polls == {"initn", "enabling", "erasing", "checking", "done"}

\* A millisecond passes.  A poll is not interrupted for as long as the counter
\* needs to come round (49 days).
Tick ==
  /\ pc \in Polls => Elapsed < MILLIS - 1
  /\ now' = (now + 1) % MILLIS
  /\ waited' = IF pc \in Polls THEN waited + 1 ELSE waited
  /\ UNCHANGED <<dev, pc, cs, job, off, rc, t0, cause>>

Device == DevStep /\ UNCHANGED <<pc, cs, job, off, rc, time, cause>>

Next == Call \/ Step \/ ChunkFails \/ BusyReadFails \/ Tick \/ Device

Spec == Init /\ [][Next]_vars

\* The processor runs and its clock advances: the board has overridden the weak
\* ecp5_millis(), which returns 0 for ever.  Nothing is assumed of the device,
\* nor that a transfer ever fails.
FairSpec == Spec /\ WF_vars(Step) /\ WF_vars(Tick)

-----------------------------------------------------------------------------
Codes == {"none", "OK", "ERR_TIMEOUT", "ERR_SPI", "ERR_STATUS"}
Labels == Polls \union
  {"idle", "programn", "release", "enable", "erase", "init_addr", "burst_cmd",
   "burst", "status", "disable"}

TypeOK ==
  /\ dev \in Dev
  /\ pc \in Labels /\ cs \in {0, 1} /\ job \in Jobs /\ off \in 0 .. MAXLEN
  /\ rc \in Codes
  /\ now \in 0 .. MILLIS - 1 /\ t0 \in 0 .. MILLIS - 1 /\ waited \in 0 .. MILLIS - 1
  /\ cause \subseteq {"spi", "noise", "late", "nothing"}

\* However a call ends, the chip select is up again, so that the next command
\* is not taken for the rest of a bitstream.
ChipSelectReleased == cs = 0 => pc = "burst"

\* No command ever meets a device that is busy with the one before or in the
\* wrong mode, whatever an earlier call that failed has left behind.
CommandsAreTaken == ~dev.ignored

\* ECP5_OK: the device runs, and holds this bitstream and no byte of another,
\* even if earlier calls loaded parts of a longer one.
OkMeansConfigured ==
  pc = "idle" /\ rc = "OK" => done /\ Holds(job.img, job.len)

\* A call fails only for a reason outside the code: ERR_TIMEOUT because the
\* device was really too slow or a transfer of the busy byte failed, ERR_SPI
\* because a transfer failed, ERR_STATUS because the stream was garbled or
\* empty.  Nothing that an earlier call left behind makes a call fail.
ErrorsHaveACause ==
  pc = "idle" =>
    /\ rc = "ERR_TIMEOUT" => cause \cap {"late", "spi"} # {}
    /\ rc = "ERR_SPI" => "spi" \in cause
    /\ rc = "ERR_STATUS" => job.len = 0 \/ "noise" \in cause

\* Every call returns, although the device may never answer.
CallReturns == pc # "idle" ~> pc = "idle"
=============================================================================
