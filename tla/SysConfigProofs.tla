--------------------------- MODULE SysConfigProofs ---------------------------
(***************************************************************************)
(* Loading a bitstream, for every chunk size, timeout, width of the clock  *)
(* and set of bitstreams: the chip select is released, every command is    *)
(* taken, OK means configured, and errors have a cause.                    *)
(***************************************************************************)
EXTENDS SysConfig, Integers, TLAPS

USE DeviceAssumption, SysConfigAssumption

-----------------------------------------------------------------------------
(* The inductive invariant: what the device is doing, and what it holds,   *)
(* at every statement of the function.                                     *)

Isc == {"enabling", "erase", "erasing", "init_addr", "burst_cmd", "burst",
        "checking", "status", "disable"}

\* The mode of the device, and what it is busy with.
DeviceInv ==
  /\ pc = "release" => dev.mode = "held" /\ ~dev.busy /\ ~dev.burst
  /\ pc = "initn" => dev.mode \in {"init", "ready"} /\ ~dev.busy /\ ~dev.burst
  /\ pc = "enable" => dev.mode = "ready" /\ ~dev.busy /\ ~dev.burst
  /\ pc \in Isc => /\ dev.mode = "isc"
                   /\ dev.burst <=> pc = "burst"
                   /\ pc \notin {"enabling", "erasing", "checking"} => ~dev.busy
  /\ pc = "done" => dev.mode \in {"wake", "user"} /\ ~dev.busy
  /\ pc = "idle" /\ rc = "OK" => dev.mode = "user"

\* The configuration memory: erased, filled from the front, complete.  The FAIL
\* bit is only worth something after the check of the burst.
ContentInv ==
  /\ pc \notin {"idle", "burst", "checking", "status", "disable", "done"} => off = 0
  /\ pc \in {"erasing", "init_addr", "burst_cmd"} => dev.sram = [k \in Cells |-> Blank]
  /\ pc = "burst_cmd" => dev.ptr = 0
  /\ pc = "burst" => /\ dev.ptr = off /\ off <= job.len
                     /\ dev.crc => Holds(job.img, off)
  /\ pc \in {"checking", "status"} => /\ dev.crc => Holds(job.img, job.len)
                                      /\ ~dev.busy => (dev.fail <=> ~dev.crc)
  /\ pc \in {"burst", "checking", "status"} => dev.crc \/ "noise" \in cause
  /\ pc \in {"disable", "done"} => Holds(job.img, job.len)
  /\ pc = "idle" /\ rc = "OK" => Holds(job.img, job.len)

\* The counter is where the poll started and has waited, modulo MILLIS.
ClockInv ==
  pc \in Polls =>
    now = IF t0 + waited < MILLIS THEN t0 + waited ELSE t0 + waited - MILLIS

IInv ==
  /\ TypeOK
  /\ cs = IF pc = "burst" THEN 0 ELSE 1
  /\ CommandsAreTaken
  /\ DeviceInv /\ ContentInv /\ ClockInv
  /\ ErrorsHaveACause

-----------------------------------------------------------------------------
(* The clock.                                                              *)

LEMMA Modulo ==
  ASSUME NEW d \in Nat \ {0}, NEW x \in Nat, x < 2 * d
  PROVE  x % d = IF x < d THEN x ELSE x - d
<1>1. x % d \in 0 .. d - 1 /\ x \div d \in Int /\ x = d * (x \div d) + (x % d)
  OBVIOUS
<1>2. ASSUME NEW q \in Int, NEW r \in 0 .. d - 1, x = d * q + r
      PROVE  q \in {0, 1}
  <2>1. q >= 2 => d * q >= 2 * d
    OBVIOUS
  <2>2. q <= -1 => d * q <= -d
    OBVIOUS
  <2>3. d * q \in Int
    OBVIOUS
  <2> QED
    BY <1>2, <2>1, <2>2, <2>3
<1> QED
  BY <1>1, <1>2

\* In a poll, the difference of the counters is the time that has passed.
LEMMA ElapsedIsWaited ==
  ASSUME TypeOK, ClockInv, pc \in Polls
  PROVE  Elapsed = waited
<1>1. /\ now \in 0 .. MILLIS - 1 /\ t0 \in 0 .. MILLIS - 1 /\ waited \in 0 .. MILLIS - 1
      /\ MILLIS \in Nat \ {0}
  BY DEF TypeOK
<1>2. now = IF t0 + waited < MILLIS THEN t0 + waited ELSE t0 + waited - MILLIS
  BY DEF ClockInv
<1> DEFINE x == now + (MILLIS - t0)
<1>3. x \in Nat /\ x < 2 * MILLIS
  BY <1>1
<1>4. x % MILLIS = IF x < MILLIS THEN x ELSE x - MILLIS
  <2> HIDE DEF x
  <2> QED
    BY <1>1, <1>3, Modulo
<1>5. (IF x < MILLIS THEN x ELSE x - MILLIS) = waited
  BY <1>1, <1>2
<1> QED
  BY <1>4, <1>5 DEF Elapsed

-----------------------------------------------------------------------------
(* What the device does with commands and data.                            *)

Ops == {"ISC_ENABLE", "ISC_ERASE", "INIT_ADDR", "BURST", "ISC_DISABLE"}

LEMMA CommandTaken ==
  ASSUME dev \in Dev, NEW op \in Ops, Takes(op)
  PROVE  /\ Received(op) \in Dev
         /\ Received(op).ignored = dev.ignored
         /\ op = "ISC_ENABLE" =>
              Received(op).mode = "isc" /\ ~Received(op).burst
         /\ op = "ISC_ERASE" =>
              /\ Received(op).mode = dev.mode /\ ~Received(op).burst
              /\ Received(op).sram = [k \in Cells |-> Blank]
         /\ op = "INIT_ADDR" =>
              /\ Received(op).mode = dev.mode /\ ~Received(op).burst
              /\ ~Received(op).busy /\ Received(op).sram = dev.sram
              /\ Received(op).ptr = 0
         /\ op = "BURST" =>
              /\ Received(op).mode = dev.mode /\ Received(op).burst
              /\ ~Received(op).busy /\ Received(op).sram = dev.sram
              /\ Received(op).ptr = dev.ptr /\ Received(op).crc
         /\ op = "ISC_DISABLE" =>
              /\ Received(op).mode = "wake"
              /\ ~Received(op).busy /\ Received(op).sram = dev.sram
<1>1. [k \in Cells |-> Blank] \in [Cells -> Content]
  BY DEF Content
<1>2. Received(op) = Effect(op)
  BY DEF Received
<1>3. CASE op = "ISC_ENABLE"
  BY <1>2, <1>3 DEF Effect, Dev, Takes
<1>4. CASE op = "ISC_ERASE"
  BY <1>1, <1>2, <1>4 DEF Effect, Dev, Takes
<1>5. CASE op = "INIT_ADDR"
  BY <1>2, <1>5 DEF Effect, Dev, Takes
<1>6. CASE op = "BURST"
  BY <1>2, <1>6 DEF Effect, Dev, Takes
<1>7. CASE op = "ISC_DISABLE"
  BY <1>2, <1>7 DEF Effect, Dev, Takes
<1> QED
  BY <1>3, <1>4, <1>5, <1>6, <1>7 DEF Ops

\* The bytes that follow those the device has.
LEMMA DataTaken ==
  ASSUME dev \in Dev, dev.burst, NEW img \in Images,
         NEW lo \in 0 .. MAXLEN, NEW hi \in lo .. MAXLEN, dev.ptr = lo,
         NEW intact \in BOOLEAN,
         NEW d, d = ReceivedData(img, lo, hi, intact)
  PROVE  /\ d \in Dev
         /\ d.mode = dev.mode /\ d.busy = dev.busy /\ d.burst /\ d.fail = dev.fail
         /\ d.ignored = dev.ignored
         /\ d.ptr = hi
         /\ d.crc <=> dev.crc /\ intact
         /\ intact /\ Holds(img, lo) =>
              \A k \in Cells : d.sram[k] = IF k < hi THEN ImageByte(img, k) ELSE Blank
<1> DEFINE Byte(k) == IF intact THEN ImageByte(img, lo + (k - lo)) ELSE Garbled
           sram == [k \in Cells |-> IF k \in lo .. hi - 1 THEN Byte(k) ELSE dev.sram[k]]
           crc == dev.crc /\ intact
<1>1. lo + (hi - lo) = hi
  OBVIOUS
<1>2. d = [dev EXCEPT !.sram = sram, !.ptr = IF hi < MAXLEN THEN hi ELSE MAXLEN,
                      !.crc = crc]
  BY <1>1 DEF ReceivedData
<1>3. \A k \in Cells : k \in lo .. hi - 1 => Byte(k) \in Content
  <2> SUFFICES ASSUME NEW k \in Cells PROVE Byte(k) \in Content
    OBVIOUS
  <2>1. lo + (k - lo) = k
    BY DEF Cells
  <2> QED
    BY <2>1 DEF Content
<1>4. sram \in [Cells -> Content]
  <2>1. dev.sram \in [Cells -> Content]
    BY DEF Dev
  <2> QED
    BY <1>3, <2>1
<1>5. (IF hi < MAXLEN THEN hi ELSE MAXLEN) = hi /\ hi \in 0 .. MAXLEN
  OBVIOUS
<1>6. intact /\ Holds(img, lo) =>
        \A k \in Cells : sram[k] = IF k < hi THEN ImageByte(img, k) ELSE Blank
  <2> SUFFICES ASSUME intact, Holds(img, lo), NEW k \in Cells
               PROVE  sram[k] = IF k < hi THEN ImageByte(img, k) ELSE Blank
    OBVIOUS
  <2>1. lo + (k - lo) = k /\ k \in Nat
    BY DEF Cells
  <2> QED
    BY <2>1 DEF Holds
<1>7. crc \in BOOLEAN /\ (crc <=> dev.crc /\ intact)
  OBVIOUS
<1> HIDE DEF sram, Byte, crc
<1>8. d = [dev EXCEPT !.sram = sram, !.ptr = hi, !.crc = crc]
  BY <1>2, <1>5
<1>9. d \in Dev /\ d.sram = sram /\ d.ptr = hi /\ d.crc = crc
  BY <1>4, <1>5, <1>7, <1>8 DEF Dev
<1>10. /\ d.mode = dev.mode /\ d.busy = dev.busy /\ d.burst /\ d.fail = dev.fail
       /\ d.ignored = dev.ignored
  BY <1>8 DEF Dev
<1> QED
  BY <1>6, <1>7, <1>9, <1>10

LEMMA DeselectedType ==
  ASSUME NEW d \in Dev
  PROVE  /\ Deselected(d) \in Dev
         /\ Deselected(d).ignored = d.ignored
         /\ d.burst => /\ Deselected(d).mode = d.mode /\ ~Deselected(d).burst
                       /\ Deselected(d).busy /\ Deselected(d).sram = d.sram
                       /\ Deselected(d).crc = d.crc
BY DEF Deselected, Dev

-----------------------------------------------------------------------------
(* The steps.                                                              *)

Causes == {"spi", "noise", "late", "nothing"}

LEMMA InitHolds == Init => IInv
<1> SUFFICES ASSUME Init PROVE IInv
  OBVIOUS
<1>1. dev \in Dev /\ ~dev.ignored
  <2>1. [k \in Cells |-> Blank] \in [Cells -> Content]
    BY DEF Content
  <2> QED
    BY <2>1 DEF Init, DevInit, Dev
<1> QED
  BY <1>1 DEF Init, IInv, TypeOK, CommandsAreTaken, DeviceInv, ContentInv, ClockInv,
              ErrorsHaveACause, Isc, Polls, Labels, Codes

\* A call that fails leaves nothing to be shown but that the failure has a cause.
LEMMA Failed ==
  ASSUME IInv, pc' = "idle", rc' \in {"ERR_TIMEOUT", "ERR_SPI", "ERR_STATUS"},
         cs' = 1, dev' \in Dev, ~dev'.ignored, job' \in Jobs, off' \in 0 .. MAXLEN,
         now' \in 0 .. MILLIS - 1, t0' \in 0 .. MILLIS - 1, waited' \in 0 .. MILLIS - 1,
         cause' \subseteq Causes, ErrorsHaveACause'
  PROVE  IInv'
BY DEF IInv, TypeOK, CommandsAreTaken, DeviceInv, ContentInv, ClockInv, Isc, Polls,
       Codes, Labels, Causes

\* A poll that runs out of time.
LEMMA PollFails ==
  ASSUME IInv, pc \in Polls, NEW tmo \in Nat, ~(Elapsed < tmo),
         Fails("ERR_TIMEOUT", IF waited >= tmo THEN "late" ELSE "nothing"),
         UNCHANGED <<dev, cs, job, off, time>>
  PROVE  IInv'
<1>1. waited >= tmo
  BY ElapsedIsWaited DEF IInv, TypeOK
<1>2. pc' = "idle" /\ rc' = "ERR_TIMEOUT" /\ cause' = cause \union {"late"}
  BY <1>1 DEF Fails, Return
<1>3. /\ cs' = 1 /\ dev' \in Dev /\ ~dev'.ignored /\ job' \in Jobs /\ off' \in 0 .. MAXLEN
      /\ now' \in 0 .. MILLIS - 1 /\ t0' \in 0 .. MILLIS - 1 /\ waited' \in 0 .. MILLIS - 1
  BY DEF IInv, TypeOK, CommandsAreTaken, Polls, time
<1>4. cause' \subseteq Causes /\ ErrorsHaveACause'
  BY <1>2 DEF IInv, TypeOK, ErrorsHaveACause, Causes
<1> QED
  BY <1>2, <1>3, <1>4, Failed

LEMMA TimeoutsAreNumbers ==
  /\ TMO_INITN_MS \in Nat /\ TMO_BUSY_MS \in Nat /\ TMO_DONE_MS \in Nat
  /\ MILLIS \in Nat /\ MILLIS > 1
OBVIOUS

\* A command that fails, or starts the poll behind it.
LEMMA ClockStarts ==
  ASSUME TypeOK, StartPoll
  PROVE  /\ now' \in 0 .. MILLIS - 1 /\ t0' \in 0 .. MILLIS - 1
         /\ waited' \in 0 .. MILLIS - 1 /\ ClockInv'
BY TimeoutsAreNumbers DEF TypeOK, StartPoll, ClockInv

LEMMA CommandFails ==
  ASSUME IInv, NEW op \in Ops, Takes(op), pc # "burst",
         dev' \in {dev, Received(op)}, Fails("ERR_SPI", "spi"),
         UNCHANGED <<cs, job, off>>,
         now' \in 0 .. MILLIS - 1, t0' \in 0 .. MILLIS - 1, waited' \in 0 .. MILLIS - 1
  PROVE  IInv'
<1>1. pc' = "idle" /\ rc' = "ERR_SPI" /\ cause' = cause \union {"spi"}
  BY DEF Fails, Return
<1>2. dev' \in Dev /\ ~dev'.ignored
  BY CommandTaken DEF IInv, TypeOK, CommandsAreTaken
<1>3. cs' = 1 /\ job' \in Jobs /\ off' \in 0 .. MAXLEN
  BY DEF IInv, TypeOK
<1>4. cause' \subseteq Causes /\ ErrorsHaveACause'
  BY <1>1 DEF IInv, TypeOK, ErrorsHaveACause, Causes
<1> QED
  BY <1>1, <1>2, <1>3, <1>4, Failed

-----------------------------------------------------------------------------
LEMMA CallStep == IInv /\ Call => IInv'
<1> SUFFICES ASSUME IInv, Call PROVE IInv'
  OBVIOUS
<1>1. /\ pc = "idle" /\ cs' = 1 /\ dev' = dev /\ job' \in Jobs /\ off' = 0 /\ cause' = {}
      /\ now' = now /\ t0' = t0 /\ waited' = waited
  BY DEF Call, IInv, time
<1>2. CASE job'.len = 0
  <2>1. pc' = "idle" /\ rc' = "ERR_STATUS"
    BY <1>2 DEF Call, Return
  <2>2. ErrorsHaveACause'
    BY <1>2, <2>1 DEF ErrorsHaveACause
  <2> QED
    BY <1>1, <2>1, <2>2, Failed DEF IInv, TypeOK, CommandsAreTaken, Causes
<1>3. CASE job'.len # 0
  <2>1. pc' = "programn" /\ rc' = rc
    BY <1>3 DEF Call, Goto
  <2> QED
    BY <1>1, <2>1 DEF IInv, TypeOK, CommandsAreTaken, DeviceInv, ContentInv, ClockInv,
       ErrorsHaveACause, Isc, Polls, Labels, Codes
<1> QED
  BY <1>2, <1>3

LEMMA ProgramnStep == IInv /\ Programn => IInv'
<1> SUFFICES ASSUME IInv, Programn PROVE IInv'
  OBVIOUS
<1>1. CASE pc = "programn"
  <2>1. /\ pc' = "release" /\ dev' = ProgramnLow /\ UNCHANGED time
        /\ UNCHANGED <<cs, job, off, rc, cause>>
    BY <1>1 DEF Programn, Goto
  <2>2. dev' \in Dev /\ ~dev'.ignored /\ dev'.mode = "held" /\ ~dev'.busy /\ ~dev'.burst
    BY <2>1 DEF ProgramnLow, Dev, IInv, TypeOK, CommandsAreTaken
  <2> QED
    BY <1>1, <2>1, <2>2 DEF IInv, TypeOK, CommandsAreTaken, DeviceInv, ContentInv,
       ClockInv, ErrorsHaveACause, Isc, Polls, Labels, time
<1>2. CASE pc = "release"
  <2>1. /\ pc' = "initn" /\ dev' = ProgramnHigh /\ StartPoll
        /\ UNCHANGED <<cs, job, off, rc, cause>>
    BY <1>2 DEF Programn, Goto
  <2>2. dev' \in Dev /\ ~dev'.ignored /\ dev'.mode = "init" /\ ~dev'.busy /\ ~dev'.burst
    BY <1>2, <2>1 DEF ProgramnHigh, Dev, IInv, TypeOK, CommandsAreTaken, DeviceInv
  <2>3. /\ now' \in 0 .. MILLIS - 1 /\ t0' \in 0 .. MILLIS - 1
        /\ waited' \in 0 .. MILLIS - 1 /\ ClockInv'
    BY <2>1, ClockStarts DEF IInv
  <2> QED
    BY <1>2, <2>1, <2>2, <2>3 DEF IInv, TypeOK, CommandsAreTaken, DeviceInv, ContentInv,
       ErrorsHaveACause, Isc, Labels, Polls
<1> QED
  BY <1>1, <1>2 DEF Programn

LEMMA AwaitInitnStep == IInv /\ AwaitInitn => IInv'
<1> SUFFICES ASSUME IInv, AwaitInitn PROVE IInv'
  OBVIOUS
<1>1. pc = "initn" /\ UNCHANGED <<dev, cs, job, off, time>>
  BY DEF AwaitInitn, poll_initn_high, poll
<1>2. CASE Elapsed < TMO_INITN_MS
  <2>1. initn /\ pc' = "enable" /\ UNCHANGED <<rc, cause>>
    BY <1>2 DEF AwaitInitn, poll_initn_high, poll, Succeeds, Goto
  <2> QED
    BY <1>1, <2>1 DEF IInv, TypeOK, CommandsAreTaken, DeviceInv, ContentInv, ClockInv,
       ErrorsHaveACause, Isc, Polls, Labels, time, initn
<1>3. CASE ~(Elapsed < TMO_INITN_MS)
  BY <1>1, <1>3, PollFails, TimeoutsAreNumbers
     DEF AwaitInitn, poll_initn_high, poll, Polls
<1> QED
  BY <1>2, <1>3

\* The polls of the busy command: those behind ISC_ENABLE, ISC_ERASE and the burst.
LEMMA BusyPollStep ==
  ASSUME IInv, pc \in {"enabling", "erasing", "checking"},
         NEW next, next = IF pc = "enabling" THEN "erase"
                          ELSE IF pc = "erasing" THEN "init_addr" ELSE "status",
         poll_busy_clear(Succeeds(next))
  PROVE  IInv'
<1>1. UNCHANGED <<dev, cs, job, off, time>>
  BY DEF poll_busy_clear, poll
<1>2. CASE Elapsed < TMO_BUSY_MS
  <2>1. ~dev.busy /\ pc' = next /\ UNCHANGED <<rc, cause>>
    BY <1>2 DEF poll_busy_clear, poll, Succeeds, Goto
  <2> QED
    BY <1>1, <2>1 DEF IInv, TypeOK, CommandsAreTaken, DeviceInv, ContentInv, ClockInv,
       ErrorsHaveACause, Isc, Polls, Labels, time, Holds
<1>3. CASE ~(Elapsed < TMO_BUSY_MS)
  BY <1>1, <1>3, PollFails, TimeoutsAreNumbers DEF poll_busy_clear, poll, Polls
<1> QED
  BY <1>2, <1>3

LEMMA AwaitBusyStep == IInv /\ (AwaitEnabled \/ AwaitErased \/ AwaitChecked) => IInv'
BY BusyPollStep DEF AwaitEnabled, AwaitErased, AwaitChecked

LEMMA EnableStep == IInv /\ Enable => IInv'
<1> SUFFICES ASSUME IInv, Enable PROVE IInv'
  OBVIOUS
<1>1. pc = "enable" /\ Takes("ISC_ENABLE") /\ UNCHANGED <<cs, job, off>>
  BY DEF Enable, cmd_write4, IInv, DeviceInv, Takes
<1>2. /\ now' \in 0 .. MILLIS - 1 /\ t0' \in 0 .. MILLIS - 1
      /\ waited' \in 0 .. MILLIS - 1 /\ ClockInv'
  BY ClockStarts DEF Enable, IInv
<1>3. CASE dev' = Received("ISC_ENABLE") /\ Succeeds("enabling")
  <2>1. /\ dev' \in Dev /\ ~dev'.ignored /\ dev'.mode = "isc" /\ ~dev'.burst
    BY <1>1, <1>3, CommandTaken DEF IInv, TypeOK, CommandsAreTaken, Ops
  <2> QED
    BY <1>1, <1>2, <1>3, <2>1 DEF Succeeds, Goto, IInv, TypeOK, CommandsAreTaken,
       DeviceInv, ContentInv, ErrorsHaveACause, Isc, Polls, Labels
<1>4. CASE dev' \in {dev, Received("ISC_ENABLE")} /\ Fails("ERR_SPI", "spi")
  BY <1>1, <1>2, <1>4, CommandFails DEF Ops
<1> QED
  BY <1>3, <1>4 DEF Enable, cmd_write4

LEMMA EraseStep == IInv /\ Erase => IInv'
<1> SUFFICES ASSUME IInv, Erase PROVE IInv'
  OBVIOUS
<1>1. /\ pc = "erase" /\ Takes("ISC_ERASE") /\ UNCHANGED <<cs, job, off>>
      /\ dev.mode = "isc"
  BY DEF Erase, cmd_write4, IInv, DeviceInv, Takes, Isc
<1>2. /\ now' \in 0 .. MILLIS - 1 /\ t0' \in 0 .. MILLIS - 1
      /\ waited' \in 0 .. MILLIS - 1 /\ ClockInv'
  BY ClockStarts DEF Erase, IInv
<1>3. CASE dev' = Received("ISC_ERASE") /\ Succeeds("erasing")
  <2>1. /\ dev' \in Dev /\ ~dev'.ignored /\ dev'.mode = "isc" /\ ~dev'.burst
        /\ dev'.sram = [k \in Cells |-> Blank]
    BY <1>1, <1>3, CommandTaken DEF IInv, TypeOK, CommandsAreTaken, Ops
  <2> QED
    BY <1>1, <1>2, <1>3, <2>1 DEF Succeeds, Goto, IInv, TypeOK, CommandsAreTaken,
       DeviceInv, ContentInv, ErrorsHaveACause, Isc, Polls, Labels
<1>4. CASE dev' \in {dev, Received("ISC_ERASE")} /\ Fails("ERR_SPI", "spi")
  BY <1>1, <1>2, <1>4, CommandFails DEF Ops
<1> QED
  BY <1>3, <1>4 DEF Erase, cmd_write4

LEMMA InitAddrStep == IInv /\ InitAddr => IInv'
<1> SUFFICES ASSUME IInv, InitAddr PROVE IInv'
  OBVIOUS
<1>1. /\ pc = "init_addr" /\ Takes("INIT_ADDR") /\ UNCHANGED <<cs, job, off, time>>
      /\ dev.mode = "isc"
  BY DEF InitAddr, cmd_write4, IInv, DeviceInv, Takes, Isc
<1>2. CASE dev' = Received("INIT_ADDR") /\ Succeeds("burst_cmd")
  <2>1. /\ dev' \in Dev /\ ~dev'.ignored /\ dev'.mode = "isc" /\ ~dev'.burst /\ ~dev'.busy
        /\ dev'.sram = dev.sram /\ dev'.ptr = 0
    BY <1>1, <1>2, CommandTaken DEF IInv, TypeOK, CommandsAreTaken, Ops
  <2> QED
    BY <1>1, <1>2, <2>1 DEF Succeeds, Goto, IInv, TypeOK, CommandsAreTaken, DeviceInv,
       ContentInv, ClockInv, ErrorsHaveACause, Isc, Polls, Labels, time
<1>3. CASE dev' \in {dev, Received("INIT_ADDR")} /\ Fails("ERR_SPI", "spi")
  BY <1>1, <1>3, CommandFails DEF Ops, IInv, TypeOK, time
<1> QED
  BY <1>2, <1>3 DEF InitAddr, cmd_write4

LEMMA BurstCommandStep == IInv /\ BurstCommand => IInv'
<1> SUFFICES ASSUME IInv, BurstCommand PROVE IInv'
  OBVIOUS
<1>1. /\ pc = "burst_cmd" /\ Takes("BURST") /\ UNCHANGED <<job, off, time>>
      /\ dev.mode = "isc" /\ off \in 0 .. MAXLEN
  BY DEF BurstCommand, IInv, TypeOK, DeviceInv, Takes, Isc
<1>2. /\ Received("BURST") \in Dev /\ ~Received("BURST").ignored
      /\ Received("BURST").mode = "isc" /\ Received("BURST").burst
      /\ ~Received("BURST").busy /\ Received("BURST").sram = dev.sram
      /\ Received("BURST").ptr = dev.ptr /\ Received("BURST").crc
  BY <1>1, CommandTaken DEF IInv, TypeOK, CommandsAreTaken, Ops
<1>3. CASE cs' = 0 /\ dev' = Received("BURST") /\ Succeeds("burst")
  <2>1. pc' = "burst" /\ UNCHANGED <<rc, cause>>
    BY <1>3 DEF Succeeds, Goto
  <2>2. ContentInv'
    <3>1. dev'.ptr = 0 /\ dev'.sram = [k \in Cells |-> Blank] /\ off' = 0
      BY <1>1, <1>2, <1>3 DEF IInv, ContentInv
    <3>2. 0 <= job'.len /\ Holds(job.img, 0)'
      BY <1>1, <3>1 DEF Holds, Cells, IInv, TypeOK, Jobs
    <3> QED
      BY <1>2, <1>3, <2>1, <3>1, <3>2 DEF ContentInv
  <2> QED
    BY <1>1, <1>2, <1>3, <2>1, <2>2 DEF IInv, TypeOK, CommandsAreTaken, DeviceInv,
       ClockInv, ErrorsHaveACause, Isc, Polls, Labels, time
<1>4. CASE /\ cs' = 1 /\ dev' \in {dev, Deselected(Received("BURST"))}
           /\ Fails("ERR_SPI", "spi")
  <2>1. pc' = "idle" /\ rc' = "ERR_SPI" /\ cause' = cause \union {"spi"}
    BY <1>4 DEF Fails, Return
  <2>2. dev' \in Dev /\ ~dev'.ignored
    BY <1>2, <1>4, DeselectedType DEF IInv, TypeOK, CommandsAreTaken
  <2>3. cause' \subseteq Causes /\ ErrorsHaveACause'
    BY <2>1 DEF IInv, TypeOK, ErrorsHaveACause, Causes
  <2> QED
    BY <1>1, <1>4, <2>1, <2>2, <2>3, Failed DEF IInv, TypeOK, time
<1> QED
  BY <1>3, <1>4 DEF BurstCommand

\* The next chunk of a burst.
LEMMA ChunkInRange ==
  ASSUME TypeOK, off < job.len
  PROVE  ChunkEnd \in off .. MAXLEN /\ ChunkEnd <= job.len
<1>1. off \in Nat /\ job.len \in 0 .. MAXLEN /\ BURST_CHUNK_BYTES \in Nat
  BY DEF TypeOK, Jobs
<1> QED
  BY <1>1 DEF ChunkEnd

LEMMA SendChunkStep == IInv /\ SendChunk => IInv'
<1> SUFFICES ASSUME IInv, SendChunk PROVE IInv'
  OBVIOUS
<1>1. /\ pc = "burst" /\ off' = ChunkEnd /\ UNCHANGED <<pc, cs, job, rc, time>>
      /\ dev \in Dev /\ dev.burst /\ dev.ptr = off /\ off \in 0 .. MAXLEN
      /\ job.img \in Images /\ cs = 0 /\ dev.mode = "isc" /\ ~dev.busy
  BY DEF SendChunk, IInv, TypeOK, DeviceInv, ContentInv, Isc, Jobs
<1>2. ChunkEnd \in off .. MAXLEN /\ ChunkEnd <= job.len
  BY ChunkInRange DEF SendChunk, IInv
<1>3. PICK intact \in BOOLEAN :
        /\ dev' = ReceivedData(job.img, off, ChunkEnd, intact)
        /\ cause' = IF intact THEN cause ELSE cause \union {"noise"}
  BY DEF SendChunk
<1>4. /\ dev' \in Dev /\ dev'.ptr = ChunkEnd /\ dev'.mode = "isc" /\ ~dev'.busy
      /\ dev'.burst /\ dev'.ignored = dev.ignored /\ (dev'.crc <=> dev.crc /\ intact)
      /\ intact /\ Holds(job.img, off) =>
           \A k \in Cells :
             dev'.sram[k] = IF k < ChunkEnd THEN ImageByte(job.img, k) ELSE Blank
  BY <1>1, <1>2, <1>3, DataTaken
<1>5. ContentInv'
  <2>1. dev'.crc => Holds(job.img, off)'
    BY <1>1, <1>4 DEF IInv, ContentInv, Holds
  <2>2. dev'.crc \/ "noise" \in cause'
    BY <1>1, <1>3, <1>4 DEF IInv, ContentInv
  <2> QED
    BY <1>1, <1>2, <1>4, <2>1, <2>2 DEF ContentInv
<1>6. off' \in 0 .. MAXLEN /\ cause' \subseteq Causes
  BY <1>1, <1>2, <1>3 DEF IInv, TypeOK, Causes
<1> QED
  BY <1>1, <1>4, <1>5, <1>6 DEF IInv, TypeOK, CommandsAreTaken, DeviceInv, ClockInv,
     ErrorsHaveACause, Isc, Polls, Labels, Causes, time

LEMMA ChunkFailsStep == IInv /\ ChunkFails => IInv'
<1> SUFFICES ASSUME IInv, ChunkFails PROVE IInv'
  OBVIOUS
<1>1. /\ dev \in Dev /\ dev.burst /\ dev.ptr = off /\ off \in 0 .. MAXLEN
      /\ job.img \in Images /\ UNCHANGED <<job, off, time>> /\ cs' = 1
  BY DEF ChunkFails, IInv, TypeOK, DeviceInv, ContentInv, Isc, Jobs
<1>2. ChunkEnd \in off .. MAXLEN /\ ChunkEnd <= job.len
  BY ChunkInRange DEF ChunkFails, IInv
<1>3. PICK sent \in off .. ChunkEnd, intact \in BOOLEAN :
        dev' = Deselected(ReceivedData(job.img, off, sent, intact))
  BY DEF ChunkFails
<1>4. sent \in off .. MAXLEN
  BY <1>1, <1>2, <1>3
<1>5. PICK d : d = ReceivedData(job.img, off, sent, intact)
  OBVIOUS
<1>6. dev' \in Dev /\ ~dev'.ignored
  <2>1. d \in Dev /\ d.ignored = dev.ignored
    BY <1>1, <1>4, <1>5, DataTaken
  <2>2. dev' = Deselected(d)
    BY <1>3, <1>5
  <2> QED
    BY <2>1, <2>2, DeselectedType DEF IInv, CommandsAreTaken
<1>7. pc' = "idle" /\ rc' = "ERR_SPI" /\ cause' = cause \union {"spi"}
  BY DEF ChunkFails, Fails, Return
<1>8. cause' \subseteq Causes /\ ErrorsHaveACause'
  BY <1>7 DEF IInv, TypeOK, ErrorsHaveACause, Causes
<1> QED
  BY <1>1, <1>6, <1>7, <1>8, Failed DEF IInv, TypeOK, time

LEMMA BurstEndStep == IInv /\ BurstEnd => IInv'
<1> SUFFICES ASSUME IInv, BurstEnd PROVE IInv'
  OBVIOUS
<1>1. /\ pc = "burst" /\ pc' = "checking" /\ cs' = 1 /\ dev' = Deselected(dev)
      /\ UNCHANGED <<job, off, rc, cause>> /\ off >= job.len
  BY DEF BurstEnd, Succeeds, Goto
<1>2. dev \in Dev /\ dev.burst /\ dev.mode = "isc" /\ off = job.len
  BY <1>1 DEF IInv, TypeOK, DeviceInv, ContentInv, Isc, Jobs
<1>3. /\ dev' \in Dev /\ dev'.ignored = dev.ignored /\ dev'.mode = "isc"
      /\ ~dev'.burst /\ dev'.busy /\ dev'.sram = dev.sram /\ dev'.crc = dev.crc
  BY <1>1, <1>2, DeselectedType
<1>4. /\ now' \in 0 .. MILLIS - 1 /\ t0' \in 0 .. MILLIS - 1
      /\ waited' \in 0 .. MILLIS - 1 /\ ClockInv'
  BY ClockStarts DEF BurstEnd, IInv
<1>5. ContentInv'
  BY <1>1, <1>2, <1>3 DEF IInv, ContentInv, Holds
<1> QED
  BY <1>1, <1>3, <1>4, <1>5 DEF IInv, TypeOK, CommandsAreTaken, DeviceInv,
     ErrorsHaveACause, Isc, Labels, Polls

LEMMA ReadStatusStep == IInv /\ ReadStatus => IInv'
<1> SUFFICES ASSUME IInv, ReadStatus PROVE IInv'
  OBVIOUS
<1>1. pc = "status" /\ UNCHANGED <<dev, cs, job, off, time>> /\ cs = 1
  BY DEF ReadStatus, IInv
<1>2. CASE ~dev.fail /\ Succeeds("disable")
  <2>1. pc' = "disable" /\ UNCHANGED <<rc, cause>>
    BY <1>2 DEF Succeeds, Goto
  <2>2. Holds(job.img, job.len)' /\ ~dev.busy
    BY <1>1, <1>2 DEF IInv, DeviceInv, ContentInv, Isc, Holds
  <2> QED
    BY <1>1, <2>1, <2>2 DEF IInv, TypeOK, CommandsAreTaken, DeviceInv, ContentInv,
       ClockInv, ErrorsHaveACause, Isc, Polls, Labels, time
<1>3. CASE dev.fail /\ Return("ERR_STATUS") /\ UNCHANGED cause
  <2>1. pc' = "idle" /\ rc' = "ERR_STATUS" /\ "noise" \in cause'
    BY <1>1, <1>3 DEF Return, IInv, DeviceInv, ContentInv, Isc
  <2>2. cause' \subseteq Causes /\ ErrorsHaveACause'
    BY <1>3, <2>1 DEF IInv, TypeOK, ErrorsHaveACause, Causes
  <2> QED
    BY <1>1, <2>1, <2>2, Failed DEF IInv, TypeOK, CommandsAreTaken, time
<1>4. CASE Fails("ERR_SPI", "spi")
  <2>1. pc' = "idle" /\ rc' = "ERR_SPI" /\ cause' = cause \union {"spi"}
    BY <1>4 DEF Fails, Return
  <2>2. cause' \subseteq Causes /\ ErrorsHaveACause'
    BY <2>1 DEF IInv, TypeOK, ErrorsHaveACause, Causes
  <2> QED
    BY <1>1, <2>1, <2>2, Failed DEF IInv, TypeOK, CommandsAreTaken, time
<1> QED
  BY <1>2, <1>3, <1>4 DEF ReadStatus

LEMMA DisableStep == IInv /\ Disable => IInv'
<1> SUFFICES ASSUME IInv, Disable PROVE IInv'
  OBVIOUS
<1>1. /\ pc = "disable" /\ Takes("ISC_DISABLE") /\ UNCHANGED <<cs, job, off>>
  BY DEF Disable, cmd_write4, IInv, DeviceInv, Takes, Isc
<1>2. /\ now' \in 0 .. MILLIS - 1 /\ t0' \in 0 .. MILLIS - 1
      /\ waited' \in 0 .. MILLIS - 1 /\ ClockInv'
  BY ClockStarts DEF Disable, IInv
<1>3. CASE dev' = Received("ISC_DISABLE") /\ Succeeds("done")
  <2>1. /\ dev' \in Dev /\ ~dev'.ignored /\ dev'.mode = "wake" /\ ~dev'.busy
        /\ dev'.sram = dev.sram
    BY <1>1, <1>3, CommandTaken DEF IInv, TypeOK, CommandsAreTaken, Ops, Takes
  <2>2. Holds(job.img, job.len)'
    BY <1>1, <2>1 DEF IInv, ContentInv, Holds
  <2> QED
    BY <1>1, <1>2, <1>3, <2>1, <2>2 DEF Succeeds, Goto, IInv, TypeOK, CommandsAreTaken,
       DeviceInv, ContentInv, ErrorsHaveACause, Isc, Polls, Labels
<1>4. CASE dev' \in {dev, Received("ISC_DISABLE")} /\ Fails("ERR_SPI", "spi")
  BY <1>1, <1>2, <1>4, CommandFails DEF Ops
<1> QED
  BY <1>3, <1>4 DEF Disable, cmd_write4

LEMMA AwaitDoneStep == IInv /\ AwaitDone => IInv'
<1> SUFFICES ASSUME IInv, AwaitDone PROVE IInv'
  OBVIOUS
<1>1. pc = "done" /\ UNCHANGED <<dev, cs, job, off, time>>
  BY DEF AwaitDone, poll_done_high, poll
<1>2. CASE Elapsed < TMO_DONE_MS
  <2>1. done /\ pc' = "idle" /\ rc' = "OK" /\ UNCHANGED cause
    BY <1>2 DEF AwaitDone, poll_done_high, poll, Return
  <2>2. Holds(job.img, job.len)' /\ dev'.mode = "user"
    BY <1>1, <2>1 DEF IInv, ContentInv, Holds, done
  <2> QED
    BY <1>1, <2>1, <2>2 DEF IInv, TypeOK, CommandsAreTaken, DeviceInv, ContentInv,
       ClockInv, ErrorsHaveACause, Isc, Polls, Labels, Codes, time
<1>3. CASE ~(Elapsed < TMO_DONE_MS)
  BY <1>1, <1>3, PollFails, TimeoutsAreNumbers
     DEF AwaitDone, poll_done_high, poll, Polls
<1> QED
  BY <1>2, <1>3

LEMMA BusyReadFailsStep == IInv /\ BusyReadFails => IInv'
<1> SUFFICES ASSUME IInv, BusyReadFails PROVE IInv'
  OBVIOUS
<1>1. /\ pc' = "idle" /\ rc' = "ERR_TIMEOUT" /\ cause' = cause \union {"spi"}
      /\ UNCHANGED <<dev, cs, job, off, time>> /\ cs = 1
  BY DEF BusyReadFails, Fails, Return, IInv
<1>2. cause' \subseteq Causes /\ ErrorsHaveACause'
  BY <1>1 DEF IInv, TypeOK, ErrorsHaveACause, Causes
<1> QED
  BY <1>1, <1>2, Failed DEF IInv, TypeOK, CommandsAreTaken, time

LEMMA TickStep == IInv /\ Tick => IInv'
<1> SUFFICES ASSUME IInv, Tick PROVE IInv'
  OBVIOUS
<1>1. /\ UNCHANGED <<dev, pc, cs, job, off, rc, t0, cause>>
      /\ now' = (now + 1) % MILLIS
      /\ waited' = IF pc \in Polls THEN waited + 1 ELSE waited
  BY DEF Tick
<1>2. /\ now \in 0 .. MILLIS - 1 /\ t0 \in 0 .. MILLIS - 1
      /\ waited \in 0 .. MILLIS - 1 /\ MILLIS \in Nat \ {0}
  BY DEF IInv, TypeOK
<1>3. now' = IF now + 1 < MILLIS THEN now + 1 ELSE now + 1 - MILLIS
  <2> DEFINE x == now + 1
  <2>1. x = now + 1 /\ x \in Nat /\ x < 2 * MILLIS
    BY <1>2
  <2> HIDE DEF x
  <2>2. x % MILLIS = IF x < MILLIS THEN x ELSE x - MILLIS
    BY <1>2, <2>1, Modulo
  <2>3. now' = x % MILLIS
    BY <1>1, <2>1
  <2> QED
    BY <1>2, <2>1, <2>2, <2>3
<1>4. now' \in 0 .. MILLIS - 1
  BY <1>2, <1>3
<1>5. waited' \in 0 .. MILLIS - 1
  <2>1. pc \in Polls => waited < MILLIS - 1
    BY ElapsedIsWaited DEF Tick, IInv
  <2> QED
    BY <1>1, <1>2, <2>1
<1>6. ClockInv'
  <2> SUFFICES ASSUME pc \in Polls
               PROVE  now' = IF t0 + waited' < MILLIS THEN t0 + waited'
                             ELSE t0 + waited' - MILLIS
    BY <1>1 DEF ClockInv
  <2>1. now = IF t0 + waited < MILLIS THEN t0 + waited ELSE t0 + waited - MILLIS
    BY DEF IInv, ClockInv
  <2>2. waited' = waited + 1
    BY <1>1
  <2> QED
    BY <1>2, <1>3, <1>5, <2>1, <2>2
<1> QED
  BY <1>1, <1>2, <1>4, <1>5, <1>6 DEF IInv, TypeOK, CommandsAreTaken, DeviceInv,
     ContentInv, ErrorsHaveACause, Holds

LEMMA DeviceStep == IInv /\ Device => IInv'
<1> SUFFICES ASSUME IInv, Device PROVE IInv'
  OBVIOUS
<1>1. DevStep /\ UNCHANGED <<pc, cs, job, off, rc, time, cause>> /\ dev \in Dev
  BY DEF Device, IInv, TypeOK
<1>2. /\ dev' \in Dev /\ dev'.ignored = dev.ignored /\ dev'.sram = dev.sram
      /\ dev'.ptr = dev.ptr /\ (dev'.crc <=> dev.crc) /\ (dev'.burst <=> dev.burst)
  BY <1>1 DEF DevStep, Dev
<1>3. DeviceInv'
  BY <1>1 DEF IInv, DeviceInv, DevStep, Dev, Isc
<1>4. ContentInv'
  <2>1. pc \in {"checking", "status"} /\ ~dev'.busy => (dev'.fail <=> ~dev'.crc)
    BY <1>1 DEF IInv, DeviceInv, ContentInv, DevStep, Dev, Isc
  <2> QED
    BY <1>1, <1>2, <2>1 DEF IInv, ContentInv, Holds
<1> QED
  BY <1>1, <1>2, <1>3, <1>4 DEF IInv, TypeOK, CommandsAreTaken, ClockInv,
     ErrorsHaveACause, time

LEMMA StutterStep == IInv /\ UNCHANGED vars => IInv'
BY DEF vars, time, IInv, TypeOK, CommandsAreTaken, DeviceInv, ContentInv, ClockInv,
       ErrorsHaveACause, Holds

LEMMA StepHolds == IInv /\ [Next]_vars => IInv'
BY CallStep, ProgramnStep, AwaitInitnStep, EnableStep, AwaitBusyStep, EraseStep,
   InitAddrStep, BurstCommandStep, SendChunkStep, ChunkFailsStep, BurstEndStep,
   ReadStatusStep, DisableStep, AwaitDoneStep, BusyReadFailsStep, TickStep,
   DeviceStep, StutterStep
   DEF Next, Step

-----------------------------------------------------------------------------
LEMMA Invariance == Spec => []IInv
BY InitHolds, StepHolds, PTL DEF Spec

\* However ecp5_sysconfig_program() ends, the chip select is up again, also when a
\* chunk of the burst fails in the middle.
THEOREM SelectReleased == Spec => []ChipSelectReleased
<1>1. IInv => ChipSelectReleased
  BY DEF IInv, ChipSelectReleased
<1> QED
  BY <1>1, Invariance, PTL

\* Every command meets a device that takes it: each is sent only behind the poll
\* for the one before, and a call begins with PROGRAMN whatever the last one left.
THEOREM CommandsTaken == Spec => []CommandsAreTaken
<1>1. IInv => CommandsAreTaken
  BY DEF IInv
<1> QED
  BY <1>1, Invariance, PTL

\* ECP5_OK means that the device runs the bitstream of this call and holds no byte
\* of an earlier one, whatever the sizes of the bitstreams and of a chunk.
THEOREM OkIsConfigured == Spec => []OkMeansConfigured
<1>1. IInv => OkMeansConfigured
  BY DEF IInv, DeviceInv, ContentInv, OkMeansConfigured, done
<1> QED
  BY <1>1, Invariance, PTL

\* An error of ecp5_sysconfig_program() has a cause outside the code in this call,
\* also when the millisecond counter wraps around during a poll.
THEOREM ErrorsCaused == Spec => []ErrorsHaveACause
<1>1. IInv => ErrorsHaveACause
  BY DEF IInv
<1> QED
  BY <1>1, Invariance, PTL
=============================================================================
