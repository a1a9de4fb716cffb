# SIEEECURE RV64 SoC: TLA+ verification project

The repository is a RISC-V system on an FPGA. Its hardware is SystemVerilog: a seven-stage RV64IM
core with two caches, an "SE" unit that computes on encrypted registers, a quad-core bus, and a small
GPU with a Tetris game. Its software is C: the board controller that loads the bitstream, the BIOS
that a host talks to over the UART, benchmark programs and test programs. This directory models the
control logic of both. For hardware there is one TLA+ module per block, one action per arm of a state
machine, one step per clock edge; for software one module per program, one action per stretch of code
between two points at which something else can happen (a board hook, a character, a loop round). Paths
below are relative to `src/FPGA Implementation/`.

## 1. Inventory

| Part | Source | State it keeps | Operations | Talks to | Status |
|---|---|---|---|---|---|
| MEM1 stage | `rtl/core/rv64_core_7stage.sv` 802-820, 1149-1249 | the memory instruction, `req_sent`, `resp_done`, response | request, take response, leave | D-cache (valid/ready) | modelled: `Mem1Port` |
| IF1 and line buffer | same, 66-116, 976-1002 | pc, fetch in flight, one line | request, take line, redirect, drop on fence.i | I-cache | modelled: `IfetchPort` |
| Data cache | `rtl/cache/dcache.sv` | lines (valid, dirty, tag, data), pending request, victim, response | hit, miss, write back, fill | MEM1, cache arbiter | modelled: `Dcache` |
| Instruction cache | `rtl/cache/icache.sv` | lines, pending request, response | hit, miss, fill, invalidate | IF1, cache arbiter | modelled: `Icache` |
| Cache arbiter | `rtl/cache/cache_arbiter.sv` | which cache waits | route request, route response | both caches, memory port | modelled: `CacheArbiter` |
| RAM | `rtl/mem/simple_ram.sv` | bytes, one pending request, response | accept, perform, answer, fault | memory port | modelled: `SimpleRam` |
| Quad arbiter | `rtl/bus/mem_arbiter4_rr.sv` | active, grant, round-robin pointer | select, route, release | four memory ports, RAM | modelled: `MemArbiter` |
| EX1, long operations | core 515-585, 1030-1147 | instruction, started/done/result of its unit | start, hold, take result, leave | SE unit, divider, MEM1 stall | modelled: `LongOps` |
| SE unit, AES, FPU | `rtl/se/se_unit.sv`, `rtl/se/aes_enc_core.sv`, `rtl/fpu/fpu_fp64_unit.sv` | operands, plaintexts, fresh counter, round, round keys | decrypt two operands, operate, encrypt | EX1, key inputs | modelled: `SeUnit`, `AesCore` |
| Divider | `rtl/core/div_unit.sv` | dividend, divisor, remainder, quotient, bit index | start, step, special cases, done | EX1 | modelled: `DivUnit` |
| Pipeline control | core 375-808, 995-1288, `hazard_unit.sv`, `control_unit.sv` | IF1 to WB | stall, forward, redirect, trap, retire | everything in the core | modelled: `Pipeline` |
| Register files | `rtl/core/regfile_32x64.sv`, `rtl/core/eregfile_32x128.sv` | integer and ciphertext registers | read in ID, write from WB | pipeline | modelled: `Pipeline` |
| CSR file | `rtl/core/csr_file.sv` | trap CSRs, SE control and key | trap, mret, CSR write | pipeline, SE unit | partly: `Pipeline` |
| Key manager, entropy | `rtl/se/se_key_manager.sv`, `entropy_*.sv` | 32-byte collection, key, seed | collect, reseed, switch source, load by hand | SE units, GPU | planned; its output is free in `LongOps` |
| SE GPU, Tetris | `rtl/gpu/*.sv`, `rtl/games/tetris_rtl_system.sv` | frame buffer, command, board, piece | take command, draw, move, lock, clear | each other, key manager | planned |
| Branch predictor | `rtl/bp/branch_predictor.sv` | tables, return stack | predict, update | IF1, EX1 | partly: `Predicted` in `Pipeline` |
| Board controller | `stm32/src/ecp5_sysconfig_spi.c` | position in the loading sequence, chip select, bytes sent, start of the poll | reset, enable, erase, burst, check, disable, polls, error returns | FPGA configuration port, board hooks | modelled: `SysConfig`, `Ecp5Device` |
| BIOS, 151 library | `software/bios/bios.c`, `software/151_library/*.c` | token, command, file position, memory | edit, load, store, load a file, jump, echo | host, programs | modelled: `Bios`, `Ascii` |
| Benchmark programs | `software/bsort`, `ssort`, `small/mmult`, `small/bdd` | arrays, loop counters, node table, stack | sort, multiply, build and count decision diagrams, report | BIOS | partly: `Sorts`, `Mmult`, `Bdd` |
| C tests | `software/c_tests/*/*.c` | loop counters, sums | compute, compare, report | test bench | modelled: `CTests` |

Not modelled so far, but planned (section 6): the entropy path and the key manager, and the graphics
subsystem with its game. They share no state with the core except the key, which is free wherever it
is used. Not modelled, and not planned: combinational data functions (ALU, multiplier, immediates, alignment),
VGA timing, the unused FIFO, pin-level tops, build scripts, `echo.c` and `uart_parse.c`, `fpmmult.c`
(floating point), and the early skeletons (`RISCV_SIEEECURE_CPU/`, `SIEEECURE_GPU/`, `hardware/`).

The hardware runs on one clock, so there are no threads; the interleaving is that of state machines
which see each other's registers one edge late, of free inputs (stalls, redirects, fence.i, key
updates, requests of other cores), and of arbiters that decide who goes first. The board controller
meets failures: a transfer may fail at any byte, a chunk may be garbled, the device may be slow or
dead, a call may follow one that failed half-way, and the clock wraps around. The BIOS reads from a
person or a host who may type anything, and a reset may cut every program short. The behaviours that
are hard to test, each at its line, are the `hazards` of `PROJECT.json`; the ones without a property
carry the reason; those of parts that no run reaches are at the end of section 6.

What makes each part correct:

- *memory path*: a load returns the last store to its line, whatever was evicted in between; nothing
  is written back to an address the RAM lacks; clean lines equal the RAM; a victim is safe before it
  is replaced.
- *two caches, one port*: an answer reaches the cache that asked; neither cache starves; a fetch
  answer is filed under the address it was asked for; fence.i removes stale code.
- *four cores, one RAM*: answers reach the core that asked, an acknowledged write is done, nobody is
  passed over more than N-1 times.
- *pipeline*: the instruction that leaves EX1 is the program's next; it uses the values its program
  order gives it; results reach their registers and are counted once.
- *EX1*: a unit and the instruction that uses it stay together; counters are fresh; an operation that
  starts completes; results are right.
- *board controller*: a call returns, an OK means that the device runs exactly this bitstream, an
  error has a cause outside the code, and no call spoils the next one.
- *BIOS*: what the terminal shows is what the code holds; memory changes only as typed or sent; host
  and loader agree on where a file ends.
- *programs*: each ends and reports what its source says; arrays are never left; the decision diagrams are those of the sum of the partial products.

## 2. Modules

```
LineTypes ── SimpleRam, Mem1Port, Dcache, IfetchPort, Icache, CacheArbiter
  Mem1Port + Dcache + SimpleRam                 = DcacheRam ── DcacheRefinement (LineMemory)
                                                    └ DcacheProofs
  Mem1Port + Dcache + IfetchPort + Icache
           + CacheArbiter + SimpleRam           = CoreMemory ── FenceHistory ── CoreMemoryProofs
  MemArbiter + SimpleRam                        = QuadBus ── QuadBusProofs
AesCore ── SeUnit ; DivUnit ;  SeUnit + DivUnit = LongOps ── LongOpsProofs
DivUnit + its test bench                        = DivBench
Pipeline ── PipelineHistory ── PipelineProofs
Ecp5Device ── SysConfig ── SysConfigProofs
Ascii ── Bios ;  Bios + Sorts + Mmult + Bdd + CTests = Firmware ── FirmwareProofs
Powers (of DivUnit, Ascii, Bios, Bdd) ── Arithmetic (what the proofs use of powers, quotients, remainders)
```

In the hardware modules, a component's module declares its registers as VARIABLES and has one action
per arm of its state machine. The `...Edge` operator is the whole `always_ff` block: the disjunction of the arms, with the
wires of the block as parameters. A composing module has one action, `Clock`, which conjoins the
edges of its blocks on the wires of the state before the edge - as nonblocking assignment does. A
handshake that the code spreads over several registers is one record in the model where only some
combinations are reachable (`mem1.st` is `want`, `sent` or `done` for `req_sent`/`resp_done`; the two
valid bits of the RAM are `rpend # NoReq` and `rresp # NoResp`).

What is abstracted:

- A line is a function from byte lanes to values; two lanes tell a partial store from a full one. An
  address is the number of a line; index and tag are remainder and quotient, as the bit slices are.
- The cipher is a constant function `KS` from key and counter to a keystream; a payload is a set of
  bits and xor the symmetric difference. When the key is replaced during a run the output is any
  block, since it has seen two key schedules.
- The clock edges on which a request may be accepted are the code's. In `DcacheRam` alone the
  arbiters appear as one free wire, `grant`; `ArbiterOnlyDelays` says of `CoreMemory` that the real
  arbiter does nothing else, which is checked and proved.
- In `Pipeline` an instruction is decoded: an operation, a destination and two sources. The program
  is arbitrary, since a fetch finds any instruction of the constant `Instrs`, and so are results,
  branch targets, loaded data and how long the memory and the units take. Values have two halves that
  matter: `Sext` narrows an OP-32 result. The properties are about operands and order, so results need
  not be computed from operands. `seEnable` is `se_ctrl[0]`, one clean bit,
  as `soc_top.sv` and `soc_quad_gpu_top.sv` mean it; the secure quad top means the key manager's
  instead. The core's wire has two drivers (section 4).
- Reset is the initial state. RAM contents after reset are arbitrary (`INIT_HEX`).
- `SysConfig` is the C function between two uses of a board hook: `pc` names the statement that comes
  next, a four-byte command is one transfer that succeeds, or fails with or without having reached the
  device, with the chip select around it, and a poll looks at the clock first and then at what it waits for, as the code does. The
  delays `ecp5_delay_us` are left out: the device may take any time anyway. A board hook that returns
  an error is a failed transfer; a status word that arrives garbled without an error is left out. `Ecp5Device` is external: it has the modes, the busy flag, the address
  register and the status bits that the C code and `docs/STM32_ECP5_CONTROL.md` rely on; it takes a
  command only in the right mode and when it is not busy, and it may stay silent for ever.
- A bitstream is an image whose bytes are all different from those of every other, so that a byte in
  the wrong place, of an earlier call or missing is seen.
- In the software a character is a number: the digits are themselves, any letter that is no digit is
  one value, then blank, return and backspace. `Bios` takes one character per step with everything the
  code does up to the next read. The terminal is modelled as it behaves: a backspace moves the cursor
  and erases nothing. Commands are what `Name` says they are, including names that are made of digits
  (`file` starts with one). `jal` goes to a program that was loaded before; a program is a memory image.
- The host of `Bios` is assumed to use memory that is there, aligned addresses, and a decimal length
  of at most `DECDIGITS` digits; it sends the digits of a file in whole words, nothing else between
  them, and never faster than the loader reads (`hex_to_serial` sleeps between its writes). Beyond
  that it types anything of the alphabet above; line feeds, tabs, DEL and NUL are not in it.
- A program's step is one round of its inner loop (`Sorts`, `Mmult`, `CTests`), or one row of nodes
  (`Bdd`). Hash chains of the node table are a lookup: they decide only how long it takes. Variables
  and literals of `Bdd` are unbounded numbers where the code has 8 and 16 bits: the same at its N = 4, and
  up to N = 16. What
  `main()` of `mmult.c` and `bdd.c` writes to `csr_tohost`, and the cycle counters that
  `run_and_time()` prints, are left out. `Firmware` lets one program own the processor until it ends. A start is `main()` in
  one step, which fills every array; what an interrupted run left in them is not kept until then.
- History variables: `bypass` (QuadBus), `ramSince` (FenceHistory), `issued` and the fields `divisor`
  and `err` of `ex1` (LongOps), `arch`, `expect`, `flying` and `missed` (PipelineHistory: the
  registers and the next pc in program order, the retirements owed, and operands whose register was
  written after ID read it), `waited`, `cause` and the device's `ignored` (SysConfig), `last` and `due`
  (Bios: the tokens of the last line with what was printed, and the digits the host has yet to send).
  They feed no guard.

A definition whose comment starts with "Mutant:" is a plausible wrong version of the definition after
it. Nothing uses it; it documents, with `mutants` in `PROJECT.json`, which mistake the named property
would catch.

## 3. Runs

| Run | Module / cfg | Question | Result |
|---|---|---|---|
| `dcache` | MCDcache | Are D-cache and RAM one atomic memory of lines? | holds |
| `core_memory` | MCCoreMemory | Do both caches share the port without mixing or starving? | holds |
| `fence` | MCFence | Does fence.i remove lines older than the RAM, also in the middle of a miss? | holds |
| `quad_bus` | MCQuadBus | Four cores: right answers, bounded waiting, everybody served? | holds |
| `long_ops` | MCLongOps | Do units, instructions, counters and key changes stay in step? | holds |
| `se_result` | MCLongOps / MCSeResult | Does a response decrypt to the result? | violated, finding 1 |
| `div_answers` | DivBench / MCDivBench | Does the divider divide? | violated, finding 2 |
| `pipe_data` | MCPipeline / MCPipeData | Do instructions use and leave the right values under stalls, faults and traps? | holds |
| `pipe_control` | MCPipeline / MCPipeControl | Do instructions commit in program order? | holds |
| `load_use` | MCPipeline / MCLoadUse | Is every load-use hazard detected? | violated, finding 3 |
| `sysconfig` | SysConfig / MCSysConfig | Is a bitstream loaded whole or the failure explained, whatever fails and whatever came before? | holds |
| `firmware` | MCFirmware | Do screen, memory, loader and programs do what is typed, with resets at any time? | holds |

Bounds, and why they are enough:

- `dcache`: two lines, two tags, so each set has conflicting addresses; five addresses of which the
  last two are beyond the RAM, so fills and stores fault, and the last is address 0 with a bit above
  the tag; two lanes and two byte values, so merged stores
  differ from full ones. The lanes are symmetric (`LaneSymmetry`; no property names a lane).
- `core_memory`: addresses 0 and 2 conflict and 2 faults. One byte value, since the properties are
  about who is served; the data are the business of `dcache` and of the refinement.
- `fence`: two byte values to see stale lines. A state constraint keeps data accesses and fetches in
  one set; the property is about single I-cache lines, and the sets of a direct-mapped cache do not
  interact. The constraint bounds this safety run only.
- `quad_bus`: four ports as in the code; a read, a write that changes the line, and a faulting read.
- `long_ops`: two AES rounds (first and final; a middle round is the same step), a floating-point
  pipeline of two stages, one integer and one floating-point operation, two keys, at most two results
  (`MAXCTR`), two-bit division, which has a zero divisor, the signed overflow and negative operands.
- `div_answers`: four-bit operands.
- `pipe_data`: one register of each file, which every instruction writes or reads, so that all
  producers in flight compete for it; `x0` beside it. One address, since order is the business of
  `pipe_control`. Faults of accesses and fetches come at any time. The constraint `OneKind` explores a
  program on integer registers and one on ciphertext registers side by side: forwarding looks at one
  file only, and a ciphertext instruction that stalls EX1 is to the integer side what a division is.
  The theorems of `PipelineProofs` need no such bound.
- `pipe_control`: two addresses, so that every prediction, target and trap vector can be right or
  wrong; branch, mret, trap, CSR write, load and division. Without faults
  (section 4 shows what they do) and with `StaleTargets = FALSE`: the predictor knows the addresses of
  branches and jumps only. Its tag distinguishes all addresses below 2^30 and the RAM has 2^20 bytes,
  so this holds as long as code is not overwritten; with `StaleTargets = TRUE` the property fails
  (hazard at core line 656).
- `sysconfig`: two bitstreams of up to three bytes in chunks of two, so that a burst has a full and a
  partial chunk, may end between them, and may be shorter than the one before it. A clock that wraps
  after four ticks, with timeouts of one and two, so that polls lie across the wrap. Any number of
  calls, failures and late answers. A poll is not interrupted for as long as the counter takes to come
  round (49 days). Chunk size, timeouts and clock are free in the theorems of `SysConfigProofs`.
- `firmware`: base 3 with decimal base 2, one digit to a byte, words of two bytes and half-words of
  one, four bytes of memory, a buffer of three characters: a token is cut at the buffer, a number at
  its width, a load leaves bytes around it alone. Command names of one and two characters, among them
  names made of digits. `bdd` runs with its own N = 4, `mmult` with its own DIM = 8, the
  tests with their own sizes, except that `fib` computes 40 numbers instead of 150, after the one it
  checks (x[35]) and before the first that does not fit; the sorts have six elements instead of 500,
  for which the theorems of `FirmwareProofs` hold.

For the hardware, fairness is only that the clock runs, `WF_vars(Next)`. Every block acts on every
edge, so nothing else can be assumed of it, and the liveness properties (`FetchCompletes`, `AccessCompletes`,
`EveryPortServed`, `SeCompletes`, `DivCompletes`) must hold for every choice of the free inputs.
`SeCompletes` is stated for an enabled unit: with SE disabled the instruction holds EX1 for ever
(hazard at core line 584). For the board controller it is that the processor runs and that its clock
advances, `WF_vars(Step)` and `WF_vars(Tick)`: the board has to override the weak `ecp5_millis()`,
which returns 0 for ever (line 41). Nothing is assumed of the device, nor that a transfer fails. For
the firmware it is that a program which runs goes on (`WF_vars(ProgramRuns)`, `WF_vars(ProgramEnds)`,
and for the rows of `bdd` the same written out with the condition that enables them, since TLC would
compute a row to find out that there is one). Nothing is assumed of who types; `ProgramsEnd` is stated
for behaviours in which resets stop.

TLC checks the type invariant of `LongOps`, where the width of every register matters, and as part of
`DataPathInv` and `BusInv`; the others are proved for every size only (`DcacheProofs`,
`CoreMemoryProofs`, `PipelineProofs`, `SysConfigProofs`, `FirmwareProofs`).

Deadlock is checked in every run: a clocked circuit has a next state, a call may follow a
call, and a reset may always come.

## 4. Findings

1. `se_result`: `tb/tb_se_unit.sv` line 157 expects the decrypted response to be the result. The SE
   unit starts the AES core again in the cycle in which the core shows `done`, with the block it has
   just finished; each later keystream is one block late.
2. `div_answers`: `tb/tb_div_unit.sv` line 43 expects quotient and remainder. The step compares and
   subtracts from the upper half as it was before the shift, which a bit of the dividend reaches only
   after W steps, and the last step returns the registers of before it: 1 / 1 gives 0.
3. `load_use`: `rtl/core/hazard_unit.sv` lines 5 and 47 say that the load-use hazard is detected and
   the consumer stalled. A consumer that directly follows the load is not stalled: the load is in EX1
   when it is in ID. It uses the old value of the register. With an instruction between the two the
   stall works.

Two more disagreements with the documents show in the code itself, without a run.
`docs/RV64I_OPCODES.txt` line 112 promises "sync I$ with stores to code"; fence.i (core line 797)
invalidates the I-cache only, so a store that is still dirty in the D-cache is not seen by the
refetch. `isa/SIEEECURE_SE_OPCODES.txt` line 121 says that SE instructions trap as illegal when
`se_ctrl[0]` is 0; nothing traps, and the instruction holds EX1 for ever (core line 584).

`ForwardedIsCurrent` and `LatchedIsCurrent` name the cases in which an operand is *not* the program's
value: a load in MEM1 (`LoadOwes`, finding 3), an OP-32 result taken before WB (`Unextended`),
ciphertext operands with a writer under way (`CiphertextOwed`), and a register written back on the
edge on which ID reads it or while EX1 is held (`missed`). No text of the repository rules the last
three out, so they are hazards and not findings; that there is no fourth is what the two properties
say. Also seen in `Pipeline` with `BusFaults`: a bus fault in MEM1 while EX1 is held by its unit leaves
the younger instruction in EX1, which then commits although the trap has been taken.

Behaviours of the C code that the models show and no text of the repository rules out:

- A transfer of the busy byte that fails ends the poll, and the caller reports ERR_TIMEOUT instead of
  ERR_SPI (`ecp5_sysconfig_spi.c` lines 156, 160, 169); `ErrorsHaveACause` allows for it.
- After an error no ISC_DISABLE is sent: the device stays as it is until the next call pulls PROGRAMN.
- A poll whose time is up returns without looking at the pin once more.
- In the BIOS a return does not give up a command that waits for a token: an empty token counts as
  the number 0. An interrupted file is not given up either, except by a reset.
- A value that is longer than the type is cut after its leading digits: `sb 1234` stores 0x12.
- A backspace at the start of a token blanks the character before it; in the first column it moves
  the cursor forth.
- The node table of `bdd` is filled to its last place, and nothing looks whether there is another.

Found by reading, without a run: `soc_quad_gpu_top.sv` lines 245, 261, 277 and 293 connect
`cache_arbiter` by port names it does not have; the newer quad top uses the right ones. Core line 501
connects the CSR file's `se_enable` to `se_enable_eff`, which line 519 drives as well, from the external
enable or from `csr_se_enable`, which nothing drives. With `se_ext_mode` at 0 the second driver is
undriven and the CSR bit is what remains; with it at 1 two drivers may disagree. An access to
2^36 + x answers with the line of x while that is cached, and faults otherwise (`dcache.sv` line 79,
and for fetches `icache.sv` line 52).

## 5. Proofs

TLAPS proves, for every value of the constants that meets the named assumptions:

- **`DcacheProofs`** (assumptions: `SizeAssumption`, `MemAssumption`, `DataAssumption`: some lines and
  tags, a RAM within the range of index and tag, and marks for "no request" that are not requests).
  `VictimIsMapped` and `CleanLineMatchesRam` are not inductive: whether a fill installs the right
  line depends on what the RAM is doing for whom. `DataPathInv` adds that MEM1 waits exactly while
  the cache is busy and with the request the cache latched (`HandshakeInv`), what the victim and the
  set look like during a miss (`MissInv`), that the RAM holds the cache's own request or its answer
  (`TransactionInv`), and the state of the lines (`LinesInv`). `NextIsOneStep` first shows that the
  conjunction of three edges is one of six joint steps (shift, respond, issue, take, serve, collect);
  each step then preserves each part. Results: `DataPathInvariant`, `TypeCorrect`,
  `WriteBacksNeverFault`, `CleanLinesMatch`, `VictimsAreSaved`.
  With `Store[a]`, the cached copy or else the RAM's line, every joint step is a step of `LineMemory`
  or a stutter: a hit is accept-and-serve, a fill serves, write-backs stutter. MEM1 may ask for any
  address (`ADDRS` is not bounded by the geometry), as the core has 64-bit addresses. Only those of
  the RAM are known to fit in index and tag (`MemAssumption`); a request with bits above the tag hits
  the line of its lower bits when that is cached (`HitFacts`) and faults when it is not, and
  `LineMemory` allows for both. A request whose address fits takes effect at that address and at no
  other, also with such requests in between. Result: `CacheImplementsMemory`.
- **`QuadBusProofs`** (`PortsAssumption`, `RequestsAssumption` and those of `LineTypes`). The bound on
  bypassing is not inductive; `TurnInv` says that the number of times a port was passed over plus its
  distance from the head of the ring is at most N-1, with the head being where the pointer *will* be
  after the current transaction. Results: `BusInvariant`, `BusTypes`, `ResponsesRouted`, `WritesDone`,
  `NobodyPassedOver`, for every number of ports.
- **`PipelineProofs`** (`PcAssumption`, `RegAssumption`, `InstrsAssumption`, `SwitchAssumption`: some
  addresses and registers, and any set of instructions). `CommitsFollowProgram` only speaks of EX1;
  `StreamInv` says that the instructions from IF1 to EX1 are one stream in which each holds the pc
  predicted after the one before, and that the oldest is the one expected, so that a commit without a
  redirect moves the expectation by exactly one place and a redirect restarts the stream. It is proved
  for `~BusFaults` and `~StaleTargets`. `DataInv` says that the program's value of a register is that
  of its youngest writer behind EX1, or else the register's (`Delivered`), and that an operand latched
  in EX1 agrees with its register unless `missed` (`Latched`); forwarding, latching and write-back
  follow from it. Results: `TypeCorrect`, `CommitsAreTheProgram`, `ForwardingIsSound`,
  `LatchedIsSound`, `ResultsReachRegisters`, `RetirementCounts`.
- **`SysConfigProofs`** (`DeviceAssumption`, `SysConfigAssumption`: a chunk of at least one byte, and
  timeouts below the range of the clock). None of the four properties is inductive. `DeviceInv` says
  in which mode the device is at each statement and when it cannot be busy, `ContentInv` what its
  memory holds (blank after the erase, the first `off` bytes during the burst if the stream was intact,
  the bitstream after the status was read) and `ClockInv` that clock, start and time waited agree
  modulo `MILLIS`, so that the unsigned difference is the time waited also across a wrap-around
  (`ElapsedIsWaited`). `IInv` is their conjunction with the types; each of the steps preserves it.
  Results: `SelectReleased`, `CommandsTaken`, `OkIsConfigured`, `ErrorsCaused`.
- **`Arithmetic`**. The solver knows nothing of `^`, little of `\div` and `%`, and the library's
  induction theorems cannot be used, but induction itself can: `SetInduction` and `UpTo` prove from
  the well-foundedness of `<` that a *set* of numbers which has 0 and the successor of each of its
  members is all of them, and every use names such a set. From it follows that a function which is defined by recursion over an interval satisfies its
  equation (`PowersDef`), and from that what powers are: positive, sums of exponents are products
  (`PowersSum`), growing; then quotients of quotients, digits of sums (`DivDiv`, `DivOfSum`,
  `SameDigits`).
- **`FirmwareProofs`** (`AsciiAssumption`, and of each program that its size is a number that its
  source allows; neither the names nor the images matter).
  - *The terminal*: `ScreenShowsToken` with the types of line and terminal is inductive over the whole
    of `Firmware`, programs and resets included; the core is `EraseLast`, that backspace, blank,
    backspace takes one character away from both. Result: `TokenIsShown`.
  - *The loader and the memory*: `LoaderInv` says what a command still waits for, and while a file is
    loaded (`LoadInv`) that the host has yet to send the digits of the words that are not there,
    less those of the word that has begun, and that the file fits. That the memory holds the number
    typed rests on the digit lemmas: `Number` of a string has the string's digits (`TokenNumber`), it
    does not overflow its type, its bytes in the memory have the same digits (`HoldsRead`), and the
    address is the one the token names (`AddressIs`). `HostAndLoaderAgree` alone is not
    inductive: without the number of digits in the buffer nobody knows when a word ends. Results:
    `LoaderTakesFile`, and `MemoryKeepsWhatIsTyped` for the action property.
  - *The programs by themselves*, from `main()`: both sorts for any number of elements, the matrix
    product for any dimension. The invariants are the loop invariants one would write by hand (what
    is sorted, what has been summed up, where the loop counters are). Results: `BubbleSortSorts`,
    `SelectionSortSorts`, `ProductIsB`.
  - *The programs in the system*: `ProgramInv` is the invariant of the program that runs. Every
    `jal` starts it from its `main()`, and neither BIOS nor
    reset touches it while it runs; so what is printed is right (`ResultsArePrinted`, the first two
    parts of `ProgramsReport`).
  - *The diagrams*, for every N and at every step of the whole system. `TableInv` says that the table
    holds each node once and in its normal form, and that every literal kept anywhere (the row, the
    outputs) is a constant, a node made before, or the mark for "never written". A row's places are
    a recursive function (`Places`), for which `RowInv` is proved by `UpTo`; a node that is looked up
    keeps the table, one that is made extends it. `WalkInv` says of the count that the marks are
    nodes of the table and the count their number. Results: `DiagramsAreReduced` and `CountIsOfNodes`.
    - *What the diagrams mean*: `MeansInv` says of each place of a row which function its literal is
      (`BufferMeans`): in column c of output o, bit o - c of the running sum of the column less the cut
      of the place (`Cut`), except at the places that the skip marks leave out, which are those with
      an odd cut. It takes with it how many places a row writes and the next one reads (which is
      why none is read unwritten), that the table is ordered by the variables, and that the stack of the
      count descends in it, so that it holds at most NUMVAR literals. When a column is complete,
      half its sum carries on to the next. Results: `RowsFit` (the buffers, and no unwritten place)
      and `DiagramsAddProducts`, that output o is bit o of the sum.
    - *How many there are*: that the table is reduced and ordered makes it canonical: two literals
      with the same value under every assignment are the same (`Canonical`, by cofactors of the
      variable on top). So a node stands for a function, and each function made is one
      bit of the sum that one row sees, shifted by a threshold t that `NormalBit` brings to 1 .. p
      for a bit of weight p. `RoomInv` names column, row, bit and threshold of each node, `SameTurn`
      shows that equal functions share them, and `NodeStands` numbers them within 1 .. ALLOC - 1, by
      what the columns, the rows and the thresholds take (`NumberRange`, `SameNumber`). An
      injection into that interval bounds the number of nodes made (`NodesFit`). Result:
      `ArraysSuffice`, that `BddWithinItsArrays` always holds: the size that the source computes for
      its array is enough for every N, although the code has no test for a full table.
- **`CoreMemoryProofs`** (`SizeAssumption`, `MemAssumption`, `DataAssumption`, `FetchAssumption`).
  The proof of `DcacheProofs` is used again, by INSTANCE, with the D-cache's view of the RAM's port
  in the place of the port (empty while the arbiter serves the I-cache). An edge of arbiter and RAM is one of five (grant to either cache, no grant, serve, deliver);
  for the D-cache each is an edge of a RAM of its own, or one on which nothing happens. `CoreInv` is
  `DataPathInv` of that view, with `FetchInv` (the fetch stage waits exactly while the I-cache works on
  its request) and `ArbInv` (the arbiter is locked to the cache that waits, and the RAM has that
  cache's request or the answer to it). For fence.i, `CodeInv` adds that a line the I-cache holds is
  that of a mapped address, and the RAM's unless a write-back changed the address since the last
  fence.i. Results:
  `CoreTypes`, `TransactionsAreOwned`, `FetchesAreAnsweredRight`, `DcacheSideImplemented` (that
  `ArbiterOnlyDelays` holds: every behaviour of the core memory is one of `DcacheRam`, so that the
  theorems about `DcacheRam` are theorems about the core), `CoreImplementsLineMemory` (which draws that
  conclusion for the refinement: MEM1 sees the atomic memory of lines through the whole of the core)
  and `FenceWorksAgainstRam`.
- **`LongOpsProofs`** (`AesAssumption`, `SeAssumption`, `NoSeAssumption`, `WidthAssumption`,
  `SeReqsAssumption`). `EdgeKinds` shows that an edge of EX1 is one of six kinds; `LongInv` says which
  unit works for which instruction (`ServeInv`), that the counter in use lies above all that were
  delivered and below the next (`CounterInv`), and that a zero divisor stays one once it is latched
  (`DivisorInv`). That the divider's registers stay within their widths is an invariant of its own
  (`WidthInv`): a negation, a shift, a difference and a quotient with one more bit are values again,
  by the lemmas about powers of two. Results, for every width, number of rounds and pipeline depth:
  `UnitsServe`, `ErrorBitKept`, `ZeroDivisorAnswered`, `CountersNeverShared`, `LongTypes`.

TLC checks `DataPathInv` and `BusInv` as invariants, so the runs exercise exactly the formulas the
proofs rest on.

Only model-checked are:

- all liveness, which is out of the prover's reach, as is ENABLED;
- of `bdd`, for N = 4, that the nodes fill the table exactly, so that the number it reports is ALLOC
  (`NodesReported`, a part of `ProgramsReport`); proved is that it is never more, for every N. N is a
  `#define`, and 4 is its value in the source;
- the C tests: they have no input, and their sizes are the source's numbers (only `FIBELTS` is cut to
  the elements that do not overflow), so the run is the computation itself;
- what the divider computes, and what the SE unit's ciphertext decrypts to: both are findings.

That the pipeline as a whole keeps moving is not stated: whether a stall ends is up to the memory
(`FetchCompletes`, `AccessCompletes`) and the units (`SeCompletes`, `DivCompletes`), and `Pipeline`
leaves their answers free.

## 6. Plan

1. `GpuDraw`: draw scheduler and `se_gpu_core`, whether every command drawn reaches the frame buffer
   and whether every fill ends.
2. `Entropy`: source mux, conditioner and key manager, whether a key is made of 32 bytes collected
   after the last reseed.
3. `Pipeline` with faults: what of program order survives a bus fault (the held EX1, the fetch fault
   that overtakes older instructions), stated against the comment at core line 760.
4. `fpmmult`, if its result can be stated without floating point.
5. Proofs: that `bdd` reports exactly ALLOC for every N (`NodesReported`). `NodesFit` gives one
   half; for the other, each number within 1 .. ALLOC - 1 must be reached by the walk from an output.

Hazards of parts that no run reaches yet: a fetch answer accepted on the edge of fence.i (core line
982), a key replaced between operands and result in external-key mode (522), a fetch fault on the edge
on which a CSR instruction leaves EX1 (`csr_file.sv` 141), a bus fault while EX1 is held (core 1033),
a FILL_RECT of width or height zero, whose end `se_gpu_core.sv` line 230 never sees, the statics of a
program that hold an interrupted run's content until `main()` has filled them (`bsort.c` 12), four private D-caches without coherence (`soc_quad_gpu_top.sv` 245), the draw scheduler that advances
one cycle before its command is taken and the position of a new piece that the old one's overwrites
(`tetris_rtl_system.sv` 314, 303), and a reseed whose clearing of the byte count is overridden by a
byte that arrives on the same edge (`entropy_conditioner.sv` 79).
