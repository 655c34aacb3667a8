# A TLA+ model of c167cc

c167cc is a small C compiler for the Siemens C167 (`src/src`, C), together with
what one needs to run its output: an assembler and an instruction simulator
(`src/simulador/c166asm.py`, `c166sim.py`), a K-line diagnostic firmware in C167
assembly (`src/simulador/firmware_min/src`), part of it compiled by c167cc
itself, and two bridges that put an ELM327 interface in front of the simulated
firmware. This directory holds TLA+ modules translated from that source, TLC
configurations that check them on small instances, and proofs that TLAPS checks
for every value of the constants.

Paths below are relative to the repository. `PROJECT.json` maps every definition
that models code to the lines it stands for.

    tlc -config MCCodegen.cfg MCCodegen       # any MC module and its cfg
    tlapm CodegenProofs.tla                   # any *Proofs module

## 1. Inventory

### The compiler

A run is a pipeline without concurrency: `main.c` parses a file into a tree,
`ir_build.c` turns it into a list of instructions over virtual registers,
`optimizer.c` rewrites that list function by function, `codegen.c` calls
`regalloc.c` once for each function and emits a template for each instruction,
`printer.c` writes the text. Nothing survives a run. What is hard is that every
stage trusts conventions that another one keeps silently.

| component | state | operations | what makes it correct |
|---|---|---|---|
| lexer, parser, tree, scopes (`parser/`, `ast/`, `semantic/`) | the tree, chains of symbols | grammar actions, lookup | the tree is that of the text |
| IR builder (`ir/ir_build.c`) | instruction list, next register and label, break and continue targets | one case per expression and statement; 32-bit values as pairs of words (`Val32`), plus narrow forms that recognise one shape of a 32-bit expression each | the instructions compute the value of C |
| optimizer (`optimizer/optimizer.c`) | constants, copies, registers written twice, registers used | fold, follow copies, sweep dead code, strip unreachable code | the function means the same; dead halves of 32-bit values go |
| register allocator (`target/c167/registers/regalloc.c`) | intervals, active list, homes, spill cursor | scan, place, evict, spill | values that live together have different homes; nothing in a pool register lives across a call |
| code generator (`target/c167/codegen/codegen.c`, `instructions/isa.c`) | emitted lines, frame layout | a template per instruction; argument marshalling; prologue, epilogue | a template reads its operands before it writes over them; carry chains stay together |
| printer, IR dump, driver | none | text | |

### The tools and the firmware

Everything here runs in one process and one thread, yet the hard behaviour is
concurrent: the simulator interleaves the program with interrupt handlers, a
timer and a watchdog between any two instructions, and a bridge talks to the
firmware byte by byte over a simulated serial port.

| component | state | operations | what makes it correct |
|---|---|---|---|
| assembler (`c166asm.py`; `hex2bin.py` converts its output) | labels, variables, lines, addresses | a first pass that expands macros and collects names, a second one that encodes | both passes agree on the size of every instruction; a name means one address; what is encoded is what the CPU decodes |
| simulated CPU: instructions, memory (`c166sim.py`) | registers, flags, memory, page and extension state | `step()` and one branch per instruction | the manual's results and flags |
| simulated CPU: interrupts, watchdog | the stack and its watermark, delays, timer, watchdog | what `step()` does around an instruction; reset; byte injection | one hardware handler at a time; none inside an EXTx/ATOMIC window; a byte is not answered twice or for ever late |
| K-line link (`01_frame_codec.asm`, `bridge_min.py`) | receive buffer, count, length; the frame being sent | send a byte, receive it, check the sum, give up waiting | the dispatcher sees the request that was sent or nothing; the two ends stay in step |
| diagnostic sessions (`02_session.asm` to `07_kline_legacy.asm`) | session, handshake, five gates | one handler per service and subfunction | access is gained only by the steps of the protocol and lost with the session |
| trouble-code table (`08_dtc_table.asm`) | pending and confirmed bits, byte counters, qualification | mark, unmark, decay, clear | counters saturate; a glitch is not confirmed; a fault that is gone is forgotten |
| scheduler (`09_scheduler.asm`) | accumulator, tick counter | `SCH_STEP` | the watchdog is served often enough; codes decay |
| main loop (`99_footer.asm`, `00_header.asm`) | none of its own | receive, dispatch, schedule | what a request starts is finished by later turns |
| CRC16 (`10_crc16.asm`) | none | a table lookup that nothing calls | |
| diagnostic bridge of the full image (`obd2_bridge.py`) | the frame, step budgets, retries | send a byte and wait until it is consumed; collect the answer; retry after a watchdog reset | no byte is written over one that is still to be read; a request ends |
| ELM327 and TCP layer (`bridge_min.py`, copied in `obd2_bridge.py`) | text of the connection that is not yet a line | take text, split lines, obey a command, call `request` | every line gets one reply, in order, however TCP cuts the text |

### How the parts interact

* the builder hands the optimizer conventions: casts carry the type they come
  from in `imm`, `wide32` marks the 32-bit lowering, the two halves of a sum talk
  through the carry flag without an operand that says so;
* the optimizer and the generator share one more: a byte lives in a word
  register whose upper half repeats its sign or is zero;
* the allocator tells the generator a home per virtual register; both rely on a
  call to destroy the whole pool;
* the compiler prints what the assembler reads, and the assembler encodes what the
  CPU decodes: each encoding is written once on either side, with nothing shared;
* the bridge injects a byte into the simulated serial port and lets the CPU run
  until it is consumed; the CPU raises the receive interrupt after a delay; the
  firmware's loop polls. One request is under way at a time;
* one turn of the main loop takes a frame, dispatches it, and steps the
  scheduler; a tick of the scheduler lets the trouble codes decay. There is no
  turn without a frame.

## 2. The modules

| module | models | state and actions |
|---|---|---|
| `CSource` | the trees that `parser.y` builds for statements and 16-bit expressions | constructors, and `Meaning`, an evaluator that follows the tree: the reference for `IrBuild` |
| `IrBuild` | the statements of `ir_build.c`, `strip_unreachable`, and the code at work | `Build` lowers a tree; then `Compute`, `StoreWord`, `Branch`, `CallOut` and `ReturnWord` run one instruction of it, a call returning any answer |
| `RegAlloc` | `regalloc_run` | `ScanInst` is one turn of the scanning loop, `EndScan` the sort; then one action for each way an interval is placed: `PlaceCrossing`, `PlaceFree`, `PlaceEvicting`, `PlaceSpilled` |
| `Codegen` | `gen_inst` and the homes that `load_operand`, `dst_target` and `finish_dst` find | composes `RegAlloc`: `EmitPlain` and `EmitCall` write the program that the allocator scans, `Prologue` enters it, and one `Gen...` action per template generates an instruction and runs it on a symbolic processor, beside what the instruction means |
| `Alu` | `c166sim.py`: ADD/ADDC, SUB/SUBC/CMP with their flags, MUL, DIV, shifts, bit operators | pure operators over a word size that is a constant |
| `Wide` | `Val32` in `ir_build.c` and the 32-bit templates of `codegen.c` | a behaviour evaluates one expression operator by operator; `val` is the pair of words with what is known at compile time, `exact` the value of C, but for two readings of a word that the code has (`ReadAs`, `NarrowShift`) |
| `Optimizer` | `optimizer.c`, with programs written by the rules of `ir_build.c` and run by the meaning that `codegen.c` gives an instruction | build actions (`Literal`, `Read`, `CastTo`, `Binary`, ternary, `WideSum`, `Assign`, `Return`), then `Fold`, `Sweep` until nothing falls, `Strip` |
| `SimInterrupts` | traps, hardware frames, windows, the delays, watchdog of `c166sim.py` | `Step(i)` is one `step()`: instruction, watchdog, window, timer, pending operation, receive; `Inject` is the bridge |
| `Obd2Bridge` | `KLineTransport` of `obd2_bridge.py` | extends `SimInterrupts`: `Idle`, `Request`, `SendByte`, `WaitByte`, `Collect`, `Retry`, `TakeAnswer`; each turn of the bridge is one step of the CPU |
| `Assembler` | `c166asm.py` | operators on what the first pass has collected: `Loaded` adds a source line, macros expanded, `Addresses`, `Encoded` and `Image` are the second pass |
| `Cpu` | decoding and execution in `c166sim.py` | a machine is a record, `Decode` reads an instruction from its memory, `Executed` is the machine after it, one operator per group of instructions |
| `Toolchain` | from the source of a program to its result | composes `Assembler` and `Cpu`: `Load` a line, `Assemble`, `Start` with arguments, `Run` an instruction, `Interrupt` between any two |
| `FrameLink` | `KLineTransport` of `bridge_min.py` and `F_FRAME_RX` | `Request`, `Send`, `SendFlipped` (noise), `Finish` |
| `Elm327` | `serve` and `ELM327Session` | extends `FrameLink`: `Ask` and `Hangup` are the client, `Recv`, `RecvEnd`, `HandleLine`, `Exchange` and `FinishRequest` the server |
| `Access` | abstract: what the sessions promise | sessions, locks, an erasure that must be armed |
| `Diag` | `S_DISPATCH` and every handler | one action per handler, over the receive buffer as short and damaged frames leave it; implements `Access` |
| `Dtc`, `DtcTable` | the compiled trouble-code module; its use in any order | operators `Marked`, `Decayed`, `Cleared` on the state; one action per entry point |
| `Scheduler` | `SCH_STEP` | `Accumulate`, `Tick` |
| `Firmware` | the main loop | composes `Diag`, `Dtc` and `Scheduler` |
| `CodegenProofs` (with `RegAlloc`'s), `WideProofs`, `OptimizerProofs`, `Elm327Proofs` (with `FrameLink`'s), `FirmwareProofs` (with `Diag`'s, `Scheduler`'s and `DtcTable`'s), `Obd2BridgeProofs`, `ToolchainProofs` | | the theorems of section 4 |
| `MathLemmas` | | what they cite: induction over the natural numbers, sums over sequences, division with remainder and powers of two |
| `MC*` | | the values of the constants for TLC |

Operators whose comment begins with "Fault" are not part of any specification:
each is the form that a plausible mistake would give a definition, and
`PROJECT.json` names the property that TLC finds violated when it is put in.

What the modules abstract, beyond names and text:

* `CSource`, `IrBuild`: values are 16-bit words. Parameters, casts, pointers,
  arrays, structures and indirect calls are left out, and so are 32-bit values: a
  condition is what `gen_expr` makes of it. The rest of the optimizer, between the
  builder and the allocator, is the matter of `Optimizer`. The machine keeps a
  virtual register while control stays in its interval and loses it beyond:
  that is what `NoInterference` of `RegAlloc` grants. The functions declare a name
  only in a block of its own or where nothing outside has that name (see section 5 for the others).
* `RegAlloc`: among active intervals that end last, any may be evicted; the code
  takes the first of its array. An instruction is the set of registers that it
  touches, and whether it is a call.
* `Codegen`: a value is a term, so the model follows which value is where and not
  what it is. The code is followed as it is laid out: a branch of the program is
  an effect and falls through, a join of two paths into one register (ternary,
  `&&`, `||`) does not occur. An instruction reads distinct registers. Bytes and
  words, global and local symbols and the operators with the same template are
  one; the frame holds one 32-bit parameter. A call destroys every register but
  the frame pointer.
* `Wide`: the 16-bit expressions inside are operands with a value. A quotient
  beyond a word, which the comment above `v32_div` excludes, is excluded.
  The narrow forms are applied to operands of either sign, as the code does. Where
  an instruction takes an operand as a word and C does not, `exact` follows the
  code: `ReadAs` says which number the word is taken for, `NarrowShift` what a shift
  beyond a word gives (see section 5). A compound assignment or an increment is the
  operator followed by a store of its value.
* `Optimizer`: programs have no loops, calls or addresses; the optimizer treats
  these instructions like the ones present, and a ternary gives it its only
  registers with two definitions. Constants are longs of the host and are kept
  unbounded, except where a bit operator needs a width (`HostBits`). `Excuses`
  names three kinds of fold that need not agree with the processor: see
  section 5.
* `SimInterrupts`: the program pops what it pushes and returns from frames that
  it entered; the windows of EXTP, EXTS, EXTR and ATOMIC differ only in what they
  do to addresses. An item of the stack is a frame or data. The fixed delays are
  constants.
* `Obd2Bridge`: the image of the vehicle is not part of the repository, so it is any
  program over the instructions of `SimInterrupts`. A read of the serial buffer is
  an instruction of its own; the receive handler reads before it returns, the one
  thing that is assumed of the image. An exception of the simulator and the
  seeding of the handshake are left out.
* `Assembler`: operands are already parsed (register, immediate, name, address;
  `Arguments` says which the parser can make for a mnemonic); the listing is left out.
  A label may be used above its line, as c167cc does when it takes the address of a
  function that is defined further down.
* `Cpu`: reads of timers and of the CAN controller, which the simulator makes up,
  the mirror of the image above 1 MB and the pending operation, which
  `SimInterrupts` has, are left out.
* `Toolchain`: one interrupt of the compare timer, at any instruction, and one
  handler. "Meaning" is what the source of a program says of its arguments,
  written down in `MCToolchain` as a function of them. A program without one
  (`Forward`) is assembled and not run.
* `Elm327`: characters are numbers, of which the first 16 are digits. While the
  server waits for the firmware the client writes nothing (what it wrote would
  lie unread), though it may hang up. The wording of replies is left out. A reply
  that `sendall` gives up is `Cut`, however much of it was sent; it may happen to
  any reply, since when the client reads is not modelled.
* `FrameLink`: the bridge runs the CPU until a byte is consumed, so sending and
  receiving it is one step; that the bridge gives up waiting is one
  outcome of it. The buffer has four slots more than `RX_BUF`, where the answer is
  built. Noise changes one byte behind the format byte.
* `Diag`: the buffer is the three slots that handlers read. Sessions other than
  the three that are ever stored do not occur.
* `Dtc`: the callback and the return value of a mark are left out, nobody uses
  them.

## 3. The runs

| run | question | bounds | result |
|---|---|---|---|
| `ir_build` | does the code make the calls of the source, in its order, with its arguments, and return its value, whatever the calls return? Is a register read only inside its interval? Does the code come to a call or to its end? | 216 functions, 195 of which the compiler accepts (the others have a stray `break` or `continue`): each of seven kinds of statement around each, with a `break`, `continue`, `return` or call inside; conditions of `&&`, `\|\|`, `!` and `?:` in every kind of loop; scopes, increments, fall through. Answers of 0 and 1, or 0 to 2 for a `switch`; 8 calls: enough for an inner loop to come round twice, or once and the outer one after it | holds |
| `codegen` | do values that live together have different homes, none of them in the pool across a call, with no needless spill? Does the generated code keep each value in its home until it is read, and does each store, branch, call and far access act on the values it names? | 5 instructions, two of them other than constants, 5 virtual registers, a pool of R0 and R8, argument registers R4 and R8: enough for eviction, a full pool, three operands on the stack around a call, the refusal of a far write, both halves of a 32-bit operation with spilled operands, and an argument register that is in the pool | holds |
| `wide` | is the pair of words the value of C, as far as `ReadAs` and `NarrowShift` say, and the mark of a sign extension true? | 4-bit words, 8-bit pairs, operands at the limits; expressions of any length, since the values computed feed the next operator; narrow forms with operands of either sign | holds |
| `optimizer` | does a function return and store the same after each pass, and are dead halves gone? | 4-bit words, 2-bit bytes, 5 virtual registers, 2 statements, five vocabularies of literals, variables, casts and operators | holds outside `Excuses` |
| `optimizer_bytes` | the same, for casts of a byte to its own type | as above | violated, see section 5 |
| `toolchain` | do names resolve, does the CPU read each instruction as it was written, is the result that of the source, and is an interrupt invisible? | 15 programs: what c167cc writes for calls, 32-bit arithmetic, pointers, bytes, far accesses and indirect calls, the older dialect that computes on variables, and the address of a function above its definition (only assembled); the 36 pairs of six 32-bit numbers at the edges of both words; one interrupt, after any instruction | holds |
| `obd2_bridge` | one hardware handler at a time, none inside a window, the receive handler for a byte that is there and without needless delay? Does the bridge wait for each byte, and does a request end? | timer and delays of 2 steps, watchdog after 2 ticks, 2 items on the stack, frames of 2 bytes, a wait of 6 steps, 2 chunks of 2 steps, one retry: a handler, a window, a reset and either ceiling can meet in each phase of a request | holds |
| `elm327` | does the dispatcher see only what was sent, does every frame find the receiver aligned, and is each line answered once, in order, with its own reply or what a timeout leaves of it? | requests of 1 byte and of 16, the longest the firmware takes, and of 64, which no frame takes; a command, blank text; three lines of each connection, so that two can be in the buffer when a reply is given up and one still to arrive; any number of connections; text that arrives in parts of 20 characters or whole; any reply may be given up; one kind of noise | holds |
| `frame_link_long` | does a frame longer than 16 leave the link in step? | one request of 17 bytes, then requests of two | violated, see section 5 |
| `diag` | do gates fall with their session and open only by all steps, are short requests without effect, does the answer name its request, do the sessions implement `Access`? | requests for every handler, whole and cut short. A step of a gate is 100 instead of 16: the gate opens after 3 steps instead of 16; the theorems hold for every step | holds |
| `dtc_table` | do counters saturate, does a single mark not survive, does a code age out, does a clear condemn? | four entries of the table that differ in all that the code tests: no counter step, 85, 64, no counter | holds |
| `firmware` | does a clear take effect, and is the watchdog served, whatever requests come? | the real 250 and 50, two entries | holds |

`CHECK_DEADLOCK FALSE` is set where a behaviour really ends: the allocation or
the optimization of one function, a program that the assembler refuses
(`toolchain`), a function that returns (`ir_build`), and the ELM327 server, which an uncaught error ends (`elm327`).

**Fairness.** `DtcTable` assumes weak fairness of the tick: the scheduler calls
the decay again and again; nothing is assumed of marks and clears. `FrameLink`
assumes weak fairness of its next-state relation for `frame_link_long`: the tester
goes on sending. `IrBuild` assumes weak fairness of `Step`: the processor goes on
from one instruction to the next; of a call nothing is assumed, it need not
return. No other module assumes any. In `Firmware` progress is not a
liveness property, because a turn of the loop needs a frame; what it promises is
counted in turns. That a request of `Obd2Bridge` ends is stated as an order of what
is left of it (`RequestEnds`), which every turn of the bridge lowers: since the
bridge itself drives the CPU there is nobody whose fairness would be needed.

## 4. What is proved

All theorems hold for every value of the constants under the named assumptions
of the modules (`...Assumption`), which TLC evaluates in each run.

* **`CodegenProofs`** (any number of registers and instructions, any pool, any
  argument registers), the allocator: `AllocationIsSound`, `CallsPreserveValues`, `SlotsNeverOverlap`,
  `SpillsAreNeeded`, `SpillsAreFinal`, `TypeCorrect`. `NoInterference` is not
  inductive: a new interval takes a register because the ones that had it have
  expired, so the invariant must say that the scan goes by increasing start
  (`ScanOrder`), that what left the active list ended before anything still to
  come (`ExpiredIsPast`), and that the active list holds distinct registers
  (`ActiveHoldsPool`). `NoNeedlessSpill` needs a counting argument: when the
  active list is as large as the pool, the active intervals and the new one all
  contain the current position.

  The generator: `ValuesStayHome`, `EffectsHappen`, `WideSymbolKept`, and
  `GeneratorRunsAllocator`, that `Codegen` implements `RegAlloc`, so that the
  theorems above hold of its behaviours. The invariant `CInv` joins the allocator's
  with three facts that none of these properties says. While the code is put
  together, the intervals are those of the code (`CodeScanned`): a register is first touched by
  the one instruction that writes it, so a value that is still to be read and
  the result that is being written overlap and have different homes. The second
  half of a 32-bit operation stands behind its first (`Pairs`), and the
  first has left it what no home holds, a carry or the high word of a product
  (`LeftBehind`). The rest is one lemma for each template, which
  follows the machine through its instructions with operands in registers or on
  the stack in all combinations. A call marshals any number of arguments: the lemma is an
  induction over the fold (`Passed`), which holds because an argument register
  that is filled is never read for a later argument. For that
  `ArgumentsAssumption` says what is true of `c167_arg_regs`: the argument
  registers differ, and only the last may be a pool register. In a far write
  with three operands on the stack the code gives up (`GiveUp`); with two there is
  a scratch register for each (`ThreeInTwo`). `EffectsAsMeant` is as strong as
  the code allows: for the indirect call whose target lives in R8 it says that
  the jump goes to the last argument (section 5).
* **`Elm327Proofs`**, the link (any set of payloads, any noise on one byte of a frame):
  `LinkTypeCorrect`, `FramesAligned`, `OnlyTheRequestAccepted`. The invariant says
  that, until a request was too long, what the receiver holds is what was sent so far of the
  frame under way, but for the byte that noise has changed (`InStep`). A frame that noise has
  changed is then refused because a sum of bytes that differs in one of them
  differs by less than 256.
* **`Elm327Proofs`**, the text (any lines, any cuts, any timeouts of `sendall`):
  `RepliesMatchLines`, the whole of `RepliesInOrder`. The invariant has a number of lines that the server has taken: the text in
  its buffer and on its way is the other lines, one behind the other (`Waiting` says where
  each ends), and the replies are those due to the lines taken, less the one under way
  (`Answering`). The first carriage return of the buffer is then the end of the next line. What
  `Fits` says of the data of a reply rests on `OnlyTheRequestAccepted`, which carries over
  because the text layer takes only steps of the link (`TextKeepsToLink`, `LinkBehindText`):
  for that `PayloadAssumption` says that the link's payloads are those that the lines make.
* **`FirmwareProofs`**, the sessions (any requests, noise, table and step): `GatesFallWithSession`,
  `AccessTakesAllAdvances`, and `SessionsImplementAccess`, the refinement of
  `Access`. The invariant adds that an armed gate that is not open counts its
  steps exactly (`GateCountsSteps`), without which one could not say how many
  steps have led to an open one. The refinement is proved handler by handler: a
  handler is one action of `Access` or a stutter. `AnswersNameRequests`: nothing
  between an answer and the next request touches either.
  `ShortRequestsChangeNothing` is about arithmetic: the handlers do not look at the length, so what they
  take for the subfunction or a parameter of a short request is its checksum, and the lemma
  is that no such sum is a value for which a handler acts.
* **`FirmwareProofs`**, the scheduler (any step, any limit): `WatchdogIsServed`, from the
  invariant `Cadence`, which ties the distance from the last service to the tick
  counter.
* **`FirmwareProofs`**, the trouble codes (any table whose entries have counters of their
  own, `TableAssumption`): `TableTypeCorrect`, `CountersKeepDirection`, `GlitchesFall`,
  `ClearCondemns`, and the invariant `TableInvariant` they rest on. It adds that
  only entries with a status are confirmed, and that a counter holds at most what
  the marks since it was last zero have given it (`MarksAccount`): that is what
  makes the tick after a single mark fall below the threshold.
* **`FirmwareProofs`**, the main loop (any table, limit and requests): `LoopRunsScheduler`, that
  the main loop implements `Scheduler`, from which `LoopServesWatchdog` follows
  with the scheduler's own theorem; and `ClearsTakeEffect`. Its invariant says that
  a condemned code has a counter of zero and that the accumulator has grown by
  `LoopDelta` for each step that the code has outlived (`CondemnedCounts`), hence
  the tick comes before the bound. It needs the accumulator not to wrap, which
  `FirmwareAssumption` states (50 + 250 against 65536).
* **`Obd2BridgeProofs`** (any delay, stack, watchdog, frame, budget, number of
  retries): `NeverNested`, `WindowsKept`, `HandlerHasByte`, `NoIdleWait`,
  `BytesKept`, `RequestsEnd`, and `BridgeInvariant`. The invariant of the CPU adds
  that a window open beside a watermark was opened by the handler, and that a
  byte whose delay has run out is looked at again in the very next step. That of
  the bridge says that a byte still to be read has its flag up or the receive
  handler in flight, so that the wait cannot end before the handler returns; and
  which counters are positive in which phase.
* **`ToolchainProofs`** (any programs of any length, with any operands of the
  parser, labels used above their lines included): `EveryNameResolves`. While a source is loaded
  the invariant says (`Fine`) that every
  line collected so far has operands that the parser or a macro can make, and that every
  memory operand of it that names what no line above has settled is covered by the size of a variable
  (`Covers`), and that only names that those lines have given a variable have one (`GivenUpTo`);
  `Progress` ties labels and EQUs to the lines read and says that all those names have one. Each macro
  is shown to keep it: variables only grow (`Grown`), and what a macro emits it has noted. The
  second pass is a running sum: addresses and areas are functions that call themselves,
  whose existence and monotony go by induction (`RunExists`, `RunFacts`), and since every size is
  even (`SizeIsEven`) so is every address behind an even one. That both passes agree is
  `EncodedLength`: each form of `INSN_LEN` is followed into the branch of the encoder that takes it,
  and what is not refused has the length of its form. `ToolchainAssumption` says that a source is made of
  lines as the parser makes them (`Expected`), and that `Names` lists its variables, none twice.
* **`WideProofs`** (any word size): `MarkIsNeverStale`, for every expression; and
  `ExpressionsAreExact`: the pair of words is the value of C whatever the expression, its narrow
  forms and the signs of their operands, an operand that is taken as a word being the number of
  `ReadAs`. The
  invariant is the conjunction of the two and of the shape of a pair (`IsRight`): a
  multiplication is exact only because the mark is. Each operator has a theorem of its own.
  `CarryAddsPairs`: ADD and ADDC, SUB and SUBC, by a lemma on the carry of a sum of words.
  `BorrowOrdersPairs`: CMP and SUBC order pairs, signed and unsigned, by one on its sign.
  `BitOpIsExact`: the bits of a pair are those of its words, a sum over a set split in two, and
  an operand of zeros or ones may be dropped. `ShiftIsExact`: with 2^n times Q making a word,
  the words of the result are remainders by Q and quotients by 2^n, and the OR that joins them
  is their sum, for they have no bit in common. `MulIsExact`: the cross products need only their
  low words. `DivIsExact`: the divisor is the number its word is taken for (`ReadAsIs`), the quotient fits by the guard `Defined`, the remainder because it is
  below the divisor, so that the widened word is the whole result. A word has any number of
  bits, for `SignBit` is a power of two (`AluAssumption`); its successor law is not known to the
  provers and is proved from the number of subsets of a set (`PowerStep`).
* **`OptimizerProofs`** (any program, number of registers, widths of bytes and words):
  `FunctionsStayWhole` and `HalvesSweptAway`, which is `NoDeadHalves`. While a function is
  built the invariant says which registers the expression at hand may read (`Readable`: those
  above the floor), that they were written since the last return (`Recent`), and that the
  register of a ternary is on no stack before its arms are closed (`Numbered`). It yields that a
  register is read after it is written with no return between (`Ordered`) and that a jump has a
  label behind it (`JumpsToNext`). Folding keeps this because a copy leads to a register
  that is written before every use it replaces (`FoldOK`: the copies form no chains, and what
  a rewritten instruction reads is not among them); the sweeps because they take out no
  label. Stripping comes after the last sweep and must not make a value dead: an unreachable
  reader has a return before it, so that what it reads is unreachable too.
* **`OptimizerProofs`** (the same, and any contents of memory): `MeaningSurvives`, which is
  `MeaningKept`, with the invariant `MeaningInv`. It is about two machines that run
  the code before and after a pass. Stripping: an instruction that is left out comes
  after a return or a jump with no label between, so that the machine was not active there. Sweeping: the
  machines differ only in registers that nothing reads and in the carry (`Alike`), and the
  carry that is read is the one of the instruction just before, which a sweep cannot take out
  alone (`Paired`: the builder emits the halves of a sum next to each other, and the low one is
  not `Removable`). Folding needs most. After each instruction the machine is the same, every
  constant that is known is, modulo a word, what its register holds if it was written, a copy
  holds what its root does, and a word left by a load or a cast of a byte is extended
  (`Mirrors`). That a register was written when it is read, although jumps pass over code, is
  a fact about the builder (`Settled`: a jump that is under way leads to the end of the arm
  that is being built, and what lies below the floor was written before it); that constants and
  copies are known of registers with one definition, about `MultiDef` (`CopiesOK`).
  For each operator there is a lemma that the number folded in longs is, as a word, what the
  instruction computes (`BinopFolds`, `UnopFolds`, `CastFolds`), and its hypotheses are the
  negation of `Excuses`: the proof shows that these excuses are enough, `optimizer_bytes` that
  the one of bytes is needed. `CopyRuns` is the comment on `cast_is_pure_copy` made exact: such a cast copies
  when its operand is extended, and the operand of a cast from a byte is because the builder
  casts from the type that the load or the cast before it gave (`Typed`, `TypedRoot`).

`MathLemmas` has the induction that the library states for an operator and the
provers cannot instantiate: its lemma takes the set of the numbers for which the
claim holds. A fold of the community modules is expanded to the recursive
function it chooses, whose existence is proved, and the lemmas about it
(`SumFunction` of a sequence that grows or changes in one place; the arguments of a call) go by
that induction.

Only model-checked:

* the liveness property `ConfirmedAgesOut` and `ComesToCallOrEnd`: out of the
  prover's reach;
* `RunsAsWritten` and `HeldWhenRead` of `IrBuild`, whose builder and reference are
  recursive;
* `DecodesAsWritten`, `ResultsAsMeant` and `InterruptsInvisible` of `Toolchain`: the first compares
  two tables of opcodes through the bytes of each of some hundred forms, the others say what
  particular programs compute on the whole CPU.

## 5. What the models say about the code

Two runs show the code disagreeing with what its comments say of it:

* **`frame_link_long`**. The firmware limits a declared length above 16 to 16
  and its comment promises a deterministic realignment. The bytes that follow
  the cut are taken as the start of a new frame, whose own length may swallow
  the next request, and so on: a tester that repeats one good request may never
  be heard again.
* **`optimizer_bytes`**. A cast of a byte to its own type is dropped as a copy,
  but the result of byte arithmetic is a whole word, so in
  `x16 + (uint8_t)(a8 + b8)` the carry out of the byte survives.

Other differences, too small or too undecided to be findings:

* the documentation of 32-bit integers is out of date. `docs/limitations.md` lines
  920-937 say that `+`, `-`, `<<`, compound assignment and everything but five narrow
  forms "is still silently wrong", and `docs/c-language.md` lines 172-174 that
  arithmetic on 32-bit values "is not implemented by the backend yet". The code does
  more: since the update of 01/10/2026 (`ir_build.c` lines 62-68) every expression is
  lowered to pairs of words, and `Exact` and `ExpressionsAreExact` show `+ - * / %`,
  `<< >>`, `& | ^ ~`, comparisons and what is composed of them to be right, with the
  exceptions that follow;
* the narrow forms of multiplication and division choose between the signed and
  the unsigned instruction by the 32-bit type alone, and give it 16-bit operands of
  either sign: `((int32_t)x * y) / z` with `y` or `z` a `uint16_t` of 0x8000 or more
  is computed with a negative number, and so is a division of 32-bit values by
  such a word; a negative `int16_t` divides a `uint32_t` as a word without sign, and as the
  low half of `((uint32_t)hi << 16) | lo` it does not extend its sign. `ir_build.c`
  lines 66-68 say that these forms already gave the right code. `ReadAs` states what
  they compute: with `e` in its place TLC violates `Exact`;
* `do ... while (x32)` and `switch (x32)` look at the low word only: they use
  `gen_expr` (`ir_build.c` lines 1801 and 1848) where `if`, `while` and `for` use
  `gen_cond`;
* the comma operator drops its left operand, calls included (`parser.y` line 704);
* a `switch` opens no scope, nor does the body of a loop without braces: a name
  declared there hides an outer one of the same name from there on;
* the value of an assignment is its right side, whatever the width of the left one:
  `y16 = (x8 = 300)` stores 300;
* R8 is the fifth argument register and a pool register; `docs/abi.md` still has
  four argument registers, disjoint from the pool "on purpose", and
  `c167_target.h` lines 35-44 calls the overlap safe because the prologue saves R8
  first. That covers the callee only. For the caller `EffectsAsMeant` says exactly
  what allocator and generator do: an indirect call with every argument register
  in use whose target lives in R8 jumps to its last argument. Nothing in the two
  prevents it. What does is the order of `ir_build.c`, which evaluates the target
  before any argument: the target gets R8 only if R0 to R3 all hold operands of
  the instruction that computes it;
* constants are folded as longs of the host and never reduced to a word, so
  `0xFFFF + 1 == 0` folds to 0 and runs to 1; a quotient or a logical right
  shift of such a value differs too, and so does `!`. `Excuses` calls these
  "wrapped". Shifts by a word or more and divisions by zero ("undefined") are
  undefined in C;
* the watchdog is served at the eighth tick and then at every ninth, since the
  counter is reset only after it has passed 8; the header of `09_scheduler.asm`
  says every eighth. A tick takes 6 turns of 50 units (300), since 250 is not
  yet above the limit;
* the gates of SecurityAccess never decay, although `03_sid_27.asm` line 7
  (and 8) describes a decay;
* the narrow form of `variable32 >> n` shifts the high word logically for n above 16
  whatever `is_signed` says (`codegen.c` line 465; `ir.h` line 26 gives the flag
  that meaning). `NarrowShift` states it: with `Reference` in its place TLC violates
  `Exact`;
* a match of the compare timer is lost when the CPU is busy, and a pending operation
  that comes due while it is busy waits for the whole delay again. Only the receive
  handler is tried at the next step;
* the receive handler is entered when the flag is set at the end of the delay,
  which may be for a byte newer than the one that started it;
* the bridge of the full image reads the count of resets after it has sent the
  frame: a reset during the first send goes unnoticed, though one during a resend
  does not. Bytes that the image sent before a reset are not drained and stand in
  front of the answer to the frame that is sent again;
* a request longer than 63 bytes raises an error in the framing that nothing
  catches, and the ELM327 server ends; an error of the simulator inside `_send_frame` does the same
  in the bridge of the full image. The settings ATE and ATH are kept and never read;
* the assembler gives a name that is used in `MOV Rn,NAME` or `MOV Rn,#NAME` before
  its label is read a variable of its own, and all users its address, although the
  comment in `note_var` (`c166asm.py` lines 206-216) says that no phantom variable is
  allocated over a label. c167cc emits such sources: it declares all functions first
  so that "forward refs work" (`ir_build.c` line 1882) and writes `MOV Rn,#f` for the
  address of one that is defined further down (`codegen.c` lines 280 and 721). That
  address is then the one of the variable and a `CALLI` through it goes into data,
  where `docs/c-language.md` lines 150-157 promise the function. `NamesResolve` says
  exactly which names have a variable: those that a line reserves, or uses as data
  while no line above has settled them. The program `Forward` is such a source. What
  the property says of an operand and its variable is about lines above the label:
  a later one that adds an offset to such a name is not covered;
* the timeout of 0.05 s (`bridge_min.py` line 218, `obd2_bridge.py` line 313) is meant
  for `recv` but holds for `sendall` too, in the same `try`: when the client does not
  read in time, the reply is lost or cut although the connection goes on, nothing is
  sent again, and lines that are already in the buffer wait until the client writes
  more. `RepliesInOrder` says so: a reply is that of its line or `Cut`, and with nothing
  on its way lines wait only behind a `Cut`;
* macros use R6 and R7 as scratch registers without a warning: an operation on
  memory destroys R6, an argument register, and `MUL X,R7` or `MUL R6,Y` its own
  operand. The one-operand `MUL` multiplies by the register from which MDL was
  last loaded in the text, not in the execution. `MOVB X,R8` assembles to an
  access to RL0;
* the targets of JMPR and of jumps on a bit are not reduced to the segment, though
  the comment at `c166sim.py` line 1880 has CALLR, which is, do the same as JMPR.
  `PUSH SP` stores the value after the decrement. A write of a byte to WDTCON sets
  the reload value to zero.

## 6. Not modelled, and the plan

Left out for good: the automaton of the grammar and the sizes of types (no step of
theirs can be out of order), printing and the command line, the build scripts,
the converter of hex files, the CRC module that nothing calls, and the
peripherals whose values the simulator makes up.

To come in `IrBuild`: parameters and byte variables, addresses, arrays and
structures, indirect calls, 32-bit conditions. Then its composition with
`Codegen`: the code of a loop in the homes that the allocator gives, which now
meet through intervals only.

Theorems to come: `IrBuild` needs its builder and its reference written as functions over trees
with a measure. For `DecodesAsWritten` the lemmas of `ToolchainProofs` on the shape of what is
encoded would have to give the bytes, one form after the other.
