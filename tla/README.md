# A verification development of emulator_pdp11

TLA+ models of the PDP-11 emulator's core (`src/src/core`) and of the frontends'
loops that drive it, model-checked with TLC on small instances and, where the
prover reaches, proved with TLAPS for every value of the constants.

The emulator is a sequential C program. What makes it hard to get right is not
threads but what outlives one call of `pdp11_cpu_step`: traps that come due later,
requests that wait for a priority, completions scheduled in emulated time, banked
registers, faults that leave a C function by `longjmp` in the middle, and programs
that touch device registers at any moment between those. That is what is modelled.

## 1. The system

| Component | State | Operations | Where it is modelled |
| --- | --- | --- | --- |
| Instruction step (`cpu.c`) | `halted`, `waiting`, `trace_pending`, `stack_yellow_pending`, `servicing_stack_trap`, `in_trap_push`, `abort_env`, `abort_depth`, PSW, SP, `int_req`, PIRQ | one call of `pdp11_cpu_step`: traps, grants, WAIT, an instruction, an abort | `CpuStep` |
| Register file | `r[8]`, `regfile`, `stackfile`, PSW | `put_psw`, `do_trap`, RTI/RTT, MFPx, MTPx, red-zone reset | `RegBank`, promise `ModeRegs` |
| Events | `time_ns`, every `done_ns`, `clk_next_ns`, busy flags | `service_due_events`, `pdp11_next_event_ns`, idle skip | `Events` |
| KW11-L clock (`clk.c`) | LKS, the request | LKS store, tick | `Events` |
| DL11 console (`console.c`) | RCSR, RBUF, XCSR, `tto_busy`, two requests | register access, input, transmit completion | `Dl11`, promise `InterruptSource`; under the headless frontend in `Dialog` |
| Keyboard ring (`sdl/main.c`) | `kbd`, `kbd_head`, `kbd_tail` | `KBD_PUSH`, feed | `Dl11` |
| RK11 (`rk11.c`) | RKCS, RKER, RKWC, RKDA, busy, request | register stores, commands, completion | `Rk11`, promise `InterruptSource` |
| RL11 (`rl11.c`) | RLCS, RLMP, RLDA, head position, busy, request | register stores, commands, completion | `Rl11` |
| RH70/RP04 (`rp11.c`) | RPCS1, RPDS, RPWC, RPDA, RPDC, RPCC, busy, request | register stores, commands, controller clear, completion | `Rp11`, promise `InterruptSource`; its deadline in `Events` |
| TM11 (`tm11.c`) | MTC, MTS, MTBRC, the tape image and position, busy, request | register stores, commands run at completion | `Tm11`, promise `InterruptSource`; its deadline in `Events` |
| RX11 (`rx11.c`) | RXCS, RXDB, RXES, state machine, sector buffer, image, request | accesses to RXCS and RXDB | `Rx11` |
| KT11 memory management (`cpu.c`) | PDR, MMR0-2, MMR1's log of register moves | references of an instruction, aborts, restart after a repair | `Kt11`; that an access may fault, in `CpuStep` |
| Operand decoding (`cpu.c`) | registers moved before a fault | `decode_operand`, `decode_fp`, pushes and pops | `Kt11` |
| ALU and EIS (`cpu.c`) | registers, condition codes | double- and single-operand instructions, MUL, DIV, ASH, ASHC, branches | `Alu` |
| FP11-C (`fp.c`, `op_fp11`) | accumulators, FPS, FEC, FEA | arithmetic, conversions, comparison, exceptions | `Fp11`; its operands' references in `Kt11`; its trap in `CpuStep` |
| Headless frontend (`headless/main.c`) | script, dialog step, reply being typed, tail of the output | the loop of `run_boot` | `Dialog`; images and arguments are I/O |
| Console panel (`sdl/main.c`) | switches, `halted` | HALT, CONT, START, STEP, EXAM, DEP | the first four in `CpuStep` |
| Model table (`model.c`) | features of each processor | | the ones that steer control are CONSTANTS |
| Unibus map, I/O page decode, cache, timing table, physical memory, state hash, rendering, tests | | | not modelled, see section 5 |

How they interact: a frontend calls `pdp11_cpu_step` in a loop and, between two
calls, hands typed characters to the DL11 or moves a panel switch. An instruction
reaches a device through `io_read`/`io_write`; the device schedules a completion
(`busy`, `done_ns`) and sets or clears its bit of `int_req`. The tail of the step
polls the busy devices; the head of the next step grants the highest request that
exceeds the priority. All memory access can leave by `longjmp` to the step. The frontends
attach an image to the RK11 only; RL11, RP04, TM11 and RX11 are given theirs by the tests, and
without one they are still there to be programmed.

### What is hard, and what makes each component correct

* **The step.** `do_trap` makes two vector reads and two pushes, each of which may fault,
  inside a trace trap, a yellow-zone trap, a grant, an instruction or an abort. The two
  exemption flags of the stack limit must not survive whichever of them is interrupted; the
  red zone must always abort; servicing a yellow trap must not arm another; arbitration must
  never start an instruction over an admissible request nor serve a lower one first; faults
  within faults must end.
* **The register file.** Of two copies of each banked register one is always out of date.
  The registers must behave as if nothing were ever copied.
* **Events.** Completions are looked at only at the end of an instruction or an idle skip.
  Nothing may stay overdue, the clock may not drift, skipping idle time must be
  indistinguishable from spinning through it, and WAIT must end.
* **Controllers.** A request is an edge latch on DONE and IE, whatever sequence of stores,
  completions, grants and RESETs happens; DONE and the scheduled completion must agree; a
  transfer must stay on the medium and leave its address and count right.
* **Tape and floppy.** The tape drive must never stand inside a record, whatever commands
  are replaced while they wait for their completion. The floppy's handshake advances inside
  the program's own accesses: it must not stick, skip a byte, or start over.
* **Memory management.** An instruction refers to memory several times and any reference may
  abort it with some registers already moved. What lets the operating system run it again is
  MMR0, MMR1 and MMR2, which later references, the handler's own instructions and further aborts
  must leave alone until the handler lets go; W must tell exactly what was written.
* **Arithmetic.** Condition codes matter to a later instruction, and a wrong one shows in
  few operands: they have to agree with integer arithmetic for all of them.
* **Floating point.** Guard bits, truncation or rounding with its carry into the exponent, sticky
  alignment, results out of range with the exception enabled or not: each goes wrong in a few
  operands only, and V, FEC, FEA and the result have to tell the same story.
* **The console.** Every keystroke is read once, in order, or is lost for one of two known
  reasons. A scripted reply must be typed at the right prompt, when its reader is there.

The full list of hazards, each at its line with the properties that guard it, is
`hazards` in `PROJECT.json`.

## 2. The modules

| Module | Models | Checked by | Proved in |
| --- | --- | --- | --- |
| `CpuStep` | one call of `pdp11_cpu_step` | `MCCpuStep` (3 configurations) | `CpuStep_proofs` |
| `Kt11` | protection, abort and restart of an instruction | `MCKt11` (2 configurations) | `Kt11_proofs` |
| `ModeRegs` | the registers a program is promised | through `RegBank` | |
| `RegBank` | the copying register file, refines `ModeRegs` | `MCDatapath` | `Datapath_proofs` |
| `Alu` | what instructions compute | `MCDatapath` | `Datapath_proofs` |
| `Fp11` | floating-point instructions | `MCDatapath` | `Fp11_proofs` |
| `InterruptSource` | the edge latch every controller promises | through `Rk11`, `Rp11`, `Tm11`, `Dl11` | |
| `Rk11` | RK11 | `MCDisks` | `Disks_proofs` |
| `Rl11` | RL11 | `MCDisks` | `Disks_proofs` |
| `Rp11` | RH70 and RP04 | `MCDisks` | `Disks_proofs` |
| `Tm11` | TM11, tape and records | `MCMedia` | `Media_proofs` |
| `Rx11` | RX11, buffer and floppy | `MCMedia` | `Media_proofs` |
| `Dl11` | DL11 and keyboard ring | `MCDialog` | `Dl11_proofs` |
| `Dialog` | `Dl11` under either frontend, and the guest | `MCDialog` | `Dl11_proofs` |
| `Events` | emulated time, clock, idle skip | `MCEvents` | `Events_proofs` |

`MCDatapath`, `MCDisks` and `MCMedia` host several modules that share no state: a variable chosen
in the initial state says which of them the behaviour exercises, the others stand still, and every
property of the run speaks of its own part. `MCDatapath` extends `RegBank` and instantiates `Alu`
and `Fp11` with variables of its own; `MCDisks` extends `Rk11` and instantiates `Rl11` and `Rp11`;
`MCMedia` extends `Tm11` and instantiates `Rx11`.

`map` in `PROJECT.json` gives the source lines of every definition.

### CpuStep

`phase` tells where the processor is: between two calls (`"top"`), executing
(`"exec"`), unwinding after `cpu_bus_fault` (`"abort"`), or dead because the `longjmp`
had nowhere to go (`"crashed"`). `env` tells whether `abort_env` names no frame, the
frame of this call, or one that has returned. A call is then one of:

* `TraceTrap`, `YellowTrap`, `DeviceGrant`, `PirGrant`: in the order of the code, each a
  whole `do_trap`;
* `WaitStep`: an idle step, raising whatever came due;
* `StartInstruction`, any number of operand references (`Push`, `MoveSP`, `DeviceRegister`,
  at most three), and one action that ends the instruction;
* any of these cut short by `AccessFault`, `RedAbort` or a fault in `DoTrap`, followed by
  `AbortTrap` until one completes or `AbortHalts`.

`DoTrap` is the C function: it faults on the vector (nothing changed), faults on the
first or second push (mode and PSW switched, `in_trap_push` left set, SP down one or two),
or completes and checks the limit once. The order of its assignments to
`servicing_stack_trap` relative to the caller's is kept by passing the value it has
inside and the value the caller stores afterwards.

Abstractions: PC and data are left out; an access works or faults; the kernel SP
counts words and its odd bit is dropped; what an instruction computes is left out.
Not modelled: a stack that has wrapped to the I/O page so that a push hits the PSW
register, and one instruction that both stores the PSW and takes a floating-point
exception. An EMT after a push is allowed although only floating-point exceptions can
do that: an over-approximation, harmless for what is claimed.

### RegBank and ModeRegs

`ModeRegs` has one array per register set and one stack pointer per mode, and nothing is
ever copied. `RegBank` has `r`, `regfile` and `stackfile` and copies as `put_psw` does. The
refinement mapping takes for each set and mode the live copy:
`gprOf[s] = IF s = PSW<11> THEN r ELSE regfile[..][s]`, and likewise for `spOf`.
`Trap(new, n)` covers a completed trap (`n = 2`) and one whose first push faulted (`n = 1`).

### InterruptSource, Rk11, Rl11, Rp11, Dl11

`InterruptSource` says what a bus request is: an edge latch. A step raises it exactly when it makes
"enabled and ready" true (`Edge`), it falls with the grant or when one of the two falls, and while
both stay set nothing raises it again, whatever stores and completions come. The one thing two bits
cannot show is a command that is accepted while DONE is set and over within the same store (a refused
one, a controller reset): DONE then falls and rises between two states. `given`, a history
variable that changes with every accepted command and that a busy device must leave alone, marks
these. `Rk11`, `Rp11`, `Tm11` and both halves of `Dl11` implement the promise (the DL11 with
`given` constant: it has no such commands). RL11 does not: every store to RLCS with DONE and IE set
raises its request, edge or not. For it only `RequestMeansReady` is claimed, which says nothing
of repetition, nor of a completion that survives RESET (`ResetClears`, section 3).

In the disk modules a store to the CSR is one action with the whole `rk_go`/`rl_go`
inside, and `Poll` is the completion, at any later time. Transfers keep what the code does
to the word count, the disk address and the error bits, in small numbers: sectors,
surfaces, cylinders, words. The data and the memory address are left out.
`DiskWords` of RK11 is whatever the frontends attach: at least the whole disk
(`calloc` of the larger of the file and the disk). What keeps the address inside its field is not
the size of the image but the field: it has room for a transfer of every word count that starts on
the last cylinder, which `GeometryAssumption` says (203 cylinders of 24 sectors of 256 words, a
field of 256, 65536 words). That the image is small enough would not do: a long image that ends in
the last sector the field can name lets a transfer carry the cylinder past it.

`Rp11` adds an image of any size, attached or not, and the controller clear, which leaves
the drive's registers alone; the write check, which the code completes without
comparing, is a command that only takes time. Of RPDS the two bits the controller stores
are kept; the others are computed by each read.

In `Dl11` keystrokes are numbered, and the history variables `received`, `full` and
`cleared` record where each went; they do not influence the behaviour.

### Tm11

The image is a function from cells of two bytes to lengths or `Data`, since only lengths
steer the drive. A command is checked when it is given (`Refuses`) and runs at its
completion (`Poll`) with the function, count and enable bit of that moment. `dataEnd`, a
history variable, is where the tape written last ends: beyond it lies the rest of an
overwritten record, whose data the model does not have, so that `Poll` stops before a read
or forward space there (`Readable`); writes there go on. Extended gap and unload are the
write and the rewind they share their code with.

### Rx11

One action for each access that has an effect: `Initialize`, `Go`, `WriteEnable` on RXCS;
`Give`, `Spoil` and `Take` on RXDB, each with the step of the state machine that the code
runs inside it. `passed` and `spoilt` are history variables: the bytes of the present
command that went through RXDB, and whether the program stored over a byte it was being
offered. The sector number is kept whole although the code masks it to seven bits. A floppy
may be attached after the machine is reset, as the tests do.

### Alu

Two registers and four condition codes, with words of `W` bits; every instruction is a pure
operator of its operands (`AluAdd`, `Single`, `Div`, `Shift`, ...) and a step applies one.
The operators keep the code's own cases (`op_ash` has five ranges of the shift code) and the
properties compare them with something simpler: integer sums, comparisons, repeated shifts
by one, the definition of quotient and remainder. Destinations are registers; a destination
in memory is given the same value by `write_operand`.

### Kt11

`Body(i)` is the list of steps an instruction of kind `i` takes after its fetch, in the order of
the code: resolving operands of every mode (`decode_operand`, `decode_fp`), reading, writing,
pushing, popping. `Execute` does the first step of `todo`. A step that refers to memory
(`Reference`) has four outcomes: an odd word address aborts through vector 4 before relocation; an
error of access code or page length is captured and aborts through 0250; a reference that passes has
A and W marked, and then either the step is done, or there is no memory or no register at the
address (`check_nxm`, the end of `io_write`) and it aborts through vector 4 with the flags left set. What a fault leaves in the registers is a parameter of `Reference`,
since it differs: `@(Rn)+` reads before it moves, `@-(Rn)` and `push_word` move before they
access, and pushes, pops and FP11 operands never tell MMR1.

The operating system's handler is not in the repository; it is the one the comment at
`cpu.h:139-141` asks for. Its own instructions clear MMR1 and latch MMR2 unless MMR0 is frozen
(`HandlerInstruction`), and may themselves fault (`NestedAbort`); it copies MMR0-2 and clears the
errors, undoes the moves MMR1 lists, makes the page usable and resumes at MMR2. `StorePdr` takes a
page away or restricts it between two instructions. `start`, `dirty` and `missed` are history
variables: the first attempt's registers, the pages written since their descriptors were stored, and
the pages to which a write was let through that found nothing. `WrittenIsFlagged` says that W is set
for just the last two: not for a write that the descriptor refused, but for one that memory did.

Left out: values in memory (a pointer or an index is any address); instruction and data spaces apart
(the model has one, of one mode); the sum with PAR and the 18-bit fold, which decide where a
reference goes and not whether the descriptor lets it (any reference let through may find nothing there);
the stack limit, the kernel's pushes of a trap, and their faults, which are in `CpuStep`; PC as an
operand register and MARK. `acf_violation` has all eight access codes; the instance stores 0, 2
and 6.

### Fp11

A floating value is a sign, a biased exponent and a fraction, of any widths: `ExpBits`, and
`SingleBits`, `DoubleBits`, `Guard` for fractions. The two 32-bit halves of `fpac_t` are one natural
number, and every shift, mask, borrow and carry across them one division, product or sum.
`addfp11`, `mulfp11`, `divfp11`, `modfp11`, `roundfp11`, `round_and_pack` and the conversions keep
the cases and the order of `fp.c`; an action per group of instructions applies one to `ac` and an operand, and
posts an exception as `post_fpe` and the cases of `op_fp11` do. The references are exact: sums,
products and quotients as integers scaled by powers of two, rounded once.

Two things the references have to allow for, because the code does them: the fraction MODF returns
may be rounded up to exactly 1, and a load in single precision leaves the low half of the
accumulator as it was. An operand of LDCff and STCff is in memory, at the length of its precision, or in
a register, which `read_fp` and `write_fp` copy whole whatever the length (`Transferred`): LDCFD from an
accumulator brings its low half along, and STCDF into one does not clear it. Left out: CFCC, SETF, SETI, SETD, SETL, STFPS and STST, which only copy; the addresses of
operands in memory; registers 6 and 7 as operands, which read as zero and are not written.

### Dialog

`Dialog` extends `Dl11`: under the graphical frontend it takes the steps of `Dl11`, under the
headless one those of `run_boot`. That loop alternates a step of the machine and one look at the
receiver, which is handed the next byte of a script as soon as it is empty, or of a dialog's reply:
`MatchPrompt` when the tail of the output ends with the prompt of the next step, `TypeReply` when
`Settle` time has gone by since the match, and `KeyGap` since the byte before. `output` is the
rolling tail with its oldest character making room, emptied by a match.

The guest is external: it prints any of `Chatter` and then its prompt, a character at a time as the
transmitter allows; needs up to `ReadLatency` steps to issue its read, throwing away what it receives until
then; reads and echoes. `ReadLatency` is less than `Settle`: that is what the settling time is for.
The loop ends when the machine halts or after `max_instr` steps (`--max`, 50 million by default):
`ReachLimit`, possible at any moment of the headless frontend, after which nothing moves (`ended`). The
end of the dialog does not stop the loop in the code; in the model the guest halts, so
deadlock is not checked in this run.

### Events

Deadlines are relative to the present, so time needs no bound. `Instruction` applies one
effect on the devices and then `Serviced` by the instruction's cost; traps, grants and
aborts take no time and service nothing, as in the code, but an instruction that aborts may have
stored to a device before (`Abort` takes any of `Stores`). Priorities are abstracted to
`open`; program interrupt requests and characters typed by the host are left out, since
they only wake the processor earlier. `Start` may change IE for any controller, which the
DL11's XBUF cannot: an over-approximation.

## 3. What the runs check

| Run | Instance | Shows |
| --- | --- | --- |
| `step` | clock at BR6 and receiver at BR4, PIR 4 and 7, Kernel and User mode, a kernel stack of 8 words (2 yellow, 4 red), every vector with a PSW that masks, one that traces and does not, one in User mode | flags never leak, red zone aborts, yellow settles, arbitration in order |
| `step_live` | Kernel mode only, masking vectors, two nested faults, with panel | each call returns; traps alone do not starve instructions |
| `memory` | two pages of two one-word blocks; absent, read-only and shortened pages (upwards and downwards); 11 instructions that use every operand mode, PC at the end of the first page | no move is done twice or lost, the first abort is kept, W is set for just the writes let through, instructions end |
| `datapath` | register file: one register, two sets, three modes, two values; ALU: 4-bit words, 2-bit bytes, all values and codes; FP11: 4-bit exponents, fractions of 3 and 5 bits, 64 operands, all modes | copies are invisible; results, codes, branches, shifts, division; rounding, range, exceptions, conversions from memory and registers |
| `disks` | RK11 and RL11: 2 cylinders, 2 surfaces, 2 sectors of 2 words; addresses beyond each; up to 4 words. RH70: 2 surfaces of 2 sectors of 2 words, fields for 3 of each and 2 cylinders, an image of 13 words, up to 8 words | edge latches, addresses and counts; requests, drive and seek bounds |
| `console` | a ring of 3, 5 keystrokes; a dialog of 3 prompts, a tail of 3 characters | each keystroke accounted for, in order; both latches; replies meet their prompts, the dialog ends or the loop's limit does |
| `events` | clock period 3; delays shorter and longer than it; costs 0, 1, and a whole period; one controller that RESET stops, one it does not | nothing overdue, no drift, skip = spin, WAIT ends if traps do |
| `media` | TM11: a tape of 10 cells, two initial contents, byte counts to 3; RX11: one track of one sector of 2 bytes, bytes 0 to 2 | records stay whole, protection, edge latch; the handshake never sticks, nears its end, keeps every byte |

Why these bounds are enough: the stack has positions above, in and below each zone and
wraps; two devices and two program levels give every order of levels including a tie and a
masked one; the two pages of `memory` let one instruction abort on each of its references, on
both pages in turn and again after a repair, with the registers wrapping; each disk has a transfer
that ends inside a sector and at or across each boundary; the ring fills, drops and wraps; the
dialog's first and last prompts are alike, one prompt asks for nothing, and the
chatter holds a part of a prompt or is longer than the tail; the RH70's image ends
inside a sector of its second cylinder; the tape takes odd and even records, marks, and records
that do not fit; the floppy is given tracks and sectors that are right, zero and too large; words
of 4 bits have every combination of signs, carries and shift counts, and bytes half as wide; the
FP11's operands lie at, next to and far from both ends of the exponent range, with
fractions that carry, round both ways and normalise by any shift, and zeros with a sign and a
fraction left in them; delays and costs make events coincide, overtake each other and come due
inside an instruction. `MaxRefs` (3) is the most operand references any instruction makes to SP (JSR
SP with an autodecrement operand), `MaxAbortDepth` is 8 as in the code (2 in `step_live`, where
the count itself is not the question), `MaxTyped` bounds the keystrokes.

Two runs expect a violation. `step_abort_frame` checks what `cpu.h:168-169` says of
`abort_env`, that it is "set up at the top of each instruction": a trap that is taken before
the `setjmp` of its call and faults jumps to a frame that has returned. `restart_unwinds` checks
what `cpu.h:139-141` says MMR1 is for, that the operating system can unwind the moves of any aborted
instruction: `@-(Rn)` that faults on its pointer has moved the register without telling MMR1, and pushes, pops
and FP11 operands never do. `MovesExactlyOnce` is the same property for the instructions in which no
such move precedes a reference that can abort.

The modules state other sentences of the repository that the code does not keep. They are
in no run; a configuration with the definition as its only property shows the violation.
`findings` in `PROJECT.json` quotes the sentences:

| Definition | Sentence | What happens |
| --- | --- | --- |
| `CpuStep!IdleWhileWaiting` | "WAIT idles the processor until an interrupt arrives" | a trace trap is taken while waiting, and its handler is then not run |
| `CpuStep!RedSupersedesYellow` | the red zone is taken "instead" | a yellow trap armed by the same instruction is taken after the red abort |
| `Rl11!StaysOnTrack` | "A transfer may not cross a track boundary" | beyond sector 40 the unsigned remainder wraps and nothing is trimmed |
| `Rl11!ResetClears` | "RESET: bus INIT clears device state" | the RL11 stays enabled and busy |
| `Tm11!MarkShows` | "the file-mark→EOF status" | the mask of dynamic bits takes EOF out of MTS again |

Divergences seen while reading that have no run of their own: a program can set the RL11's
DONE bit during a command; an RL11 transfer of 65536 words at sector 40 moves nothing and
reports success; the RL11's delay is computed from the word count left after the transfer;
the panel's CONT after a fault runaway restarts the processor with `in_trap_push` set; RX11
is not cleared by RESET and starts a command with an old request pending; an RP04 transfer
masks its memory address to 20 bits under the comment "22-bit physical".

### Fairness

* `step_live` and `events`, `WF_vars(Step)`: the frontends call `pdp11_cpu_step` in an
  unconditional loop, and a call that has begun is sequential C that runs on. Nothing is assumed of
  devices, of the host's keystrokes or of the panel's switches, and no particular instruction is
  assumed to be executed. `WaitEnds` assumes in its formula that traps do not follow each other for
  ever: between two instructions a trace trap may arm a yellow-zone trap, and that one, if it completes, arms
  none (`YellowSettles`). It promises the end of the wait or a priority that masks the event: a trap
  taken during WAIT (`cpu.c:2286-2302`) loads the PSW of its vector, chosen by the program, and one
  of high priority holds the interrupt back for as long as it stands. `ReachesInstruction` needs vectors that mask the level they serve, which
  is why `step_live` has its own set of vectors; without it the property is false of a PDP-11 as well.
* `memory`, weak fairness of `Execute` and `Retire` (an instruction once begun is sequential
  C) and of the handler's `SaveAndClear`, `Resume` and `EndProgram` (an operating system that does
  not loop in its handler). The program need not begin an instruction, and pages are taken away
  only between two instructions, so that `Completes` is about the recorded page being the one that
  has to be repaired.
* `console`, `WF_dvars(HeadlessNext)`: `run_boot`'s loop goes on until the machine halts or
  `max_instr` steps are done. The second can come at any moment (`ReachLimit`, without fairness), so
  `DialogFinishes` says that the dialog is finished or cut off: behaviours without `ReachLimit` are
  those of a limit that is large enough, and in them the dialog ends. The guest
  moves in the machine's own steps and is bounded by `ReadLatency`. Nothing is assumed of the
  graphical frontend.

### Mutants

For every property of every passing run one definition has a mutated form, named after
the bug (`ZoneOffByOne`, `AbortTrapKeepsServicing`, `FeedNewest`, ...), placed before the
definition it changes; with it in place TLC finds the property violated. They are part
of no specification.

## 4. What is proved

All theorems hold for every value of the constants that satisfies the named assumptions of the
modules. What they ask, where it is more than a range, and why the code meets it:

* `GeometryAssumption` of the RK11: images at least a disk long, and a cylinder field with room for
  one transfer beyond the disk (section 2, Rk11); of the RH70: an image that the cylinder field
  can name; of the RL11: a field of sectors larger than a track, as 64 is than 40.
* `RecordsAssumption`: a tape is attached with an image of whole records and marks. The
  emulator does not check this when it reads an image file, and `Framed` is a promise about
  what it does to a good one.
* `WordAssumption` of `Alu`: an even number of bits, four at least. With bytes of one bit 1 is
  a negative number, and INC's V, which looks for the value one above the largest, is not
  what adding 1 gives.
* `WidthAssumption` of `Fp11`: two guard bits at least, of which the normalisation of a product uses
  one, a long integer no wider than a fraction, and `DoubleBits + Guard <= Bias`, so that the fraction
  left by MODF cannot underflow. The machine has 23 and 55 bits, three guard bits, integers of 16
  and 32 and a bias of 128.
* `ProgramAssumption`, `DeviceAssumption`, `PswAssumption`, `StackAssumption`, `BankAssumption`,
  `ImageAssumption`, `RingAssumption`, `TimeAssumption`: the types of what a configuration chooses.
* `DialogAssumption`: a dialog that its author can rely on. A prompt fits the tail, and appears nowhere
  in what the guest prints before it, the echo of the last reply included; and `Settle` is longer than
  the guest takes to issue its read. A prompt that also ends an
  earlier text, or a reader that comes late, loses a reply: `MatchPrompt` sees only the tail.

Along which argument:

* **CpuStep.** The inductive invariant `StepInv` is `TypeOK`, the panel-conditional form of
  `CleanBetweenInstructions`, "the env is live during an instruction" and "before the first
  instruction no trap can be pending". The last part is what makes `AbortHasBuffer`
  inductive: a trap before the first instruction would need a flag or a request that only an
  instruction, or the host after one, can set. `DoTrapOutcome` says once what the trap
  sequence leaves in each of its outcomes, and each action then needs a few lines. The
  action properties about arbitration rest on `HighestExists`, that a non-empty set of
  pending devices has a highest one. `CleanBetweenInstructions` is proved for frontends
  without a panel: CONT is the exception its comment names.
* **Kt11.** `FirstAbortKept` follows from what each record does when MMR0 is frozen. For the others
  `Inv` follows an instruction through its attempts. `Running`: what is left to do is the end of the
  instruction's plan, the registers stand where the steps done have moved them (`MovedBy`, a partial
  sum over the plan), and MMR1 lists just these moves. `Waiting`: after an abort the moves in
  MMR1, undone, give the registers of the first attempt. `Room`
  counts the entries of MMR1 against the steps done that log one: there are never more than two. `MovedOnce` and `RestartUnwinds` are then the
  two ends of it, the second being what `cpu.h:139-141` says MMR1 is for, for every
  instruction of which it is true. W follows from `FlagsRight`, whose history includes the writes that passed the descriptor and found nothing.
* **RegBank.** `TypeOK` is inductive; `StepRefines` maps every step to a step of `ModeRegs`
  or a stutter, from two lemmas: switching the register set does not change what a program
  sees, and switching the mode changes only the stack pointer that is entered.
* **Alu.** A word is two bytes and a pair of words a number of two digits; signs, carries and
  borrows are comparisons with half a width, which is one of the powers that the recursive function
  `Power` gives. `AluComputes` compares the code's cases with integers on that footing. In
  `AluExtends` each loop (`Shift`'s word and pair of words) is the product or quotient by a power, by
  induction over its count, and the five ranges of `op_ash` and `op_ashc` are compared with it one by
  one; the quotient and remainder of `op_div` are those of the integers because these are unique
  (`DivModUnique`), with the two's complement of the two digits in between.
* **Rk11, Rp11.** `ControlInv` adds to `DoneXorBusy` that a request implies DONE and IE; the
  refinement of `InterruptSource` follows. `TypeCorrect` needs that the trimmed transfer stays where the
  cylinder field can name it. `RkTransfersAccounted` and `RpAccounted` are about block numbers: a disk
  address is a number in mixed radix, the increments of the code are division and remainder by
  its digits, and the trims are comparisons of word numbers with multiples of a sector.
* **Rl11.** `RequestMeansReady` with `TypeOK` is inductive: RLDA's fields wrap into an address
  again (`RlAdvancedType`). `RlMovedFits` is what keeps a transfer on the drive, by cases on the
  two trims of `rl_transfer`, and `RlSeekStays` what keeps the heads there. The theorems are of
  `DisksSpec`, whose steps are those of the RL11 or leave it alone (`RlBehaves`).
* **Fp11.** `FpReports` is the conjunction of `Ready`, what a loaded FP11 looks like, and the property.
  Each routine has a lemma that its outcome `Reports`: V, C, the code it asks to post and the range
  of the result agree in every case; posting and the trap are then the same few lines for
  all. On the way every result is shown to be a value of the machine, and normalisation to end
  (`ShiftsExist`, by induction).
  `FpProducts` follows the bits. The product that `mulfp11` hands on is the exact one cut off
  below the guard bits. `divfp11`'s loop keeps `2^turns * x = 2 * d * quo + rem` (`Divided`), also
  where it ends early, and the remainder is what the quotient lacks. `PackProduct` and `PackQuotient` then show
  that adding half a last place and cutting off rounds the exact number as well as the cut one: the
  half is a multiple of what was dropped (`Below`, `PackRounds`), and a carry out of the
  fraction halves both. For MOD, `PackWhole` packs a whole number without losing a bit and `PackNear` the rest within
  a last place. The exponent that wraps is put back by the code posted (`Unwraps`).
  `FpConversions` needs no invariant beyond `Ready`; what it says of the last instruction is `ConvertsNow`. An integer
  is normalised (`Normalises`) and rounded once. The bits that a stored integer keeps are the exact quotient times
  the unit they are counted in (`KeepsWhole`), the code's two limits compare as the widths do, and an exponent past them
  means a number past the limits (`StoreTooLarge`). `roundfp11` adds half a last place, whose carry moves the
  exponent or overflows (`RoundNarrows`). Sign and magnitude of clean values order them as their
  numbers do, which is all that `pdp11_fp_cmp` looks at (`CmpOrders`).
  `FpSums` bounds what `addfp11` loses. Either the alignment drops nothing, because it shifts by no more
  than the guard bits, or it leaves less than a quarter of the larger fraction (`ShiftsOut`), so that a difference is
  normalised by one place at most and the loss grows to less than two guard bits (`SubsNear`); a carry
  out of a sum halves it (`AddsNear`). `SumPacks` carries such a fraction through `round_and_pack`: it is
  rounded, wrapped with the code posted, or lost when the sum lies outside the exponent range
  (`CarriesOver`). A neglected operand is less than a guard bit (`Neglects`). The loss of a
  difference is why `SumsFaithful` does not say "rounded": with three guard bits a
  difference in double precision may be nearly a quarter of a last place further off than half of one.
* **Dl11.** `LatchInv` likewise for both halves; type correctness for every ring size.
  `EveryKeyAccounted` is not inductive: it does not say that a key is in one slot of the ring
  only, nor in which order they will be read. `KeyInv` says that the slots in use hold keys in the order of `Turn`, newer than the one in
  the receiver, which is newer than all that were read, and that no key is missing.
  `QueuedIsInUse` relates the modular definition of the ring to an interval that may wrap. The
  theorems hold for the graphical frontend alone (`Spec`) and for both (`DialogSpec`), where `RingUnused`
  is what lets the headless one give bytes to the receiver directly.
* **Dialog.** `DialogInv` lists the phases of an exchange: its prompt is being printed, is complete and
  about to be recognised, the guest is getting ready while the settling time runs, it reads. In
  the first two the tail `Shows` the end of the conversation so far, which with the assumption makes
  `MatchPrompt` fire after the last character of the prompt and never before; in the third
  `wait > guest.left`, which the loop keeps since it takes one from both; in the last the bytes typed and not yet
  echoed are just what the guest still wants, so that none is left for the next exchange.
* **Events.** `TimeInv` is `TypeOK`, `NothingOverdue`, `OnTheBeat` and `RequestsEnabled` in
  one: `EffectsSound` shows that nothing an instruction does to the devices creates an
  overdue deadline, `ServicedSound` that servicing repairs what the passage of time made
  due, because a cost is at most a period and a skip goes no further than the clock. `SkipIsExact` is
  an induction over the ticks of the skip: before the last nothing is due, so that each only counts.
* **Tm11.** The same argument for the latch, through refused commands; `ProtectionHolds` for
  the tape is an action property of every function that could run. `TapeIsFramed` needs `TapeInv`: there
  is a set of places, from the start of the tape to the end of its data, at which records and
  marks begin one behind the other, and the drive stands at one of them. A write cuts the set
  at the position and adds one place; spacing back finds the place before because the length
  behind a record equals the one in front.
* **Rx11.** `Inv` is type correctness, `Handshake` and `Moving`, which relates the history
  to the buffer: while a fill waits, `passed` is the first `bptr` bytes of the buffer; while
  an empty waits, its first `bptr - 1` bytes, with the next in RXDB unless the program has
  stored over it. `BufferIsWhole` is what `Moving` says at the last byte; `ProgressHolds`
  follows from the handshake.

Some proved facts are not properties of a run, because something that a run checks already says
more or because a listed theorem covers every instance: `AbortHasBuffer`, `DoneXorBusy` of the
RK11, RH70 and TM11, `ReadyXorBusy` of the DL11, `RequestsEnabled` of `Events`, `RestartUnwinds`.

Only model-checked:

* liveness (`StepEnds`, `ReachesInstruction`, `WaitEnds`, `Completes`, `DialogFinishes`) and anything
  that needs ENABLED, which are outside the prover.

Every safety invariant of the passing runs is stated by a theorem.

## 5. Not modelled, and the plan

Not modelled, and why:

* the Unibus map and the decoding of I/O page addresses: pure functions of an address, with no
  state that anything else reads;
* the cache: it counts misses, which only the timing reads; the timing table: from
  instruction words to nanoseconds, of which `Events` assumes only that no cost exceeds a clock
  period;
* physical memory and the data of transfers: bytes under a mask. What could go wrong there, the
  20-bit mask of the RP04's address, is a finding without a run;
* rendering, reading of images and arguments, state hash: output, I/O, a digest;
* EXAM and DEP of the panel: accesses to memory from the host;
* the read-modify-write of a device register by a byte store (`cpu.c:1004`): the device modules
  have word accesses only, and `DeviceRegister` in `CpuStep` allows any effect on the requests.

What is left to do, most useful first: byte accesses in the device modules; a composition
of `CpuStep`, one controller and `Events`, with the abstraction of each shown to hold of the others; data space and the kernel's own mapping in `Kt11`.

Recursion is written as functions (`Power`, `SkipIsSpin`, the loops of `Alu` and `Fp11`): a function
has a defining equation that a proof by induction over its domain can unfold, and no module
declares a RECURSIVE operator.
