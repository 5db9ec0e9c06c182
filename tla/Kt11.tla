-------------------------------- MODULE Kt11 --------------------------------
(***************************************************************************)
(* KT11 memory management and the restart of an aborted instruction        *)
(* (src/core/cpu/cpu.c).                                                   *)
(*                                                                         *)
(* An instruction is a sequence of steps that move registers and reference *)
(* memory.  Any reference may abort (longjmp) with the registers as they    *)
(* then are; what lets an operating system repair the page and run the      *)
(* instruction again is MMR0 (which page, which error), MMR1 (which         *)
(* registers moved by how much) and MMR2 (the address of the instruction),  *)
(* all three frozen by the first error.  Registers hold small virtual       *)
(* addresses; the values in memory are left out, a pointer or index read    *)
(* from memory is any address.  Physical addresses are left out too: behind *)
(* any page there may be neither memory nor a device.  The user program     *)
(* runs in one address space; the kernel's handler (external) is the one    *)
(* the comment at cpu.h:139-141 asks for: it saves MMR0-2, clears MMR0,     *)
(* undoes the moves MMR1 lists, makes the page accessible and resumes at    *)
(* MMR2.                                                                    *)
(***************************************************************************)
EXTENDS Integers, Sequences

CONSTANTS
  PageCount,     \* pages of the address space (8 of 8 KB in the machine)
  BlockCount,    \* blocks of a page (128 of 64 bytes in the machine)
  BlockBytes,    \* bytes of a block
  PdrStores,     \* the access-control, length and direction values stored in a PDR
  Instructions,  \* the instructions the program executes
  PcStarts       \* where the instruction may stand

ASSUME GeometryAssumption ==
  /\ PageCount \in Nat \ {0} /\ BlockCount \in Nat \ {0}
  /\ BlockBytes \in Nat \ {0} /\ BlockBytes % 2 = 0

PageBytes == BlockCount * BlockBytes
VaRange == PageCount * PageBytes
Va == 0..(VaRange - 1)
Pages == 0..(PageCount - 1)
Registers == {"R0", "SP"}

Kinds == {"double", "mov", "jsr", "rts", "rti", "mfp", "mtp", "ldf", "stf"}
Operands == [mode : 0..7, reg : Registers]

ASSUME ProgramAssumption ==
  /\ PdrStores \subseteq [acf : 0..7, plf : 0..(BlockCount - 1), ed : BOOLEAN]
  /\ Instructions \subseteq
       [kind : Kinds, byte : BOOLEAN, src : Operands, dst : Operands, words : Nat]
  /\ PcStarts \subseteq Va

VARIABLES
  r,        \* general registers, as the instruction has moved them
  pc,       \* program counter
  pdr,      \* page descriptor registers, with the hardware's A and W flags
  mmr0,     \* captured error bits and page
  mmr1,     \* register moves of the instruction, oldest first
  mmr2,     \* address of the instruction (HandlerAddress: the handler's)
  phase,    \* "next", "run"; in the handlers "entry" and "fixing", or "bus"
  insn,     \* the instruction being executed or restarted
  todo,     \* its steps still to do
  ea,       \* the operand address last resolved
  saved,    \* the handler's copies of MMR0-2
  start,    \* history: registers and PC when the instruction was first begun
  dirty,    \* history: pages written since their descriptor was stored
  missed    \* history: those a write was let through to and found nothing behind

written == <<dirty, missed>>
vars == <<r, pc, pdr, mmr0, mmr1, mmr2, phase, insn, todo, ea, saved, start, written>>

Frozen == mmr0.err # {}

---------------------------------------------------------------------------
\* Protection

PageOf(va) == va \div PageBytes
BlockOf(va) == (va % PageBytes) \div BlockBytes

\* acf_violation: the error an access-control field raises, if any.
acf_violation(acf, write) ==
  IF write
  THEN IF acf \in {4, 5, 6} THEN {} ELSE IF acf = 2 THEN {"RO"} ELSE {"NR"}
  ELSE IF acf \in {1, 2, 4, 5, 6} THEN {} ELSE {"NR"}

LengthError(va) ==
  LET d == pdr[PageOf(va)]
  IN  IF d.ed THEN BlockOf(va) < d.plf ELSE BlockOf(va) > d.plf

Errors(va, write) ==
  acf_violation(pdr[PageOf(va)].acf, write)
    \cup (IF LengthError(va) THEN {"PL"} ELSE {})

\* Mutant of Captured: a later error is recorded beside the one still held.
CapturedAgain(va, write) ==
  [err |-> mmr0.err \cup Errors(va, write), page |-> mmr0.page]

\* Mutant of Captured: the page of an earlier abort stays.
CapturedNoPage(va, write) ==
  IF Frozen THEN mmr0 ELSE [err |-> Errors(va, write), page |-> mmr0.page]

\* The error bits and page are captured unless an earlier error is still held;
\* the page's accessed and written flags follow only a reference it lets through.
Captured(va, write) ==
  IF Frozen THEN mmr0 ELSE [err |-> Errors(va, write), page |-> PageOf(va)]

\* Mutant of Marked: the written flag follows the latest reference only.
MarkedLatest(va, write) == [pdr EXCEPT ![PageOf(va)].a = TRUE, ![PageOf(va)].w = write]

Marked(va, write) ==
  [pdr EXCEPT ![PageOf(va)].a = TRUE, ![PageOf(va)].w = @ \/ write]

\* The registers at some point of an instruction.
Now == [r |-> r, pc |-> pc, log |-> mmr1]
Left(s) == r' = s.r /\ pc' = s.pc /\ mmr1' = s.log

\* A reference by the instruction: an odd word address aborts through vector 4
\* before relocation, and captures nothing; a protection error aborts through 0250;
\* otherwise the flags are set, and either memory or a device answers or, where there
\* is neither, the reference aborts through vector 4 after all.
\* "atFault" and "atPass" are the registers an abort and its absence leave.
Reference(va, write, word, atFault, atPass) ==
  IF word /\ va % 2 = 1
  THEN /\ phase' = "bus" /\ todo' = <<>>
       /\ Left(atFault) /\ UNCHANGED <<pdr, mmr0, written>>
  ELSE IF Errors(va, write) # {}
  THEN /\ mmr0' = Captured(va, write)
       /\ phase' = "entry" /\ todo' = <<>>
       /\ Left(atFault) /\ UNCHANGED <<pdr, written>>
  ELSE /\ pdr' = Marked(va, write) /\ UNCHANGED mmr0
       /\ \/ /\ dirty' = IF write THEN dirty \cup {PageOf(va)} ELSE dirty
             /\ todo' = Tail(todo) /\ phase' = phase
             /\ Left(atPass) /\ UNCHANGED missed
          \/ /\ missed' = IF write THEN missed \cup {PageOf(va)} ELSE missed
             /\ phase' = "bus" /\ todo' = <<>>
             /\ Left(atFault) /\ UNCHANGED dirty

---------------------------------------------------------------------------
\* Instructions

\* Mutant of mmr1_track: the second move of an instruction replaces the first.
mmr1_last(log, reg, delta) == IF Frozen THEN log ELSE << <<reg, delta>> >>

\* mmr1_track: the log of moves grows unless MMR0 is frozen.
mmr1_track(log, reg, delta) == IF Frozen THEN log ELSE Append(log, <<reg, delta>>)

\* The net move of a register that a log records, in its two halves.
HalfMove(log, half, reg) ==
  IF half \in DOMAIN log /\ log[half][1] = reg THEN log[half][2] ELSE 0
LoggedMove(log, reg) == HalfMove(log, 1, reg) + HalfMove(log, 2, reg)

\* A step of an instruction: what it does, the register it moves and by how much,
\* and whether MMR1 is told of the move.
Step(op, reg, delta, tracked) == [op |-> op, reg |-> reg, delta |-> delta, tracked |-> tracked]
Plain(op) == Step(op, "SP", 0, FALSE)
Through(reg) == Step("point", reg, 0, FALSE)
Logged(op, reg, delta) == Step(op, reg, delta, TRUE)

operand_step(reg, byte) == IF byte /\ reg # "SP" THEN 1 ELSE 2

\* decode_operand: the steps that resolve an operand, by mode and register.
decode_operand(o, byte) ==
  LET by == operand_step(o.reg, byte)
  IN  CASE o.mode = 0 -> <<>>
        [] o.mode = 1 -> <<Through(o.reg)>>
        [] o.mode = 2 -> <<Logged("autoinc", o.reg, by)>>
        [] o.mode = 3 -> <<Logged("incdef", o.reg, 2)>>
        [] o.mode = 4 -> <<Logged("autodec", o.reg, -by)>>
        [] o.mode = 5 -> <<Logged("decdef", o.reg, -2)>>
        [] o.mode = 6 -> <<Plain("index")>>
        [] o.mode = 7 -> <<Plain("index"), Plain("pointer")>>

\* decode_fp: the same modes, stepping by the operand's length; MMR1 is not told.
decode_fp(o, words) ==
  [i \in DOMAIN decode_operand(o, FALSE) |->
     LET s == decode_operand(o, FALSE)[i]
     IN  [s EXCEPT !.tracked = FALSE,
                   !.delta = IF s.op = "autoinc" THEN 2 * words
                             ELSE IF s.op = "autodec" THEN -2 * words ELSE @]]

\* read_operand, write_operand: a register operand refers to no memory.
Access(o, op) == IF o.mode = 0 THEN <<>> ELSE <<Plain(op)>>

\* read_fp, write_fp: one reference per word of the operand.
FpWords(o, op, words) ==
  IF o.mode = 0 THEN <<>>
  ELSE [i \in 1..words |-> [Plain(op) EXCEPT !.delta = 2 * (i - 1)]]

Push == Step("push", "SP", -2, FALSE)
Pop == Step("pop", "SP", 2, FALSE)

\* The steps of an instruction after the fetch of its first word.
Body(i) ==
  CASE i.kind = "double" ->    \* ADD, BIS, ...: decode_double, then the store
         decode_operand(i.src, i.byte) \o Access(i.src, "read")
           \o decode_operand(i.dst, i.byte) \o Access(i.dst, "read") \o Access(i.dst, "write")
    [] i.kind = "mov" ->
         decode_operand(i.src, i.byte) \o Access(i.src, "read")
           \o decode_operand(i.dst, i.byte) \o Access(i.dst, "write")
    [] i.kind = "jsr" -> decode_operand(i.dst, FALSE) \o <<Push>>
    [] i.kind = "rts" -> <<Pop>>
    [] i.kind = "rti" -> <<Pop, Pop>>
    [] i.kind = "mfp" -> decode_operand(i.src, FALSE) \o Access(i.src, "read") \o <<Push>>
    [] i.kind = "mtp" -> <<Pop>> \o decode_operand(i.dst, FALSE) \o Access(i.dst, "write")
    [] i.kind = "ldf" -> decode_fp(i.src, i.words) \o FpWords(i.src, "read", i.words)
    [] i.kind = "stf" -> decode_fp(i.dst, i.words) \o FpWords(i.dst, "write", i.words)

Plan(i) == <<Plain("fetch")>> \o Body(i)

---------------------------------------------------------------------------
\* Execution, one step of the instruction at a time

Doing(op) == phase = "run" /\ todo # <<>> /\ Head(todo).op = op
step == Head(todo)

Shifted(va, delta) == (va + delta) % VaRange

\* The registers after the step's move, with and without MMR1 being told of it.
MovedOnly == [Now EXCEPT !.r[step.reg] = Shifted(@, step.delta)]
MovedAndLogged ==
  [MovedOnly EXCEPT !.log = IF step.tracked THEN mmr1_track(@, step.reg, step.delta) ELSE @]

Fetched == [Now EXCEPT !.pc = Shifted(@, 2)]

\* Steps that make no reference.
Resolve(s, address) ==
  /\ Left(s) /\ ea' = address
  /\ todo' = Tail(todo)
  /\ UNCHANGED <<pdr, mmr0, phase, written>>

Fetch ==
  /\ Doing("fetch")
  /\ Reference(pc, FALSE, TRUE, Now, Fetched) /\ UNCHANGED ea

Point == Doing("point") /\ Resolve(Now, r[step.reg])

AutoIncrement == Doing("autoinc") /\ Resolve(MovedAndLogged, r[step.reg])

AutoDecrement == Doing("autodec") /\ Resolve(MovedAndLogged, Shifted(r[step.reg], step.delta))

\* @(Rn)+: the pointer is read first, then the register moves and is logged.
IncrementDeferred ==
  /\ Doing("incdef")
  /\ Reference(r[step.reg], FALSE, TRUE, Now, MovedAndLogged)
  /\ ea' \in Va

\* @-(Rn): the register moves, the pointer is read, and only then is it logged.
DecrementDeferred ==
  /\ Doing("decdef")
  /\ Reference(Shifted(r[step.reg], step.delta), FALSE, TRUE, MovedOnly, MovedAndLogged)
  /\ ea' \in Va

Index ==
  /\ Doing("index")
  /\ Reference(pc, FALSE, TRUE, Now, Fetched)
  /\ ea' \in Va

Pointer ==
  /\ Doing("pointer")
  /\ Reference(ea, FALSE, TRUE, Now, Now)
  /\ ea' \in Va

Read ==
  /\ Doing("read")
  /\ Reference(Shifted(ea, step.delta), FALSE, ~insn.byte, Now, Now)
  /\ UNCHANGED ea

Write ==
  /\ Doing("write")
  /\ Reference(Shifted(ea, step.delta), TRUE, ~insn.byte, Now, Now)
  /\ UNCHANGED ea

\* push_word: SP moves before the write, and MMR1 is not told.
PushWord ==
  /\ Doing("push")
  /\ Reference(Shifted(r["SP"], -2), TRUE, TRUE, MovedOnly, MovedOnly)
  /\ UNCHANGED ea

\* pop_word: SP moves after the read, and MMR1 is not told.
PopWord ==
  /\ Doing("pop")
  /\ Reference(r["SP"], FALSE, TRUE, Now, MovedOnly)
  /\ UNCHANGED ea

Execute ==
  /\ \/ Fetch \/ Point \/ AutoIncrement \/ AutoDecrement
     \/ IncrementDeferred \/ DecrementDeferred \/ Index \/ Pointer
     \/ Read \/ Write \/ PushWord \/ PopWord
  /\ UNCHANGED <<mmr2, insn, saved, start>>

\* The start of an instruction: MMR1 is cleared and MMR2 takes its address,
\* unless they are frozen.
ClearedLog == IF Frozen THEN mmr1 ELSE <<>>
LatchedAt(address) == IF Frozen THEN mmr2 ELSE address

\* The program's next instruction, wherever it stands.
Begin(i, at) ==
  /\ phase = "next"
  /\ phase' = "run" /\ insn' = i /\ todo' = Plan(i)
  /\ pc' = at /\ mmr1' = ClearedLog /\ mmr2' = LatchedAt(at)
  /\ start' = [r |-> r, pc |-> at]
  /\ ea' = 0
  /\ UNCHANGED <<r, pdr, mmr0, saved, written>>

NoInstruction == [kind |-> "none"]
NotStarted == [r |-> [reg \in Registers |-> 0], pc |-> 0]

Retire ==
  /\ phase = "run" /\ todo = <<>>
  /\ phase' = "next" /\ insn' = NoInstruction /\ ea' = 0
  /\ start' = NotStarted
  /\ UNCHANGED <<r, pc, pdr, mmr0, mmr1, mmr2, todo, saved, written>>

---------------------------------------------------------------------------
\* The operating system's handler (external)

HandlerAddress == VaRange

\* The handler's own instructions, which move registers of its own.
HandlerInstruction ==
  /\ phase \in {"entry", "fixing", "bus"}
  /\ mmr1' = mmr1_track(ClearedLog, "SP", 2)
  /\ mmr2' = LatchedAt(HandlerAddress)
  /\ UNCHANGED <<r, pc, pdr, mmr0, phase, insn, todo, ea, saved, start, written>>

\* One of them faults (an MFPI of the program's memory, say): the abort starts
\* the handler again, with an earlier error still in MMR0.
NestedAbort(va) ==
  /\ phase = "entry"
  /\ Errors(va, FALSE) # {}
  /\ mmr1' = ClearedLog /\ mmr2' = LatchedAt(HandlerAddress)
  /\ mmr0' = Captured(va, FALSE)
  /\ UNCHANGED <<r, pc, pdr, phase, insn, todo, ea, saved, start, written>>

NotSaved == [page |-> 0, log |-> <<>>, at |-> 0]

SaveAndClear ==
  /\ phase = "entry"
  /\ phase' = "fixing"
  /\ saved' = [page |-> mmr0.page, log |-> mmr1, at |-> mmr2]
  /\ mmr0' = [mmr0 EXCEPT !.err = {}]
  /\ UNCHANGED <<r, pc, pdr, mmr1, mmr2, insn, todo, ea, start, written>>

\* The registers with the logged moves undone.
Undone(log) ==
  [reg \in Registers |-> Shifted(r[reg], -LoggedMove(log, reg))]

\* A store to a PDR clears its A and W flags.
Stored(p, d) ==
  [pdr EXCEPT ![p] = [acf |-> d.acf, plf |-> d.plf, ed |-> d.ed, a |-> FALSE, w |-> FALSE]]

Resume ==
  /\ phase = "fixing"
  /\ pdr' = Stored(saved.page, [acf |-> 6, plf |-> BlockCount - 1, ed |-> FALSE])
  /\ dirty' = dirty \ {saved.page} /\ missed' = missed \ {saved.page}
  /\ r' = Undone(saved.log) /\ pc' = saved.at
  /\ phase' = "run" /\ todo' = Plan(insn) /\ ea' = 0
  /\ mmr1' = ClearedLog /\ mmr2' = LatchedAt(saved.at)
  /\ saved' = NotSaved
  /\ UNCHANGED <<mmr0, insn, start>>

\* A bus error ends the program, and another begins.
EndProgram ==
  /\ phase = "bus"
  /\ phase' = "next" /\ insn' = NoInstruction /\ ea' = 0
  /\ start' = NotStarted
  /\ r' = [reg \in Registers |-> 0]
  /\ UNCHANGED <<pc, pdr, mmr0, mmr1, mmr2, todo, saved, written>>

\* The operating system takes a page away, or restricts it, between instructions.
StorePdr(p, d) ==
  /\ phase = "next"
  /\ pdr' = Stored(p, d) /\ dirty' = dirty \ {p} /\ missed' = missed \ {p}
  /\ UNCHANGED <<r, pc, mmr0, mmr1, mmr2, phase, insn, todo, ea, saved, start>>

---------------------------------------------------------------------------

FullPage == [acf |-> 6, plf |-> BlockCount - 1, ed |-> FALSE, a |-> FALSE, w |-> FALSE]

\* pdp11_cpu_reset leaves every descriptor zero; the operating system then stores
\* them and turns management on, which is where the model begins.
Init ==
  /\ r = [reg \in Registers |-> 0] /\ pc = 0
  /\ pdr = [p \in Pages |-> FullPage]
  /\ mmr0 = [err |-> {}, page |-> 0] /\ mmr1 = <<>> /\ mmr2 = 0
  /\ phase = "next" /\ insn = NoInstruction /\ todo = <<>> /\ ea = 0
  /\ saved = NotSaved
  /\ start = NotStarted /\ dirty = {} /\ missed = {}

Next ==
  \/ \E i \in Instructions, at \in PcStarts : Begin(i, at)
  \/ Execute \/ Retire
  \/ HandlerInstruction \/ (\E va \in Va : NestedAbort(va))
  \/ SaveAndClear \/ Resume \/ EndProgram
  \/ \E p \in Pages, d \in PdrStores : StorePdr(p, d)

\* The processor goes on with an instruction it has begun, and the handler with
\* the abort it has taken; nothing obliges the program to begin another.
Fairness ==
  /\ WF_vars(Execute) /\ WF_vars(Retire)
  /\ WF_vars(SaveAndClear) /\ WF_vars(Resume) /\ WF_vars(EndProgram)

Spec == Init /\ [][Next]_vars /\ Fairness

---------------------------------------------------------------------------
\* Properties

\* Registers, descriptors and MMR0-2 have their widths; MMR1 has room for two moves.
TypeOK ==
  /\ r \in [Registers -> Va] /\ pc \in Va
  /\ pdr \in [Pages -> [acf : 0..7, plf : 0..(BlockCount - 1), ed : BOOLEAN,
                         a : BOOLEAN, w : BOOLEAN]]
  /\ mmr0.err \subseteq {"NR", "PL", "RO"} /\ mmr0.page \in Pages
  /\ Len(mmr1) <= 2 /\ mmr2 \in Va \cup {HandlerAddress}
  /\ phase \in {"next", "run", "entry", "fixing", "bus"}
  /\ insn \in Instructions \cup {NoInstruction} /\ ea \in Va
  /\ dirty \subseteq Pages /\ missed \subseteq Pages

\* The steps that move a register.
Moving(s) == s.op \in {"autoinc", "autodec", "incdef", "decdef", "push", "pop"}

\* What a step moves a register by.
StepMove(s, reg) == IF Moving(s) /\ s.reg = reg THEN s.delta ELSE 0

\* What the first k steps of a plan move it by.
MovedBy(plan, reg) ==
  LET sum[k \in 0 .. Len(plan)] ==
        IF k = 0 THEN 0 ELSE sum[k - 1] + StepMove(plan[k], reg)
  IN  sum

\* What an instruction moves a register by, all its operands together.
NetMove(i, reg) == MovedBy(Plan(i), reg)[Len(Plan(i))]

\* A step whose move is not in MMR1 when a reference of the same instruction can
\* still abort: a push and the pointer of @-(Rn), which move before their own
\* reference; a pop or an FP11 operand, when another reference follows.
UnloggedMove(plan, k) ==
  \/ plan[k].op \in {"push", "decdef"}
  \/ Moving(plan[k]) /\ ~plan[k].tracked /\ k < Len(plan)
Restartable(i) == \A k \in DOMAIN Plan(i) : ~UnloggedMove(Plan(i), k)

\* However many pages an instruction had to wait for, when it retires every
\* register has moved exactly once by what its operands call for: each abort left
\* in MMR1 and MMR2 what it takes to begin again from the first attempt's registers.
MovesExactlyOnce ==
  [][Retire /\ Restartable(insn) =>
       \A reg \in Registers : r[reg] = Shifted(start.r[reg], NetMove(insn, reg))]_vars

\* The same for every instruction: what cpu.h says MMR1 is for.
EveryAbortUnwinds ==
  [][Resume => r' = start.r /\ pc' = start.pc]_vars

\* While an error is held in MMR0 no reference, instruction or further abort
\* changes what the first abort recorded, whichever of them comes first.
FirstAbortKept ==
  [][Frozen /\ mmr0'.err # {} => UNCHANGED <<mmr0, mmr1, mmr2>>]_vars

\* A page that holds data newer than its copy on disk has its W flag set, through any
\* later reads and restarts, so that paging out by that flag loses nothing.  No write
\* the descriptor refused sets it; only one it let through that then found neither
\* memory nor a device makes a page look written that was not.
WrittenIsFlagged == TypeOK /\ dirty \cup missed = {p \in Pages : pdr[p].w}

\* An instruction that has begun ends, once per page it needs at most waiting for
\* the handler: the page the abort recorded is the one to repair.
Completes == phase = "run" ~> phase = "next"
=============================================================================
