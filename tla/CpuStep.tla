------------------------------ MODULE CpuStep ------------------------------
(***************************************************************************)
(* One call of pdp11_cpu_step (cpu/cpu.c) and the state that survives from *)
(* one call to the next: pending trace and yellow-stack traps, interrupt   *)
(* arbitration, WAIT and HALT, the trap sequence with the faults that can  *)
(* hit it halfway, the kernel stack limit, and the setjmp/longjmp abort.   *)
(*                                                                         *)
(* phase says where the processor is:                                      *)
(*   "top"     between two calls of pdp11_cpu_step                         *)
(*   "exec"    an instruction is being executed (setjmp has returned 0)    *)
(*   "abort"   cpu_bus_fault has called longjmp                            *)
(*   "crashed" the longjmp found no live frame and the host process died   *)
(*                                                                         *)
(* What an instruction computes is abstracted to its effect on this state; *)
(* memory is abstracted to the outcomes of an access: it works or faults.  *)
(* The kernel stack pointer counts words from address 0.                   *)
(***************************************************************************)
EXTENDS Integers, FiniteSets

CONSTANTS
  Devices,        \* PDP11_INT_* ids: 0 .. n, a lower id wins a tie
  HostDevices,    \* devices the frontend can make request (console_input)
  BR,             \* bus request level of each device (int_tab)
  Modes,          \* processor modes the model's psw_mask can hold
  Levels,         \* priorities the PSW takes in the instance
  PirLevels,      \* program interrupt levels in use
  TrapPsw,        \* PSWs a trap vector may hold, by vector
  DevPsw,         \* PSWs a device vector may hold, by device
  StackWords,     \* the kernel stack pointer ranges over 0 .. StackWords-1
  Yellow, Red,    \* STKLIM + 0400 and STKLIM + 0340, in words
  Limit,          \* "none" (11/03), "fixed" (has_stklf), "register" (has_stklr)
  HasExpt,        \* an explicit PSW store may change the T bit (has_expt)
  MaxAbortDepth,  \* faults after which the processor halts (8 in the code)
  Panel           \* the frontend has the console panel (the SDL one)

Vectors == {"bus", "mme", "bpt", "pirq", "instr"}

Psw == [cm : Modes, pm : Modes, ipl : Levels, t : BOOLEAN]

\* JSR SP,-(SP) makes the most references to SP: its operand, its push, its load.
MaxRefs == 3

\* The word that kernel SP is forced to by a red-zone abort: address 4.
RedReset == 2

ASSUME DeviceAssumption ==
  /\ Devices \subseteq Nat
  /\ HostDevices \subseteq Devices
  /\ BR \in [Devices -> 1..7]

ASSUME PswAssumption ==
  /\ 0 \in Modes
  /\ Modes \subseteq 0..3
  /\ 0 \in Levels
  /\ Levels \subseteq 0..7
  /\ PirLevels \subseteq 1..7
  /\ TrapPsw \in [Vectors -> SUBSET Psw]
  /\ DevPsw \in [Devices -> SUBSET Psw]

ASSUME StackAssumption ==
  /\ StackWords \in Nat
  /\ StackWords > RedReset
  /\ Yellow \in Nat
  /\ Red \in Nat
  /\ Red <= Yellow   \* STKLIM below 0177400, where the sum would wrap
  /\ Limit \in {"none", "fixed", "register"}
  /\ HasExpt \in BOOLEAN
  /\ MaxAbortDepth \in Nat
  /\ Panel \in BOOLEAN

VARIABLES
  phase,
  env,        \* abort_env: "none" never set, "live" set in this call, "stale"
  depth,      \* abort_depth, which counts on past MaxAbortDepth + 1 unobserved
  abortVec,   \* abort_vec
  refs,       \* operand references the instruction may still make
  halted, waiting,
  trace,      \* trace_pending
  yellow,     \* stack_yellow_pending
  servicing,  \* servicing_stack_trap
  inTrapPush, \* in_trap_push
  psw,
  ksp,        \* the kernel stack pointer, in words
  intReq,     \* int_req, as a set of devices
  pirq        \* PIRQ<15:9>, as a set of levels

stepVars == <<phase, env, depth, abortVec, refs>>
flagVars == <<trace, yellow, servicing, inTrapPush>>
vars == <<stepVars, halted, waiting, flagVars, psw, ksp, intReq, pirq>>

\* Every variable has its type.
TypeOK ==
  /\ phase \in {"top", "exec", "abort", "crashed"}
  /\ env \in {"none", "live", "stale"}
  /\ depth \in 0 .. MaxAbortDepth + 1
  /\ abortVec \in {"bus", "mme"}
  /\ refs \in 0 .. MaxRefs
  /\ halted \in BOOLEAN /\ waiting \in BOOLEAN
  /\ trace \in BOOLEAN /\ yellow \in BOOLEAN
  /\ servicing \in BOOLEAN /\ inTrapPush \in BOOLEAN
  /\ psw \in Psw
  /\ ksp \in 0 .. StackWords - 1
  /\ intReq \subseteq Devices
  /\ pirq \subseteq PirLevels

Init ==
  /\ phase = "top" /\ env = "none" /\ depth = 0 /\ abortVec = "bus"
  /\ refs = 0
  /\ halted = FALSE /\ waiting = FALSE
  /\ trace = FALSE /\ yellow = FALSE
  /\ servicing = FALSE /\ inTrapPush = FALSE
  /\ psw = [cm |-> 0, pm |-> 0, ipl |-> 0, t |-> FALSE]
  /\ ksp = 0
  /\ intReq = {} /\ pirq = {}

-----------------------------------------------------------------------------
(* The kernel stack and its limit.                                         *)

\* The stack pointer n words further down; it wraps like the 16-bit register.
Down(sp, n) == (sp - n) % StackWords
Up(sp, n) == (sp + n) % StackWords

\* Mutant of Zone: the last word of the red zone is taken for yellow.
ZoneOffByOne(m, exempt, sp) ==
  IF exempt \/ m # 0 \/ sp >= Yellow \/ Limit = "none" THEN "ok"
  ELSE IF Limit = "fixed" \/ sp + 1 >= Red THEN "yellow"
  ELSE "red"

\* check_stack_limit: what a push at word sp in mode m leads to.
Zone(m, exempt, sp) ==
  IF exempt \/ m # 0 \/ sp >= Yellow \/ Limit = "none" THEN "ok"
  ELSE IF Limit = "fixed" \/ sp >= Red THEN "yellow"
  ELSE "red"

\* The call of pdp11_cpu_step returns: the frame abort_env points to is gone.
StepReturns ==
  /\ phase' = "top" /\ refs' = 0
  /\ env' = IF env = "live" THEN "stale" ELSE env
  /\ UNCHANGED abortVec

\* cpu_bus_fault: a bus or memory-management abort recorded for the handler.
MemoryFault ==
  /\ phase' = "abort" /\ refs' = 0
  /\ abortVec' \in {"bus", "mme"}
  /\ UNCHANGED env

\* check_stack_limit in the red zone: SP is forced to 4 and the abort is taken.
RedAbort ==
  /\ ksp' = RedReset
  /\ servicing' = TRUE
  /\ inTrapPush' = FALSE
  /\ phase' = "abort" /\ refs' = 0
  /\ abortVec' = "bus"
  /\ UNCHANGED env

-----------------------------------------------------------------------------
(* do_trap.  y is stack_yellow_pending and s servicing_stack_trap while it *)
(* runs; the caller stores done in servicing_stack_trap when it returns.   *)

TrapVectorFault(y, s) ==
  /\ MemoryFault
  /\ yellow' = y /\ servicing' = s
  /\ UNCHANGED <<psw, ksp, inTrapPush>>

TrapPushFault(new, y, s) ==
  /\ MemoryFault
  /\ psw' = new
  /\ \E pushed \in {1, 2} :
       ksp' = IF new.cm = 0 THEN Down(ksp, pushed) ELSE ksp
  /\ inTrapPush' = TRUE
  /\ yellow' = y /\ servicing' = s

TrapTaken(new, y, s, done) ==
  LET sp == IF new.cm = 0 THEN Down(ksp, 2) ELSE ksp
      zone == Zone(new.cm, s, sp)
  IN /\ psw' = new
     /\ \/ /\ zone # "red"
           /\ yellow' = (y \/ zone = "yellow")
           /\ servicing' = done
           /\ inTrapPush' = FALSE
           /\ ksp' = sp
           /\ StepReturns
        \/ /\ zone = "red"
           /\ yellow' = y
           /\ RedAbort

\* The PSW read from the vector, its previous-mode field set to the old mode.
Entered(n) == [n EXCEPT !.pm = psw.cm]

DoTrap(vectorPsw, y, s, done) ==
  \/ TrapVectorFault(y, s)
  \/ \E n \in vectorPsw : \/ TrapPushFault(Entered(n), y, s)
                          \/ TrapTaken(Entered(n), y, s, done)

-----------------------------------------------------------------------------
(* The top of pdp11_cpu_step, in its order.                                *)

AtTop == phase = "top" /\ ~halted

\* A step of a halted processor does nothing.
HaltedStep == phase = "top" /\ halted /\ UNCHANGED vars

TraceTrap ==
  /\ AtTop /\ trace
  /\ trace' = FALSE
  /\ DoTrap(TrapPsw["bpt"], yellow, servicing, servicing)
  /\ UNCHANGED <<depth, halted, waiting, intReq, pirq>>

\* Mutants of YellowTrap: the pushes of the trap are not exempt from the limit;
\* the pending flag is not cleared.
YellowTrapNotExempt ==
  /\ AtTop /\ ~trace /\ yellow
  /\ DoTrap(TrapPsw["bus"], FALSE, servicing, FALSE)
  /\ UNCHANGED <<depth, halted, waiting, trace, intReq, pirq>>

YellowTrapStaysPending ==
  /\ AtTop /\ ~trace /\ yellow
  /\ DoTrap(TrapPsw["bus"], yellow, TRUE, FALSE)
  /\ UNCHANGED <<depth, halted, waiting, trace, intReq, pirq>>

YellowTrap ==
  /\ AtTop /\ ~trace /\ yellow
  /\ DoTrap(TrapPsw["bus"], FALSE, TRUE, FALSE)
  /\ UNCHANGED <<depth, halted, waiting, trace, intReq, pirq>>

NoTrapDue == AtTop /\ ~trace /\ ~yellow

\* Mutant of IsHighest: the scan keeps the last pending device, not the highest.
IsLast(d) == d \in intReq /\ \A e \in intReq : e <= d

\* highest_int: the highest BR level pending, the lowest id on a tie.
IsHighest(d) ==
  /\ d \in intReq
  /\ \A e \in intReq : BR[e] < BR[d] \/ (BR[e] = BR[d] /\ d <= e)

\* highest_pir_level.
PirLevel == IF pirq = {} THEN 0
            ELSE CHOOSE l \in pirq : \A k \in pirq : k <= l

\* Mutant of GrantsDevice: program requests are not looked at.
GrantsAnyDevice(d) == IsHighest(d) /\ BR[d] > psw.ipl

GrantsDevice(d) == IsHighest(d) /\ BR[d] > psw.ipl /\ BR[d] >= PirLevel

DeviceGrant(d) ==
  /\ NoTrapDue /\ GrantsDevice(d)
  /\ waiting' = FALSE
  /\ intReq' = intReq \ {d}
  /\ DoTrap(DevPsw[d], yellow, servicing, servicing)
  /\ UNCHANGED <<depth, halted, trace, pirq>>

NoDeviceGrant == NoTrapDue /\ ~ \E d \in Devices : GrantsDevice(d)

PirGrant ==
  /\ NoDeviceGrant /\ PirLevel > psw.ipl
  /\ waiting' = FALSE
  /\ DoTrap(TrapPsw["pirq"], yellow, servicing, servicing)
  /\ UNCHANGED <<depth, halted, trace, intReq, pirq>>

NoInterrupt == NoDeviceGrant /\ ~(PirLevel > psw.ipl)

\* An idle step: the events that came due raise the requests in raised.
WaitStep ==
  /\ NoInterrupt /\ waiting
  /\ \E raised \in SUBSET Devices : intReq' = intReq \cup raised
  /\ UNCHANGED <<stepVars, halted, waiting, flagVars, psw, ksp, pirq>>

StartInstruction ==
  /\ NoInterrupt /\ ~waiting
  /\ trace' = psw.t
  /\ phase' = "exec" /\ env' = "live" /\ depth' = 0 /\ refs' = MaxRefs
  /\ UNCHANGED <<abortVec, halted, waiting, yellow, servicing, inTrapPush,
                 psw, ksp, intReq, pirq>>

-----------------------------------------------------------------------------
(* Instructions, by their effect on this state: operand references that    *)
(* leave the processor in the instruction, then one action that ends it.   *)

InFlight == phase = "exec"

\* An instruction without operands.
NoOperand == InFlight /\ refs = MaxRefs

Reference ==
  /\ InFlight /\ refs > 0
  /\ refs' = refs - 1
  /\ UNCHANGED <<env, depth, abortVec, halted, waiting, trace, psw, pirq>>

\* -(SP), and the push of JSR and MFPx: SP goes down and is checked.
Push ==
  LET sp == IF psw.cm = 0 THEN Down(ksp, 1) ELSE ksp
      zone == Zone(psw.cm, inTrapPush, sp)
  IN \/ /\ zone = "red"
        /\ InFlight /\ refs > 0
        /\ RedAbort
        /\ UNCHANGED <<depth, halted, waiting, trace, yellow, psw, intReq, pirq>>
     \/ /\ zone # "red"
        /\ Reference
        /\ ksp' = sp
        /\ yellow' = (yellow \/ zone = "yellow")
        /\ UNCHANGED <<phase, servicing, inTrapPush, intReq>>

\* (SP)+, RTS, MTPx: SP goes up; SP as a destination, MARK, JSR SP, FP11
\* operands: it takes any value.  None of these is checked against the limit.
MoveSP ==
  /\ Reference
  /\ ksp' \in 0 .. StackWords - 1
  /\ UNCHANGED <<phase, yellow, servicing, inTrapPush, intReq>>

\* A device register read or written may set and clear any of the requests.
DeviceRegister ==
  /\ Reference
  /\ intReq' \in SUBSET Devices
  /\ UNCHANGED <<phase, yellow, servicing, inTrapPush, ksp>>

\* A fetch or an operand access faults.
AccessFault ==
  /\ InFlight /\ MemoryFault
  /\ UNCHANGED <<depth, halted, waiting, flagVars, psw, ksp, intReq, pirq>>

\* The end of a completed instruction: service_due_events may raise requests.
Completes ==
  /\ StepReturns
  /\ \E raised \in SUBSET Devices : intReq' = intReq \cup raised

\* An instruction with no other effect on this state.
Plain ==
  /\ InFlight /\ Completes
  /\ UNCHANGED <<depth, halted, waiting, flagVars, psw, ksp, pirq>>

\* EMT, TRAP, BPT, IOT, reserved instructions, and floating-point exceptions
\* after their operands: do_trap inside the instruction.
TrapInstruction ==
  /\ InFlight
  /\ DoTrap(TrapPsw["instr"], yellow, servicing, servicing)
  /\ \E raised \in SUBSET Devices :
       intReq' = IF phase' = "top" THEN intReq \cup raised ELSE intReq
  /\ UNCHANGED <<depth, halted, waiting, trace, pirq>>

\* RTI and RTT: pop PC, pop PSW from the current stack, then switch.  RTI that
\* restores T takes the trace trap at once.  Either pop may fault.
ReturnFromTrap(isRtt) ==
  /\ NoOperand
  /\ \/ \E new \in Psw :
          /\ psw' = new
          /\ trace' = (trace \/ (~isRtt /\ new.t))
          /\ ksp' = IF psw.cm = 0 THEN Up(ksp, 2) ELSE ksp
          /\ Completes
     \/ /\ MemoryFault
        /\ \E popped \in {0, 1} :
             ksp' = IF psw.cm = 0 THEN Up(ksp, popped) ELSE ksp
        /\ UNCHANGED <<psw, trace, intReq>>
  /\ UNCHANGED <<depth, halted, waiting, yellow, servicing, inTrapPush, pirq>>

\* A store to the PSW at 0177776; SPL changes the priority in Kernel mode.
WritePsw ==
  /\ InFlight
  /\ \E new \in Psw : psw' = IF HasExpt THEN new ELSE [new EXCEPT !.t = psw.t]
  /\ Completes
  /\ UNCHANGED <<depth, halted, waiting, flagVars, ksp, pirq>>

SetPriority ==
  /\ NoOperand
  /\ \E l \in Levels : psw' = IF psw.cm = 0 THEN [psw EXCEPT !.ipl = l] ELSE psw
  /\ Completes
  /\ UNCHANGED <<depth, halted, waiting, flagVars, ksp, pirq>>

WritePirq ==
  /\ InFlight
  /\ pirq' \in SUBSET PirLevels
  /\ Completes
  /\ UNCHANGED <<depth, halted, waiting, flagVars, psw, ksp>>

\* RESET: INIT drops every request; events due at its end may raise new ones.
ResetInstruction ==
  /\ NoOperand /\ StepReturns
  /\ pirq' = {}
  /\ intReq' \in SUBSET Devices
  /\ UNCHANGED <<depth, halted, waiting, flagVars, psw, ksp>>

Wait ==
  /\ NoOperand
  /\ waiting' = TRUE
  /\ Completes
  /\ UNCHANGED <<depth, halted, flagVars, psw, ksp, pirq>>

Halt ==
  /\ NoOperand
  /\ halted' = TRUE
  /\ Completes
  /\ UNCHANGED <<depth, waiting, flagVars, psw, ksp, pirq>>

Execute ==
  \/ Push \/ MoveSP \/ DeviceRegister \/ AccessFault
  \/ Plain \/ TrapInstruction
  \/ \E isRtt \in BOOLEAN : ReturnFromTrap(isRtt)
  \/ WritePsw \/ SetPriority \/ WritePirq \/ ResetInstruction \/ Wait \/ Halt

-----------------------------------------------------------------------------
(* The setjmp arm.  A longjmp to a frame that returned is undefined: it    *)
(* lands in the handler, run as part of the current call, or kills the     *)
(* process.                                                                *)

AbortHalts ==
  /\ phase = "abort" /\ depth + 1 > MaxAbortDepth
  /\ depth' = MaxAbortDepth + 1
  /\ halted' = TRUE
  /\ StepReturns
  /\ UNCHANGED <<waiting, flagVars, psw, ksp, intReq, pirq>>

\* Mutants of AbortTrap: servicing_stack_trap is not cleared; faults within the
\* handler are not counted.
AbortTrapKeepsServicing ==
  /\ phase = "abort" /\ depth + 1 <= MaxAbortDepth
  /\ depth' = depth + 1
  /\ DoTrap(TrapPsw[abortVec], yellow, servicing, servicing)
  /\ UNCHANGED <<halted, waiting, trace, intReq, pirq>>

AbortTrapUncounted ==
  /\ phase = "abort" /\ depth + 1 <= MaxAbortDepth
  /\ DoTrap(TrapPsw[abortVec], yellow, servicing, FALSE)
  /\ UNCHANGED <<depth, halted, waiting, trace, intReq, pirq>>

AbortTrap ==
  /\ phase = "abort" /\ depth + 1 <= MaxAbortDepth
  /\ depth' = depth + 1
  /\ DoTrap(TrapPsw[abortVec], yellow, servicing, FALSE)
  /\ UNCHANGED <<halted, waiting, trace, intReq, pirq>>

WildJump ==
  /\ phase = "abort" /\ env # "live"
  /\ phase' = "crashed"
  /\ UNCHANGED <<env, depth, abortVec, refs, halted, waiting, flagVars, psw, ksp,
                 intReq, pirq>>

Crashed == phase = "crashed" /\ UNCHANGED vars

\* Between two steps the frontend may type a character (console_input); it
\* interrupts only once a program has set the receiver's interrupt enable.
HostRaises(d) ==
  /\ phase = "top" /\ env # "none"
  /\ intReq' = intReq \cup {d}
  /\ UNCHANGED <<stepVars, halted, waiting, flagVars, psw, ksp, pirq>>

\* The panel's HALT switch, and CONT or START (START also loads the PC).  STEP
\* is CONT, one call, HALT.  None of them clears anything but halted.
PanelHalt ==
  /\ Panel /\ phase = "top"
  /\ halted' = TRUE
  /\ UNCHANGED <<stepVars, waiting, flagVars, psw, ksp, intReq, pirq>>

PanelContinue ==
  /\ Panel /\ phase = "top"
  /\ halted' = FALSE
  /\ UNCHANGED <<stepVars, waiting, flagVars, psw, ksp, intReq, pirq>>

Step ==
  \/ HaltedStep \/ TraceTrap \/ YellowTrap
  \/ \E d \in Devices : DeviceGrant(d)
  \/ PirGrant \/ WaitStep \/ StartInstruction
  \/ Execute
  \/ AbortHalts \/ AbortTrap \/ WildJump \/ Crashed

Host == PanelHalt \/ PanelContinue \/ \E d \in HostDevices : HostRaises(d)

Next == Step \/ Host

Spec == Init /\ [][Next]_vars

\* The frontend's loop calls pdp11_cpu_step for ever, and a call that has begun
\* runs on.
FairSpec == Spec /\ WF_vars(Step)
-----------------------------------------------------------------------------
(* Safety.                                                                 *)

\* The two exemption flags of check_stack_limit never outlive the trap they
\* were set for, whichever of its accesses faulted: a processor that goes on
\* running starts every call and every instruction with both clear.  (Unless an
\* operator continues it after a fault runaway halted it: CONT clears neither.)
CleanBetweenInstructions ==
  phase \in {"top", "exec"} /\ ~halted => ~servicing /\ ~inTrapPush

\* Every abort finds an abort_env that some call has set: nothing that can
\* fault is reached before the first instruction.
AbortHasBuffer == phase = "abort" => env # "none"

\* No push of an instruction, its trap included, leaves the kernel stack in the
\* red zone: it aborts instead.  A flag leaked by an earlier fault would exempt it.
RedNeverSilent ==
  [][(Push \/ TrapInstruction) /\ phase' # "abort" /\ Limit = "register"
       /\ psw'.cm = 0 => ksp' >= Red]_vars

\* Servicing a yellow-zone trap never arms another one: the handler's first
\* instruction runs although the stack is still in the yellow zone.
YellowSettles == [][YellowTrap /\ phase' = "top" => ~yellow']_vars

\* An instruction begins only when no pending request, program or device,
\* exceeds the priority in the PSW, and never while WAIT idles.
NoUnmaskedRequest ==
  [][phase = "top" /\ phase' = "exec" =>
       /\ ~waiting
       /\ \A d \in intReq : BR[d] <= psw.ipl
       /\ \A l \in pirq : l <= psw.ipl]_vars

\* A request acknowledged between instructions is one, exceeds the priority,
\* and nothing pending, device or program, outranks it.
DeviceInOrder ==
  [][phase = "top" => \A d \in intReq \ intReq' :
       /\ intReq \ intReq' = {d}
       /\ BR[d] > psw.ipl
       /\ \A e \in intReq : BR[e] <= BR[d]
       /\ \A l \in pirq : l <= BR[d]]_vars

\* At one level the device wins: a program request is granted only when every
\* pending device request is masked or at a lower level.
DeviceWinsTie ==
  [][PirGrant => \A d \in intReq : BR[d] < PirLevel]_vars

\* Requests of devices and of the program are granted in one order.
GrantsInOrder == DeviceInOrder /\ DeviceWinsTie

-----------------------------------------------------------------------------
(* Liveness.                                                               *)

\* A call of pdp11_cpu_step returns: faults inside the trap that handles a
\* fault end in a halt after MaxAbortDepth of them.
StepEnds == phase \in {"exec", "abort"} ~> phase \in {"top", "crashed"}

\* Traps and interrupts alone do not keep the processor busy for ever: it
\* comes to execute an instruction, to wait, or to halt.  This needs vectors
\* whose PSW masks the level they serve.
ReachesInstruction ==
  []<>(phase \in {"exec", "crashed"} \/ halted \/ waiting)

-----------------------------------------------------------------------------
(* What the comments of the source say, and the code does not do.          *)

\* cpu.h: a fault "longjmps to abort_env, set up at the top of each
\* instruction".  The traps taken before the setjmp can fault too.
AbortHasFrame == phase = "abort" => env = "live"

\* cpu.c: "WAIT idles the processor until an interrupt arrives".
IdleWhileWaiting == [][waiting /\ waiting' => UNCHANGED <<psw, ksp>>]_vars

\* cpu.c: below the red boundary the abort is taken "instead" of the deferred
\* yellow trap: none is left to be taken on the stack reset to 4.
RedSupersedesYellow ==
  [][phase = "abort" /\ servicing /\ phase' = "top" /\ ~halted' => ~yellow']_vars
=============================================================================
