--------------------------- MODULE CpuStep_proofs ---------------------------
(***************************************************************************)
(* Proofs about CpuStep, for every set of devices and vectors, every stack *)
(* limit and every abort depth.                                            *)
(***************************************************************************)
EXTENDS CpuStep, TLAPS, WellFoundedInduction

\* What a call in progress may assume of the processor it found.
InCall == phase \in {"exec", "abort"} => ~halted

\* Before the first setjmp no program has run: nothing can be pending.
NothingBeforeStart ==
  env = "none" => /\ phase = "top" /\ ~trace /\ ~yellow /\ ~waiting
                  /\ intReq = {} /\ pirq = {}

\* Without a panel nothing goes on after a fault runaway has halted it.
CleanUnlessPanel == ~Panel => CleanBetweenInstructions

\* The inductive invariant.
StepInv ==
  /\ TypeOK
  /\ CleanUnlessPanel
  /\ InCall
  /\ NothingBeforeStart

-----------------------------------------------------------------------------

\* The stack pointer stays a 16-bit register, however far it moves.
LEMMA StackWraps ==
  ASSUME NEW sp \in 0 .. StackWords - 1, NEW n \in Nat
  PROVE  /\ Down(sp, n) \in 0 .. StackWords - 1
         /\ Up(sp, n) \in 0 .. StackWords - 1
BY StackAssumption DEF Down, Up, RedReset

\* The words the stack pointer can be left at.
LEMMA StackMoves ==
  ASSUME TypeOK
  PROVE  /\ ksp \in 0 .. StackWords - 1
         /\ \A n \in Nat : /\ Down(ksp, n) \in 0 .. StackWords - 1
                         /\ Up(ksp, n) \in 0 .. StackWords - 1
         /\ RedReset \in 0 .. StackWords - 1
<1>1. ksp \in 0 .. StackWords - 1
  BY DEF TypeOK
<1>2. RedReset \in 0 .. StackWords - 1
  BY StackAssumption DEF RedReset
<1> QED
  BY <1>1, <1>2, StackWraps

\* The PSW loaded from a vector, with the old mode stored in it, is a PSW.
LEMMA EnteredTyped ==
  ASSUME TypeOK, NEW n \in Psw
  PROVE  Entered(n) \in Psw
BY DEF Entered, Psw, TypeOK

\* What do_trap guarantees its caller: a typed state, and, when it returns, the
\* exemption flags as the caller wants them and no unreported red zone.
TrapOutcome(y, s, done) ==
  /\ phase' \in {"top", "abort"}
  /\ env' \in {"none", "live", "stale"}
  /\ (env' = "none") <=> (env = "none")
  /\ abortVec' \in {"bus", "mme"} /\ refs' = 0
  /\ yellow' \in BOOLEAN /\ servicing' \in BOOLEAN /\ inTrapPush' \in BOOLEAN
  /\ psw' \in Psw
  /\ ksp' \in 0 .. StackWords - 1
  /\ phase' = "top" =>
       /\ servicing' = done /\ ~inTrapPush'
       /\ Zone(psw'.cm, s, ksp') # "red"
       /\ yellow' = (y \/ Zone(psw'.cm, s, ksp') = "yellow")

\* do_trap ends in one of two ways, whichever of its accesses faulted.
LEMMA DoTrapOutcome ==
  ASSUME TypeOK,
         NEW V \in SUBSET Psw, NEW y \in BOOLEAN, NEW s \in BOOLEAN,
         NEW done \in BOOLEAN, DoTrap(V, y, s, done)
  PROVE  TrapOutcome(y, s, done)
<1>1. CASE TrapVectorFault(y, s)
  BY <1>1 DEF TrapVectorFault, MemoryFault, TypeOK, TrapOutcome
<1>2. ASSUME NEW new \in Psw,
             TrapPushFault(new, y, s) \/ TrapTaken(new, y, s, done)
      PROVE  TrapOutcome(y, s, done)
  <2> DEFINE sp == IF new.cm = 0 THEN Down(ksp, 2) ELSE ksp
             red == Zone(new.cm, s, sp) = "red"
  <2>1. /\ ksp \in 0 .. StackWords - 1
        /\ Down(ksp, 1) \in 0 .. StackWords - 1
        /\ Down(ksp, 2) \in 0 .. StackWords - 1
        /\ RedReset \in 0 .. StackWords - 1
    BY StackMoves
  <2>2. CASE TrapPushFault(new, y, s)
    BY <2>1, <2>2 DEF TrapPushFault, MemoryFault, TypeOK, TrapOutcome
  <2>3. CASE TrapTaken(new, y, s, done) /\ ~red
    BY <2>1, <2>3 DEF TrapTaken, RedAbort, StepReturns, TypeOK, TrapOutcome
  <2>4. CASE TrapTaken(new, y, s, done) /\ red
    BY <2>1, <2>4 DEF TrapTaken, RedAbort, TypeOK, TrapOutcome
  <2> QED
    BY <1>2, <2>2, <2>3, <2>4
<1> QED
  BY <1>1, <1>2, EnteredTyped DEF DoTrap
-----------------------------------------------------------------------------
(* The invariant holds initially and every step preserves it.              *)

\* A processor just reset satisfies the invariant.
LEMMA InitInv == Init => StepInv
<1> SUFFICES ASSUME Init PROVE StepInv
  OBVIOUS
<1>1. psw \in Psw
  BY PswAssumption DEF Init, Psw
<1>2. /\ ksp \in 0 .. StackWords - 1
      /\ depth \in 0 .. MaxAbortDepth + 1 /\ depth <= MaxAbortDepth
      /\ refs \in 0 .. MaxRefs
  BY StackAssumption DEF Init, RedReset, MaxRefs
<1>3. TypeOK
  BY <1>1, <1>2 DEF Init, TypeOK
<1> QED
  BY <1>2, <1>3 DEF Init, StepInv, CleanUnlessPanel, CleanBetweenInstructions,
                    InCall, NothingBeforeStart

\* Everything that calls do_trap before the setjmp, from the top of a call.
LEMMA PreInstructionTrap ==
  ASSUME StepInv, AtTop, env # "none",
         NEW V \in SUBSET Psw, NEW y \in BOOLEAN, NEW s \in BOOLEAN,
         NEW done \in BOOLEAN, done => Panel,
         DoTrap(V, y, s, done),
         depth' = depth, halted' = halted, waiting' \in BOOLEAN,
         trace' \in BOOLEAN, intReq' \subseteq Devices, pirq' = pirq
  PROVE  StepInv'
<1>1. TrapOutcome(y, s, done)
  BY DoTrapOutcome DEF StepInv
<1>2. TypeOK'
  BY <1>1 DEF StepInv, TypeOK, TrapOutcome, AtTop, MaxRefs
<1> QED
  BY <1>1, <1>2 DEF StepInv, CleanUnlessPanel, CleanBetweenInstructions, InCall, AtTop,
                    NothingBeforeStart, TrapOutcome

\* The traps and grants at the top of a call preserve the invariant.
LEMMA TopStepInv ==
  ASSUME StepInv,
         TraceTrap \/ YellowTrap \/ (\E d \in Devices : DeviceGrant(d)) \/ PirGrant
  PROVE  StepInv'
<1> USE DEF AtTop, NoTrapDue
<1>1. /\ ~halted /\ phase = "top" /\ yellow \in BOOLEAN
      /\ servicing \in BOOLEAN /\ (servicing => Panel)
  BY DEF TraceTrap, YellowTrap, DeviceGrant, PirGrant, NoDeviceGrant, StepInv,
         TypeOK, CleanUnlessPanel, CleanBetweenInstructions
<1>2. \A v \in Vectors : TrapPsw[v] \in SUBSET Psw
  BY PswAssumption
<1>3. CASE TraceTrap
  BY <1>1, <1>2, <1>3, PreInstructionTrap
     DEF TraceTrap, Vectors, StepInv, TypeOK, NothingBeforeStart
<1>4. CASE YellowTrap
  BY <1>1, <1>2, <1>4, PreInstructionTrap
     DEF YellowTrap, Vectors, StepInv, TypeOK, NothingBeforeStart
<1>5. ASSUME NEW d \in Devices, DeviceGrant(d)
      PROVE  StepInv'
  BY <1>1, <1>5, PswAssumption, PreInstructionTrap
     DEF DeviceGrant, GrantsDevice, IsHighest, StepInv, TypeOK, NothingBeforeStart
<1>6. CASE PirGrant
  <2>1. psw.ipl \in 0..7
    BY PswAssumption DEF StepInv, TypeOK, Psw
  <2>2. pirq # {}
    BY <1>6, <2>1 DEF PirGrant, PirLevel
  <2>3. env # "none"
    BY <2>2 DEF StepInv, NothingBeforeStart
  <2> QED
    BY <1>1, <1>2, <1>6, <2>3, PreInstructionTrap
       DEF PirGrant, NoDeviceGrant, Vectors, StepInv, TypeOK
<1> QED
  BY <1>3, <1>4, <1>5, <1>6
\* Steps that start, skip or end a call without dispatching a trap.
LEMMA QuietStepInv ==
  ASSUME StepInv,
         \/ HaltedStep \/ WaitStep \/ StartInstruction \/ AbortHalts
         \/ WildJump \/ Crashed \/ Host
  PROVE  StepInv'
<1> USE DEF StepInv, CleanUnlessPanel, CleanBetweenInstructions, InCall,
            NothingBeforeStart
<1>1. CASE HaltedStep \/ Crashed
  BY <1>1 DEF HaltedStep, Crashed, vars, stepVars, flagVars, TypeOK
<1>2. CASE WaitStep
  BY <1>2 DEF WaitStep, NoInterrupt, NoDeviceGrant, NoTrapDue, AtTop, TypeOK,
              stepVars, flagVars
<1>3. CASE StartInstruction
  <2>1. /\ psw.t \in BOOLEAN
        /\ 0 \in 0 .. MaxAbortDepth + 1 /\ 0 <= MaxAbortDepth
    BY StackAssumption DEF TypeOK, Psw
  <2> QED
    BY <1>3, <2>1 DEF StartInstruction, NoInterrupt, NoDeviceGrant, NoTrapDue,
                      AtTop, TypeOK, MaxRefs
<1>4. CASE AbortHalts
  <2>1. MaxAbortDepth + 1 \in 0 .. MaxAbortDepth + 1
    BY StackAssumption
  <2> QED
    BY <1>4, <2>1 DEF AbortHalts, StepReturns, TypeOK, flagVars, MaxRefs
<1>5. CASE WildJump
  BY <1>5 DEF WildJump, TypeOK, flagVars
<1>6. ASSUME NEW d \in HostDevices, HostRaises(d)
      PROVE  StepInv'
  BY <1>6, DeviceAssumption DEF HostRaises, TypeOK, stepVars, flagVars
<1>7. CASE PanelHalt \/ PanelContinue
  <2>1. Panel /\ phase = "top" /\ phase' = "top" /\ halted' \in BOOLEAN
    BY <1>7 DEF PanelHalt, PanelContinue, stepVars
  <2>2. TypeOK'
    BY <1>7, <2>1 DEF PanelHalt, PanelContinue, TypeOK, stepVars, flagVars
  <2>3. NothingBeforeStart'
    BY <1>7, <2>1 DEF PanelHalt, PanelContinue, stepVars, flagVars
  <2> QED
    BY <2>1, <2>2, <2>3
<1> QED
  BY <1>1, <1>2, <1>3, <1>4, <1>5, <1>6, <1>7 DEF Host

\* The handler behind setjmp traps through the recorded vector.
LEMMA AbortTrapInv ==
  ASSUME StepInv, AbortTrap
  PROVE  StepInv'
<1> USE DEF StepInv
<1>1. /\ TrapPsw[abortVec] \in SUBSET Psw
      /\ yellow \in BOOLEAN /\ servicing \in BOOLEAN /\ ~halted
  BY PswAssumption DEF TypeOK, Vectors, AbortTrap, InCall
<1>2. TrapOutcome(yellow, servicing, FALSE)
  BY <1>1, DoTrapOutcome DEF AbortTrap
<1>3. depth' \in 0 .. MaxAbortDepth + 1 /\ depth' <= MaxAbortDepth
  BY StackAssumption DEF AbortTrap, TypeOK
<1>4. TypeOK'
  BY <1>2, <1>3 DEF TypeOK, TrapOutcome, AbortTrap, MaxRefs
<1> QED
  BY <1>1, <1>2, <1>3, <1>4
     DEF CleanUnlessPanel, CleanBetweenInstructions, InCall, NothingBeforeStart,
         TrapOutcome, AbortTrap

\* An instruction that leaves the exemption flags alone and does not halt.
LEMMA PlainInstruction ==
  ASSUME StepInv, InFlight,
         StepReturns \/ MemoryFault,
         depth' = depth, halted' \in BOOLEAN, waiting' \in BOOLEAN,
         trace' \in BOOLEAN, yellow' \in BOOLEAN,
         halted' => phase' = "top",
         servicing' = servicing, inTrapPush' = inTrapPush,
         psw' \in Psw, ksp' \in 0 .. StackWords - 1,
         intReq' \subseteq Devices, pirq' \subseteq PirLevels
  PROVE  StepInv'
<1> USE DEF StepInv, InFlight
<1>1. /\ phase' \in {"top", "abort"} /\ env # "none" /\ env' # "none"
      /\ env' \in {"none", "live", "stale"} /\ abortVec' \in {"bus", "mme"}
  BY DEF StepReturns, MemoryFault, NothingBeforeStart, TypeOK
<1>2. TypeOK'
  BY <1>1 DEF TypeOK, StepReturns, MemoryFault, MaxRefs
<1> QED
  BY <1>1, <1>2 DEF CleanUnlessPanel, CleanBetweenInstructions, InCall,
                    NothingBeforeStart

\* An operand reference that does not abort leaves the exemption flags alone.
LEMMA ReferenceInv ==
  ASSUME StepInv, Reference, phase' = phase,
         yellow' \in BOOLEAN, servicing' = servicing, inTrapPush' = inTrapPush,
         ksp' \in 0 .. StackWords - 1, intReq' \subseteq Devices
  PROVE  StepInv'
<1> USE DEF StepInv, Reference, InFlight
<1>1. refs' \in 0 .. MaxRefs
  BY DEF TypeOK, MaxRefs
<1>2. TypeOK'
  BY <1>1 DEF TypeOK
<1> QED
  BY <1>2 DEF CleanUnlessPanel, CleanBetweenInstructions, InCall, NothingBeforeStart

\* A push either aborts, with SP at 4, or is an operand reference.
LEMMA PushInv ==
  ASSUME StepInv, Push
  PROVE  StepInv'
<1> USE DEF StepInv
<1> DEFINE sp == IF psw.cm = 0 THEN Down(ksp, 1) ELSE ksp
           zone == Zone(psw.cm, inTrapPush, sp)
<1>1. sp \in 0 .. StackWords - 1 /\ RedReset \in 0 .. StackWords - 1
  BY StackMoves
<1>2. CASE zone = "red"
  <2>1. /\ InFlight /\ RedAbort
        /\ UNCHANGED <<depth, halted, waiting, trace, yellow, psw, intReq, pirq>>
    BY <1>2 DEF Push
  <2>2. /\ phase' = "abort" /\ refs' = 0 /\ env' = env /\ abortVec' = "bus"
        /\ ksp' = RedReset /\ servicing' = TRUE /\ inTrapPush' = FALSE
    BY <2>1 DEF RedAbort
  <2>3. refs' \in 0 .. MaxRefs
    BY <2>2 DEF MaxRefs
  <2>4. TypeOK'
    BY <1>1, <2>1, <2>2, <2>3 DEF TypeOK
  <2> QED
    BY <2>1, <2>2, <2>4
       DEF InFlight, CleanUnlessPanel, CleanBetweenInstructions, InCall,
           NothingBeforeStart
<1>3. CASE zone # "red"
  <2>1. /\ Reference /\ ksp' = sp
        /\ yellow' = (yellow \/ zone = "yellow")
        /\ UNCHANGED <<phase, servicing, inTrapPush, intReq>>
    BY <1>3 DEF Push
  <2>2. yellow' \in BOOLEAN /\ intReq' \subseteq Devices
    BY <2>1 DEF TypeOK
  <2> QED
    BY <1>1, <2>1, <2>2, ReferenceInv
<1> QED
  BY <1>2, <1>3

\* A trap within an instruction hands the exemption flags back as it found them.
LEMMA TrapInstructionInv ==
  ASSUME StepInv, TrapInstruction
  PROVE  StepInv'
<1> USE DEF StepInv
<1>1. /\ TrapPsw["instr"] \in SUBSET Psw
      /\ yellow \in BOOLEAN /\ servicing \in BOOLEAN /\ (servicing => Panel)
      /\ ~halted /\ env # "none"
  BY PswAssumption
     DEF TypeOK, Vectors, TrapInstruction, InFlight, CleanUnlessPanel,
         CleanBetweenInstructions, InCall, NothingBeforeStart
<1>2. TrapOutcome(yellow, servicing, servicing)
  <2>1. DoTrap(TrapPsw["instr"], yellow, servicing, servicing)
    BY DEF TrapInstruction
  <2> QED
    BY <1>1, <2>1, DoTrapOutcome
<1>3. intReq' \subseteq Devices
  BY DEF TrapInstruction, TypeOK
<1>4. TypeOK'
  BY <1>2, <1>3 DEF TypeOK, TrapOutcome, TrapInstruction, MaxRefs
<1> QED
  BY <1>1, <1>2, <1>4
     DEF CleanUnlessPanel, CleanBetweenInstructions, InCall, NothingBeforeStart,
         TrapOutcome, TrapInstruction

\* RTI and RTT only move the stack pointer and load the PSW, or fault.
LEMMA ReturnFromTrapInv ==
  ASSUME StepInv, NEW isRtt \in BOOLEAN, ReturnFromTrap(isRtt)
  PROVE  StepInv'
<1> USE DEF StepInv
<1>1. intReq' \subseteq Devices /\ (StepReturns \/ MemoryFault)
  BY DEF ReturnFromTrap, Completes, TypeOK
<1>2. ksp' \in 0 .. StackWords - 1
  BY StackMoves DEF ReturnFromTrap
<1>3. psw' \in Psw /\ trace' \in BOOLEAN
  BY DEF ReturnFromTrap, TypeOK, Psw
<1>4. InFlight /\ ~halted
  BY DEF ReturnFromTrap, NoOperand, InFlight, InCall
<1> QED
  BY <1>1, <1>2, <1>3, <1>4, PlainInstruction DEF ReturnFromTrap, TypeOK

\* Instructions: none touches the exemption flags, except by way of do_trap or
\* of a red-zone abort.
LEMMA InstructionInv ==
  ASSUME StepInv, Execute
  PROVE  StepInv'
<1> USE DEF StepInv
<1>1. InFlight /\ ~halted
  BY DEF Execute, Plain, AccessFault, Push, MoveSP, DeviceRegister, Reference,
         TrapInstruction, ReturnFromTrap, WritePsw, SetPriority, WritePirq,
         ResetInstruction, Wait, Halt, NoOperand, InFlight, InCall
<1>2. CASE Plain \/ AccessFault \/ WritePirq \/ ResetInstruction
  <2>1. intReq' \subseteq Devices /\ (StepReturns \/ MemoryFault)
    BY <1>2 DEF Plain, AccessFault, WritePirq, ResetInstruction,
                Completes, TypeOK
  <2> QED
    BY <1>1, <1>2, <2>1, PlainInstruction
       DEF Plain, AccessFault, WritePirq, ResetInstruction, TypeOK,
           flagVars
<1>3. CASE WritePsw \/ SetPriority
  <2>1. intReq' \subseteq Devices /\ StepReturns
    BY <1>3 DEF WritePsw, SetPriority, Completes, TypeOK
  <2>2. psw' \in Psw
    BY <1>3 DEF WritePsw, SetPriority, TypeOK, Psw
  <2> QED
    BY <1>1, <1>3, <2>1, <2>2, PlainInstruction
       DEF WritePsw, SetPriority, TypeOK, flagVars
<1>4. CASE Wait \/ Halt
  <2>1. intReq' \subseteq Devices /\ StepReturns
    BY <1>4 DEF Wait, Halt, Completes, TypeOK
  <2> QED
    BY <1>1, <1>4, <2>1, PlainInstruction
       DEF Wait, Halt, StepReturns, TypeOK, flagVars
<1>5. CASE MoveSP \/ DeviceRegister
  BY <1>5, ReferenceInv DEF MoveSP, DeviceRegister, TypeOK
<1> QED
  BY <1>2, <1>3, <1>4, <1>5, PushInv, TrapInstructionInv, ReturnFromTrapInv DEF Execute

\* Every step preserves the invariant.
LEMMA NextInv == StepInv /\ [Next]_vars => StepInv'
<1> SUFFICES ASSUME StepInv, [Next]_vars PROVE StepInv'
  OBVIOUS
<1>1. CASE Next
  BY <1>1, TopStepInv, QuietStepInv, InstructionInv, AbortTrapInv DEF Next, Step
<1>2. CASE UNCHANGED vars
  BY <1>2 DEF vars, stepVars, flagVars, StepInv, TypeOK, InCall,
              CleanUnlessPanel, CleanBetweenInstructions, NothingBeforeStart
<1> QED
  BY <1>1, <1>2

\* So it holds for ever.
LEMMA InvHolds == Spec => []StepInv
BY InitInv, NextInv, PTL DEF Spec

-----------------------------------------------------------------------------

\* Every variable keeps its type, whatever faults nest.
THEOREM TypeCorrect == Spec => []TypeOK
BY InvHolds, PTL DEF StepInv

\* in_trap_push and servicing_stack_trap never leak out of the trap they were
\* set for, at whatever access the trap, or the trap for its fault, faulted, as
\* long as no operator can continue a processor that a fault runaway halted.
THEOREM FlagsNeverLeak ==
  ASSUME ~Panel
  PROVE  Spec => []CleanBetweenInstructions
<1>1. StepInv => CleanBetweenInstructions
  BY DEF StepInv, CleanUnlessPanel
<1> QED
  BY <1>1, InvHolds, PTL

\* longjmp never runs on an abort_env that no setjmp filled.
THEOREM AbortsFindBuffer == Spec => []AbortHasBuffer
<1>1. StepInv => AbortHasBuffer
  BY DEF StepInv, NothingBeforeStart, AbortHasBuffer
<1> QED
  BY <1>1, InvHolds, PTL
\* Outside the exempt sequences, a kernel stack that is not in the red zone is
\* above its boundary.
LEMMA AboveRed ==
  ASSUME NEW m, m = 0, NEW sp \in 0 .. StackWords - 1, Limit = "register",
         Zone(m, FALSE, sp) # "red"
  PROVE  sp >= Red
BY StackAssumption DEF Zone

\* No kernel push of an instruction, or of its trap, stays in the red zone: no
\* flag left behind by an earlier fault can exempt it.  Same proviso.
THEOREM RedZoneAborts ==
  ASSUME ~Panel
  PROVE  Spec => RedNeverSilent
<1>1. ASSUME StepInv, Push \/ TrapInstruction, phase' # "abort",
             Limit = "register", psw'.cm = 0
      PROVE  ksp' >= Red
  <2> USE <1>1 DEF StepInv
  <2>1. inTrapPush = FALSE /\ servicing = FALSE /\ yellow \in BOOLEAN
    BY DEF Push, Reference, TrapInstruction, InFlight, CleanUnlessPanel,
           CleanBetweenInstructions, InCall, TypeOK
  <2>2. CASE Push
    <3>1. /\ Zone(psw.cm, inTrapPush, ksp') # "red"
          /\ ksp' = (IF psw.cm = 0 THEN Down(ksp, 1) ELSE ksp)
          /\ psw' = psw
      BY <2>2 DEF Push, RedAbort, Reference
    <3>2. ksp' \in 0 .. StackWords - 1
      BY <3>1, StackMoves
    <3> QED
      BY <2>1, <3>1, <3>2, AboveRed
  <2>3. CASE TrapInstruction
    <3>1. TrapOutcome(yellow, FALSE, FALSE)
      BY <2>1, <2>3, PswAssumption, DoTrapOutcome DEF TrapInstruction, Vectors
    <3> QED
      BY <3>1, AboveRed, <1>1 DEF TrapOutcome
  <2> QED
    BY <2>2, <2>3
<1>2. StepInv /\ [Next]_vars =>
        [(Push \/ TrapInstruction) /\ phase' # "abort" /\ Limit = "register"
           /\ psw'.cm = 0 => ksp' >= Red]_vars
  BY <1>1
<1> QED
  BY <1>2, InvHolds, PTL DEF Spec, RedNeverSilent

\* Servicing a stack trap does not arm the next one.
THEOREM YellowTrapSettles == Spec => YellowSettles
<1>1. ASSUME StepInv, YellowTrap, phase' = "top"
      PROVE  ~yellow'
  <2>1. TrapOutcome(FALSE, TRUE, FALSE)
    BY <1>1, PswAssumption, DoTrapOutcome DEF YellowTrap, Vectors, StepInv
  <2>2. Zone(psw'.cm, TRUE, ksp') = "ok"
    BY DEF Zone
  <2> QED
    BY <1>1, <2>1, <2>2 DEF TrapOutcome
<1>2. StepInv /\ [Next]_vars => [YellowTrap /\ phase' = "top" => ~yellow']_vars
  BY <1>1
<1> QED
  BY <1>2, InvHolds, PTL DEF Spec, YellowSettles

-----------------------------------------------------------------------------
(* Arbitration.                                                            *)

\* The encoded PIRQ level bounds every request and is itself requested.
LEMMA PirLevelIsHighest ==
  ASSUME pirq \subseteq 1..7
  PROVE  /\ PirLevel \in 0..7
         /\ \A l \in pirq : l <= PirLevel
         /\ pirq # {} => PirLevel \in pirq
<1>1. CASE pirq = {}
  BY <1>1 DEF PirLevel
<1>2. CASE pirq # {}
  <2>1. \E l \in pirq : \A k \in pirq : k <= l
    <3>1. PICK a \in pirq : TRUE
      BY <1>2
    <3>2. a \in {1, 2, 3, 4, 5, 6, 7}
      OBVIOUS
    <3>3. \A k \in pirq : k \in {1, 2, 3, 4, 5, 6, 7}
      OBVIOUS
    <3> QED
      BY <3>1, <3>2, <3>3, SMTT(60)
  <2>2. PirLevel \in pirq /\ \A k \in pirq : k <= PirLevel
    BY <1>2, <2>1 DEF PirLevel
  <2> QED
    BY <1>2, <2>2
<1> QED
  BY <1>1, <1>2
\* A non-empty set of naturals has a least element.
LEMMA LeastNatural ==
  ASSUME NEW T \in SUBSET Nat, T # {}
  PROVE  \E x \in T : \A y \in T : x <= y
<1>1. PICK x \in T : \A y \in T : ~ (<<y, x>> \in OpToRel(<, Nat))
  BY WFMin, NatLessThanWellFounded
<1>2. \A y \in T : ~ (y < x)
  BY <1>1 DEF OpToRel
<1> QED
  BY <1>2

\* Whenever a device requests, the scan of int_req finds one to serve: the
\* lowest id among those of the highest level.
LEMMA HighestExists ==
  ASSUME intReq \subseteq Devices, intReq # {}
  PROVE  \E d \in intReq : IsHighest(d)
<1>1. \A d \in intReq : d \in Nat /\ BR[d] \in 1..7
  BY DeviceAssumption
<1>2. PICK t \in intReq : \A e \in intReq : BR[e] <= BR[t]
  <2> DEFINE T == {7 - BR[d] : d \in intReq}
  <2>1. T \in SUBSET Nat /\ T # {}
    BY <1>1
  <2>2. PICK x \in T : \A y \in T : x <= y
    BY <2>1, LeastNatural
  <2>3. PICK t \in intReq : x = 7 - BR[t]
    BY <2>2
  <2>4. \A e \in intReq : 7 - BR[t] <= 7 - BR[e]
    BY <2>2, <2>3
  <2> QED
    BY <1>1, <2>4
<1>3. PICK d \in intReq : BR[d] = BR[t] /\ \A e \in intReq : BR[e] = BR[t] => d <= e
  <2> DEFINE T == {d \in intReq : BR[d] = BR[t]}
  <2>1. T \in SUBSET Nat /\ T # {}
    BY <1>1
  <2> QED
    BY <2>1, LeastNatural
<1> QED
  BY <1>1, <1>2, <1>3 DEF IsHighest

\* When nothing is granted no request exceeds the priority: it is not enough
\* that the best device and the best program request were both considered.
LEMMA NothingUnmasked ==
  ASSUME StepInv, NoInterrupt
  PROVE  /\ \A d \in intReq : BR[d] <= psw.ipl
         /\ \A l \in pirq : l <= psw.ipl
<1>1. /\ psw.ipl \in 0..7 /\ intReq \subseteq Devices /\ pirq \subseteq 1..7
  BY PswAssumption DEF StepInv, TypeOK, Psw
<1>2. PirLevel \in 0..7 /\ PirLevel <= psw.ipl /\ \A l \in pirq : l <= PirLevel
  BY <1>1, PirLevelIsHighest DEF NoInterrupt
<1>3. \A l \in pirq : l <= psw.ipl
  BY <1>1, <1>2
<1>4. ASSUME NEW d \in intReq
      PROVE  BR[d] <= psw.ipl
  <2>1. PICK h \in intReq : IsHighest(h)
    BY <1>1, HighestExists
  <2>2. BR[h] \in 1..7 /\ BR[d] \in 1..7 /\ BR[d] <= BR[h] /\ h \in Devices
    BY <1>1, <2>1, DeviceAssumption DEF IsHighest
  <2>3. ~ GrantsDevice(h)
    BY <2>2 DEF NoInterrupt, NoDeviceGrant
  <2> QED
    BY <1>1, <1>2, <2>1, <2>2, <2>3 DEF GrantsDevice
<1> QED
  BY <1>3, <1>4
\* What a step from between two calls can be.
LEMMA TopSteps ==
  ASSUME StepInv, [Next]_vars, phase = "top"
  PROVE  \/ StartInstruction
         \/ phase' # "exec" /\ \E d \in Devices : DeviceGrant(d)
         \/ phase' # "exec" /\ intReq \subseteq intReq'
<1>1. ASSUME NEW V \in SUBSET Psw, NEW y \in BOOLEAN, NEW s \in BOOLEAN,
             NEW done \in BOOLEAN, DoTrap(V, y, s, done)
      PROVE  phase' # "exec"
  BY <1>1, DoTrapOutcome DEF StepInv, TrapOutcome
<1>2. /\ yellow \in BOOLEAN /\ servicing \in BOOLEAN
      /\ \A v \in Vectors : TrapPsw[v] \in SUBSET Psw
      /\ \A d \in Devices : DevPsw[d] \in SUBSET Psw
  BY PswAssumption DEF StepInv, TypeOK
<1>3. CASE TraceTrap \/ YellowTrap \/ PirGrant
  BY <1>1, <1>2, <1>3 DEF TraceTrap, YellowTrap, PirGrant, Vectors
<1>4. ASSUME NEW d \in Devices, DeviceGrant(d)
      PROVE  phase' # "exec"
  BY <1>1, <1>2, <1>4 DEF DeviceGrant
<1>5. CASE \/ HaltedStep \/ WaitStep \/ Crashed \/ UNCHANGED vars
           \/ Host
  BY <1>5 DEF HaltedStep, WaitStep, Crashed, Host, HostRaises, PanelHalt,
              PanelContinue, vars, stepVars
<1>6. ~Execute /\ ~AbortHalts /\ ~AbortTrap /\ ~WildJump
  BY DEF Execute, Plain, AccessFault, Push, MoveSP, DeviceRegister, Reference,
         TrapInstruction, ReturnFromTrap, WritePsw, SetPriority, WritePirq,
         ResetInstruction, Wait, Halt, NoOperand, InFlight, AbortHalts, AbortTrap, WildJump
<1> QED
  BY <1>3, <1>4, <1>5, <1>6 DEF Next, Step

\* No instruction begins over a pending request that exceeds the priority.
THEOREM InstructionsRespectRequests == Spec => NoUnmaskedRequest
<1>1. ASSUME StepInv, [Next]_vars, phase = "top", phase' = "exec"
      PROVE  /\ ~waiting
             /\ \A d \in intReq : BR[d] <= psw.ipl
             /\ \A l \in pirq : l <= psw.ipl
  <2>1. NoInterrupt /\ ~waiting
    BY <1>1, TopSteps DEF StartInstruction
  <2> QED
    BY <1>1, <2>1, NothingUnmasked
<1>2. StepInv /\ [Next]_vars =>
        [phase = "top" /\ phase' = "exec" =>
           /\ ~waiting
           /\ \A d \in intReq : BR[d] <= psw.ipl
           /\ \A l \in pirq : l <= psw.ipl]_vars
  BY <1>1
<1> QED
  BY <1>2, InvHolds, PTL DEF Spec, NoUnmaskedRequest

\* A request withdrawn between instructions was granted alone and in order.
LEMMA DevicesInOrder == Spec => DeviceInOrder
<1>1. ASSUME StepInv, [Next]_vars, phase = "top", NEW d \in intReq \ intReq'
      PROVE  /\ intReq \ intReq' = {d}
             /\ BR[d] > psw.ipl
             /\ \A e \in intReq : BR[e] <= BR[d]
             /\ \A l \in pirq : l <= BR[d]
  <2>1. PICK g \in Devices : DeviceGrant(g)
    BY <1>1, TopSteps DEF StartInstruction
  <2>2. intReq' = intReq \ {g} /\ IsHighest(g) /\ GrantsDevice(g)
    BY <2>1 DEF DeviceGrant, GrantsDevice
  <2>3. g = d
    BY <1>1, <2>2
  <2>4. \A e \in intReq : BR[e] \in 1..7 /\ BR[e] <= BR[d]
    BY <1>1, <2>2, <2>3, DeviceAssumption DEF IsHighest, StepInv, TypeOK
  <2>5. pirq \subseteq 1..7
    BY <1>1, PswAssumption DEF StepInv, TypeOK
  <2>6. PirLevel \in 0..7 /\ \A l \in pirq : l <= PirLevel
    BY <2>5, PirLevelIsHighest
  <2>7. \A l \in pirq : l <= BR[d]
    BY <1>1, <2>2, <2>3, <2>4, <2>5, <2>6 DEF GrantsDevice
  <2> QED
    BY <1>1, <2>2, <2>3, <2>4, <2>7 DEF GrantsDevice
<1>2. StepInv /\ [Next]_vars =>
        [phase = "top" => \A d \in intReq \ intReq' :
           /\ intReq \ intReq' = {d}
           /\ BR[d] > psw.ipl
           /\ \A e \in intReq : BR[e] <= BR[d]
           /\ \A l \in pirq : l <= BR[d]]_vars
  BY <1>1
<1> QED
  BY <1>2, InvHolds, PTL DEF Spec, DeviceInOrder

\* A program interrupt is granted only over devices of a lower level: PIRQ is
\* looked at after the devices, and a device wins a tie.
LEMMA DevicesWinTies == Spec => DeviceWinsTie
<1>1. ASSUME StepInv, PirGrant, NEW d \in intReq
      PROVE  BR[d] < PirLevel
  <2>1. /\ psw.ipl \in 0..7 /\ intReq \subseteq Devices /\ pirq \subseteq 1..7
    BY <1>1, PswAssumption DEF StepInv, TypeOK, Psw
  <2>2. PirLevel \in 0..7 /\ PirLevel > psw.ipl
    BY <1>1, <2>1, PirLevelIsHighest DEF PirGrant
  <2>3. PICK h \in intReq : IsHighest(h)
    BY <2>1, HighestExists
  <2>4. BR[h] \in 1..7 /\ BR[d] \in 1..7 /\ BR[d] <= BR[h] /\ h \in Devices
    BY <2>1, <2>3, DeviceAssumption DEF IsHighest
  <2>5. ~ GrantsDevice(h)
    BY <1>1, <2>4 DEF PirGrant, NoDeviceGrant
  <2> QED
    BY <2>1, <2>2, <2>3, <2>4, <2>5 DEF GrantsDevice
<1>2. StepInv /\ [Next]_vars =>
        [PirGrant => \A d \in intReq : BR[d] < PirLevel]_vars
  BY <1>1
<1> QED
  BY <1>2, InvHolds, PTL DEF Spec, DeviceWinsTie

\* Grants respect priority, order and ties, for any table of devices and
\* levels.
THEOREM GrantsAreOrdered == Spec => GrantsInOrder
BY DevicesInOrder, DevicesWinTies, PTL DEF GrantsInOrder
=============================================================================
