---------------------------- MODULE Events_proofs ----------------------------
(***************************************************************************)
(* Emulated time for every clock period, every set of instruction costs no *)
(* longer than one, every set of controllers and every delay: no deadline  *)
(* is ever passed over, the clock keeps its beat, and the idle skip of WAIT*)
(* arrives where spinning through the same time would.                     *)
(***************************************************************************)
EXTENDS Events, WellFoundedInduction, TLAPS

\* What holds of the deadlines and requests between two steps, with the type.
Sound(s) ==
  /\ s \in Machine
  /\ s.clkLeft \in 1 .. Tick
  /\ \A d \in s.busy : s.left[d] > 0
  /\ s.req \subseteq s.ie
  /\ Clock \in s.req => s.clkDone

\* The inductive invariant.
TimeInv ==
  /\ TypeOK
  /\ Sound(m)
  /\ OnTheBeat

-----------------------------------------------------------------------------
(* Time that passes.                                                        *)

\* A number below the modulus is its own remainder.
LEMMA RemainderBelow ==
  ASSUME NEW t \in Nat \ {0}, NEW a \in 0 .. t - 1
  PROVE  a % t = a
  OBVIOUS

\* A number between the modulus and its double leaves the difference.
LEMMA RemainderAbove ==
  ASSUME NEW t \in Nat \ {0}, NEW a \in t .. 2 * t - 1
  PROVE  a % t = a - t
  OBVIOUS

\* service_due_events after at most one period leaves nothing overdue.
LEMMA ServicedSound ==
  ASSUME NEW s, Sound(s), NEW n \in 0 .. Tick
  PROVE  Sound(Serviced(s, n))
<1> DEFINE r == Serviced(s, n)
           fired == {d \in s.busy : s.left[d] <= n}
<1>1. /\ s \in Machine /\ s.clkLeft \in 1 .. Tick /\ Tick \in Nat \ {0}
      /\ s.left \in [Timers -> Int] /\ s.busy \subseteq Timers
      /\ s.clkDone \in BOOLEAN /\ s.ie \subseteq Sources
      /\ s.req \subseteq s.ie
  BY TimeAssumption DEF Sound, Machine
<1>2. r.clkLeft \in 1 .. Tick
  BY <1>1 DEF Serviced, Due, NextTick
<1>3. r.busy \subseteq Timers /\ r.left \in [Timers -> Int]
  BY <1>1 DEF Serviced, Due, NextTick
<1>4. r.ie = s.ie /\ r.req \subseteq r.ie
  BY <1>1 DEF Serviced, Due, NextTick
<1>5. r.clkDone \in BOOLEAN /\ (Clock \in r.req => r.clkDone)
  <2>1. r.clkDone \in BOOLEAN
    BY <1>1 DEF Serviced, Due, NextTick
  <2>2. ASSUME Clock \in r.req PROVE r.clkDone
    <3>1. CASE s.clkLeft <= n
      BY <3>1 DEF Serviced, Due, NextTick
    <3>2. CASE ~(s.clkLeft <= n)
      <4>1. Clock \in s.req
        BY <1>1, <2>2, <3>2, TimeAssumption DEF Serviced, Due, NextTick
      <4> QED BY <4>1 DEF Sound, Serviced, Due
    <3> QED BY <3>1, <3>2
  <2> QED BY <2>1, <2>2
<1>6. \A d \in r.busy : r.left[d] > 0
  BY <1>1 DEF Serviced, Due, NextTick
<1>7. r \in Machine
  <2>1. /\ r = [clkLeft |-> r.clkLeft, clkDone |-> r.clkDone, busy |-> r.busy,
                left |-> r.left, ie |-> r.ie, req |-> r.req]
    BY DEF Serviced, Due, NextTick
  <2>2. r.clkLeft \in Int /\ r.ie \subseteq Sources /\ r.req \subseteq Sources
    BY <1>1, <1>2, <1>4
  <2> QED BY <1>3, <1>5, <2>1, <2>2 DEF Machine
<1> QED BY <1>2, <1>4, <1>5, <1>6, <1>7 DEF Sound

\* The clock's next tick stays at a multiple of its period.
LEMMA ServicedOnTheBeat ==
  ASSUME NEW s, Sound(s), NEW n \in 0 .. Tick,
         beat \in 0 .. Tick - 1, s.clkLeft + beat = Tick, Passes(n)
  PROVE  beat' \in 0 .. Tick - 1 /\ Serviced(s, n).clkLeft + beat' = Tick
<1>1. Tick \in Nat \ {0} /\ s.clkLeft \in 1 .. Tick
  BY TimeAssumption DEF Sound
<1>2. CASE s.clkLeft <= n
  <2>1. beat + n \in Tick .. 2 * Tick - 1
    BY <1>1, <1>2
  <2>2. \A a \in Tick .. 2 * Tick - 1 : a % Tick = a - Tick
    BY <1>1, RemainderAbove
  <2>3. (beat + n) % Tick = beat + n - Tick
    BY <1>1, <2>1, <2>2
  <2>4. beat' = beat + n - Tick
    BY <2>3 DEF Passes
  <2> QED BY <1>1, <1>2, <2>4 DEF Serviced, Due, NextTick
<1>3. CASE ~(s.clkLeft <= n)
  <2>1. beat + n \in 0 .. Tick - 1
    BY <1>1, <1>3
  <2>2. (beat + n) % Tick = beat + n
    BY <1>1, <2>1, RemainderBelow
  <2> QED BY <1>1, <1>3, <2>2 DEF Serviced, Due, NextTick, Passes
<1> QED BY <1>2, <1>3

\* The idle skip is no longer than a clock period.
LEMMA SkipBounded ==
  ASSUME Sound(m), NEW n \in NextEvents(m)
  PROVE  n \in 0 .. Tick
BY TimeAssumption DEF NextEvents, Sound, Machine

-----------------------------------------------------------------------------
(* What an instruction does to the devices.                                 *)

\* What Sound(s) says of s field by field.
LEMMA SoundFields ==
  ASSUME NEW s, Sound(s)
  PROVE  /\ s \in [clkLeft : Int, clkDone : BOOLEAN, busy : SUBSET Timers,
                   left : [Timers -> Int], ie : SUBSET Sources,
                   req : SUBSET Sources]
         /\ s.clkLeft \in 1 .. Tick
         /\ \A d \in s.busy : s.left[d] > 0
         /\ s.req \subseteq s.ie /\ (Clock \in s.req => s.clkDone)
BY DEF Sound, Machine

\* A command started: its deadline is ahead, its old request dropped.
LEMMA StartSound ==
  ASSUME NEW s, Sound(s), NEW d \in Timers, NEW n \in Delays, NEW e \in BOOLEAN
  PROVE  Sound(Start(s, d, n, e)) /\ Start(s, d, n, e).clkLeft = s.clkLeft
<1> DEFINE r == Start(s, d, n, e)
           busy == s.busy \cup {d}
           left == [s.left EXCEPT ![d] = n]
           ie == Switch(s.ie, d, e)
           req == s.req \ {d}
<1>1. n \in Int /\ n > 0 /\ d \in Sources /\ d # Clock
  BY TimeAssumption DEF Sources
<1>2. r = [s EXCEPT !.busy = busy, !.left = left, !.ie = ie, !.req = req]
  BY DEF Start
<1>3. /\ busy \in SUBSET Timers /\ left \in [Timers -> Int]
      /\ ie \in SUBSET Sources /\ req \in SUBSET Sources
  BY <1>1, SoundFields DEF Switch
<1>4. req \subseteq ie /\ (Clock \in req => s.clkDone)
  BY <1>1, SoundFields DEF Switch
<1>5. \A c \in busy : left[c] > 0
  BY <1>1, SoundFields
<1>6. s \in Machine /\ s.clkLeft \in 1 .. Tick
  BY DEF Sound
<1> HIDE DEF r, busy, left, ie, req
<1>7. /\ r \in Machine /\ r.clkLeft = s.clkLeft /\ r.clkDone = s.clkDone
      /\ r.busy = busy /\ r.left = left /\ r.ie = ie /\ r.req = req
  BY <1>2, <1>3, <1>6 DEF Machine
<1>8. Sound(r) /\ r.clkLeft = s.clkLeft
  BY <1>4, <1>5, <1>6, <1>7 DEF Sound
<1> QED BY <1>8 DEF r

\* A command stopped.
LEMMA StopSound ==
  ASSUME NEW s, Sound(s), NEW d \in Timers, NEW e \in BOOLEAN
  PROVE  Sound(Stop(s, d, e)) /\ Stop(s, d, e).clkLeft = s.clkLeft
<1> DEFINE r == Stop(s, d, e)
           busy == s.busy \ {d}
           left == [s.left EXCEPT ![d] = 0]
           ie == Switch(s.ie, d, e)
           req == Switch(s.req, d, e)
<1>1. d \in Sources /\ d # Clock
  BY TimeAssumption DEF Sources
<1>2. r = [s EXCEPT !.busy = busy, !.left = left, !.ie = ie, !.req = req]
  BY DEF Stop
<1>3. /\ busy \in SUBSET Timers /\ left \in [Timers -> Int]
      /\ ie \in SUBSET Sources /\ req \in SUBSET Sources
  BY <1>1, SoundFields DEF Switch
<1>4. req \subseteq ie /\ (Clock \in req => s.clkDone)
  BY <1>1, SoundFields DEF Switch
<1>5. \A c \in busy : left[c] > 0
  BY <1>1, SoundFields
<1>6. s \in Machine /\ s.clkLeft \in 1 .. Tick
  BY DEF Sound
<1> HIDE DEF r, busy, left, ie, req
<1>7. /\ r \in Machine /\ r.clkLeft = s.clkLeft /\ r.clkDone = s.clkDone
      /\ r.busy = busy /\ r.left = left /\ r.ie = ie /\ r.req = req
  BY <1>2, <1>3, <1>6 DEF Machine
<1>8. Sound(r) /\ r.clkLeft = s.clkLeft
  BY <1>4, <1>5, <1>6, <1>7 DEF Sound
<1> QED BY <1>8 DEF r

\* An interrupt enabled or disabled.
LEMMA EnableSound ==
  ASSUME NEW s, Sound(s), NEW d \in Timers, NEW raise \in BOOLEAN
  PROVE  /\ Sound(Enable(s, d, raise)) /\ Enable(s, d, raise).clkLeft = s.clkLeft
         /\ Sound(Disable(s, d)) /\ Disable(s, d).clkLeft = s.clkLeft
<1>1. d \in Sources /\ d # Clock
  BY TimeAssumption DEF Sources
<1>2. Sound(Enable(s, d, raise)) /\ Enable(s, d, raise).clkLeft = s.clkLeft
  BY <1>1, SoundFields DEF Enable, Sound, Machine
<1>3. Sound(Disable(s, d)) /\ Disable(s, d).clkLeft = s.clkLeft
  BY <1>1, SoundFields DEF Disable, Sound, Machine
<1> QED BY <1>2, <1>3

\* A store to the clock's register.
LEMMA ClockWriteSound ==
  ASSUME NEW s, Sound(s), NEW e \in BOOLEAN, NEW keep \in BOOLEAN
  PROVE  Sound(ClockWrite(s, e, keep)) /\ ClockWrite(s, e, keep).clkLeft = s.clkLeft
<1> DEFINE r == ClockWrite(s, e, keep)
           done == s.clkDone /\ keep
           ie == Switch(s.ie, Clock, e)
           req == Switch(s.req, Clock, e /\ keep /\ s.clkDone)
<1>1. r = [s EXCEPT !.clkDone = done, !.ie = ie, !.req = req]
  BY DEF ClockWrite
<1>2. done \in BOOLEAN /\ ie \in SUBSET Sources /\ req \in SUBSET Sources
  BY SoundFields DEF Switch, Sources
<1>3. req \subseteq ie /\ (Clock \in req => done)
  BY SoundFields DEF Switch
<1>4. s \in Machine /\ s.clkLeft \in 1 .. Tick /\ \A c \in s.busy : s.left[c] > 0
  BY DEF Sound
<1> HIDE DEF r, done, ie, req
<1>5. /\ r \in Machine /\ r.clkLeft = s.clkLeft /\ (r.clkDone = done)
      /\ r.busy = s.busy /\ r.left = s.left /\ r.ie = ie /\ r.req = req
  BY <1>1, <1>2, <1>4 DEF Machine
<1>6. Sound(r) /\ r.clkLeft = s.clkLeft
  BY <1>3, <1>4, <1>5 DEF Sound
<1> QED BY <1>6 DEF r

\* RESET.
LEMMA BusInitSound ==
  ASSUME NEW s, Sound(s)
  PROVE  Sound(BusInit(s)) /\ BusInit(s).clkLeft = s.clkLeft
<1> DEFINE r == BusInit(s)
           busy == s.busy \ ClearedByReset
           left == [d \in Timers |-> IF d \in ClearedByReset THEN 0 ELSE s.left[d]]
           ie == s.ie \ (ClearedByReset \cup {Clock})
<1>1. r = [s EXCEPT !.clkDone = TRUE, !.busy = busy, !.left = left,
                    !.ie = ie, !.req = {}]
  BY DEF BusInit
<1>2. /\ busy \in SUBSET Timers /\ left \in [Timers -> Int]
      /\ ie \in SUBSET Sources
  BY SoundFields
<1>3. \A d \in busy : left[d] > 0
  BY SoundFields
<1>4. s \in Machine /\ s.clkLeft \in 1 .. Tick
  BY DEF Sound
<1> HIDE DEF r, busy, left, ie
<1>5. /\ r \in Machine /\ r.clkLeft = s.clkLeft /\ (r.clkDone = TRUE)
      /\ r.busy = busy /\ r.left = left /\ r.ie = ie /\ r.req = {}
  BY <1>1, <1>2, <1>4 DEF Machine
<1>6. Sound(r) /\ r.clkLeft = s.clkLeft
  BY <1>3, <1>4, <1>5 DEF Sound
<1> QED BY <1>6 DEF r

\* Whatever an instruction stores, the deadlines stay in the future, requests
\* stay with enabled sources, and the clock's next tick is not touched.
LEMMA EffectsSound ==
  ASSUME NEW s, Sound(s), NEW r \in Effects(s)
  PROVE  Sound(r) /\ r.clkLeft = s.clkLeft
<1>1. CASE r = s \/ r = BusInit(s)
  BY <1>1, BusInitSound
<1>2. ASSUME NEW d \in Startable(s), NEW n \in Delays, NEW e \in BOOLEAN,
             r = Start(s, d, n, e)
      PROVE  Sound(r) /\ r.clkLeft = s.clkLeft
  <2>1. d \in Timers
    BY TimeAssumption DEF Startable
  <2> QED BY <1>2, <2>1, StartSound
<1>3. ASSUME NEW d \in Stoppable, NEW e \in BOOLEAN, r = Stop(s, d, e)
      PROVE  Sound(r) /\ r.clkLeft = s.clkLeft
  <2>1. d \in Timers
    BY TimeAssumption
  <2> QED BY <1>3, <2>1, StopSound
<1>4. ASSUME NEW d \in Timers, NEW raise \in BOOLEAN,
             r = Enable(s, d, raise) \/ r = Disable(s, d)
      PROVE  Sound(r) /\ r.clkLeft = s.clkLeft
  BY <1>4, EnableSound
<1>5. ASSUME NEW e \in BOOLEAN, NEW keep \in BOOLEAN, r = ClockWrite(s, e, keep)
      PROVE  Sound(r) /\ r.clkLeft = s.clkLeft
  BY <1>5, ClockWriteSound
<1>6. CASE r \in {Start(s, d, n, e) : d \in Startable(s), n \in Delays, e \in BOOLEAN}
  BY <1>2, <1>6
<1>7. CASE r \in {Stop(s, d, e) : d \in Stoppable, e \in BOOLEAN}
  BY <1>3, <1>7
<1>8. CASE r \in {Enable(s, d, raise) : d \in Timers, raise \in BOOLEAN}
  BY <1>4, <1>8
<1>10. CASE r \in {Disable(s, d) : d \in Timers}
  <2>1. PICK d \in Timers : r = Disable(s, d)
    BY <1>10
  <2> QED BY <1>4, <2>1
<1>9. CASE r \in {ClockWrite(s, e, keep) : e \in BOOLEAN, keep \in BOOLEAN}
  BY <1>5, <1>9
<1> QED BY <1>1, <1>6, <1>7, <1>8, <1>9, <1>10 DEF Effects, Stores

-----------------------------------------------------------------------------
(* The invariant.                                                           *)

\* Power-up has a whole period to the first tick and nothing scheduled.
LEMMA InitInv == Init => TimeInv
<1> SUFFICES ASSUME Init PROVE TimeInv
  OBVIOUS
<1>1. m \in Machine /\ m.clkLeft = Tick /\ m.busy = {} /\ m.req = {}
  BY TimeAssumption DEF Init, Machine
<1>2. Tick \in Nat \ {0} /\ beat = 0
  BY TimeAssumption DEF Init
<1>3. Sound(m) /\ OnTheBeat
  BY <1>1, <1>2 DEF Sound, OnTheBeat
<1>4. waiting \in BOOLEAN /\ open \in BOOLEAN /\ trapDue \in BOOLEAN
  BY DEF Init
<1>5. beat \in 0 .. Tick - 1
  BY <1>2
<1> QED BY <1>1, <1>3, <1>4, <1>5 DEF TimeInv, TypeOK

\* Time n passing over sound deadlines that are on the beat.
LEMMA PassingInv ==
  ASSUME TimeInv, NEW s, Sound(s), s.clkLeft = m.clkLeft, NEW n \in 0 .. Tick,
         m' = Serviced(s, n), Passes(n),
         waiting' \in BOOLEAN, open' \in BOOLEAN, trapDue' \in BOOLEAN
  PROVE  TimeInv'
<1>1. Sound(m')
  BY ServicedSound
<1>2. beat' \in 0 .. Tick - 1 /\ m'.clkLeft + beat' = Tick
  BY ServicedOnTheBeat DEF TimeInv, TypeOK, OnTheBeat
<1> QED BY <1>1, <1>2 DEF TimeInv, TypeOK, OnTheBeat, Sound

\* One step of the processor preserves the invariant.
LEMMA StepInv == TimeInv /\ [Next]_vars => TimeInv'
<1> SUFFICES ASSUME TimeInv, [Next]_vars PROVE TimeInv'
  OBVIOUS
<1>1. Sound(m) /\ TypeOK
  BY DEF TimeInv
<1>2. CASE Trap
  BY <1>2 DEF Trap, TimeInv, TypeOK, OnTheBeat, Sound
<1>3. CASE IdleSkip
  <2>1. PICK n \in NextEvents(m) : m' = Serviced(m, n) /\ Passes(n)
    BY <1>3 DEF IdleSkip
  <2>2. n \in 0 .. Tick
    BY <1>1, SkipBounded
  <2> QED BY <1>1, <1>3, <2>1, <2>2, PassingInv DEF IdleSkip, TypeOK
<1>4. CASE Instruction
  <2>1. PICK s \in Effects(m), n \in Costs : m' = Serviced(s, n) /\ Passes(n)
    BY <1>4 DEF Instruction
  <2>2. Sound(s) /\ s.clkLeft = m.clkLeft /\ n \in 0 .. Tick
    BY <1>1, EffectsSound, TimeAssumption
  <2> QED BY <1>1, <1>4, <2>1, <2>2, PassingInv DEF Instruction, TypeOK
<1>5. CASE Wait
  <2>1. PICK n \in Costs : m' = Serviced(m, n) /\ Passes(n)
    BY <1>5 DEF Wait
  <2>2. n \in 0 .. Tick
    BY TimeAssumption
  <2> QED BY <1>1, <1>5, <2>1, <2>2, PassingInv DEF Wait, TypeOK
<1>6. CASE Abort
  <2>1. m' \in Effects(m)
    BY <1>6 DEF Abort, Effects
  <2>2. Sound(m') /\ m'.clkLeft = m.clkLeft
    BY <1>1, <2>1, EffectsSound
  <2> QED BY <1>6, <2>2 DEF Abort, TimeInv, TypeOK, OnTheBeat, Sound
<1>7. ASSUME NEW d \in Sources, Grant(d) PROVE TimeInv'
  <2>1. Sound(m') /\ m'.clkLeft = m.clkLeft
    BY <1>1, <1>7 DEF Grant, Sound, Machine
  <2> QED BY <1>1, <1>7, <2>1 DEF Grant, TimeInv, TypeOK, OnTheBeat, Sound
<1>8. CASE UNCHANGED vars
  BY <1>8 DEF vars, TimeInv, TypeOK, OnTheBeat, Sound
<1> QED BY <1>2, <1>3, <1>4, <1>5, <1>6, <1>7, <1>8 DEF Next, Step

\* Every reachable state satisfies the invariant.
LEMMA InvHolds == Spec => []TimeInv
BY InitInv, StepInv, PTL DEF Spec

\* Every variable keeps its type.
THEOREM TypeCorrect == Spec => []TypeOK
<1>1. TimeInv => TypeOK
  BY DEF TimeInv
<1> QED BY <1>1, InvHolds, PTL

\* No deadline is passed over, by an instruction or by the idle skip, and no
\* clock tick is lost, for instructions of any cost up to a whole period.
THEOREM NoDeadlineMissed == Spec => []NothingOverdue
<1>1. TimeInv => NothingOverdue
  BY DEF TimeInv, Sound, NothingOverdue
<1> QED BY <1>1, InvHolds, PTL

\* The clock ticks at the multiples of its period for ever.
THEOREM ClockKeepsTime == Spec => []OnTheBeat
<1>1. TimeInv => OnTheBeat
  BY DEF TimeInv
<1> QED BY <1>1, InvHolds, PTL

\* No source requests an interrupt it has not been enabled for.
THEOREM RequestsAreEnabled == Spec => []RequestsEnabled
<1>1. TimeInv => RequestsEnabled
  BY DEF TimeInv, Sound, RequestsEnabled
<1> QED BY <1>1, InvHolds, PTL
-----------------------------------------------------------------------------
(* The idle skip.                                                           *)

\* Before the nearest event nothing happens but that time passes.
LEMMA QuietUntil ==
  ASSUME NEW s, Sound(s), NEW n \in NextEvents(s), NEW k \in 1 .. n - 1
  PROVE  /\ Serviced(s, k).clkLeft = s.clkLeft - k
         /\ Serviced(s, k).clkDone = s.clkDone
         /\ Serviced(s, k).busy = s.busy
         /\ Serviced(s, k).left = [d \in Timers |-> IF d \in s.busy THEN s.left[d] - k ELSE 0]
         /\ Serviced(s, k).ie = s.ie /\ Serviced(s, k).req = s.req
<1>1. /\ s.clkLeft \in Int /\ s.left \in [Timers -> Int] /\ s.busy \subseteq Timers
      /\ s.clkDone \in BOOLEAN /\ Tick \in Nat
  BY SoundFields, TimeAssumption
<1>2. n \in Int /\ n <= s.clkLeft /\ \A d \in s.busy : n <= s.left[d]
  BY <1>1 DEF NextEvents
<1>3. ~Due(s.clkLeft, k)
  BY <1>1, <1>2 DEF Due
<1>4. {d \in s.busy : Due(s.left[d], k)} = {}
  BY <1>1, <1>2 DEF Due
<1>5. Serviced(s, k) =
        [clkLeft |-> s.clkLeft - k, clkDone |-> s.clkDone \/ FALSE, busy |-> s.busy \ {},
         left |-> [d \in Timers |-> IF d \in s.busy \ {} THEN s.left[d] - k ELSE 0],
         ie |-> s.ie, req |-> s.req \cup ({} \cap s.ie)]
  BY <1>3, <1>4 DEF Serviced
<1>6. s.busy \ {} = s.busy /\ s.req \cup ({} \cap s.ie) = s.req
  OBVIOUS
<1>7. (s.clkDone \/ FALSE) = s.clkDone
  BY <1>1
<1> QED BY <1>5, <1>6, <1>7

\* A set of numbers that has zero and every successor has every number.
LEMMA NatSetInduction ==
  ASSUME NEW S, 0 \in S, \A n \in Nat : n \in S => n + 1 \in S
  PROVE  Nat \subseteq S
<1> DEFINE Less == OpToRel(<, Nat)
           T == Nat \ S
<1>1. IsWellFoundedOn(Less, Nat)
  BY NatLessThanWellFounded, Zenon
<1>2. \A y, x \in Nat : y < x => <<y, x>> \in Less
  BY DEF OpToRel
<1> HIDE DEF Less
<1> SUFFICES ASSUME T # {} PROVE FALSE
  OBVIOUS
<1>3. PICK x \in T : \A y \in T : ~(<<y, x>> \in Less)
  <2>1. T \subseteq Nat
    OBVIOUS
  <2> QED BY <1>1, <2>1, WFMin, Zenon
<1>4. x - 1 \in Nat /\ x \in Nat /\ x - 1 < x /\ x \notin S
  BY <1>3
<1>5. (x - 1) + 1 \in S
  BY <1>2, <1>3, <1>4
<1>6. (x - 1) + 1 = x
  BY <1>4
<1> QED BY <1>4, <1>5, <1>6

\* One unit more is one unit later.
LEMMA SpunStep ==
  ASSUME NEW s, Sound(s), NEW n \in NextEvents(s), NEW k \in 1 .. n - 1
  PROVE  Serviced(Serviced(s, k), 1) = Serviced(s, k + 1)
<1>0. /\ Serviced(s, k).clkLeft = s.clkLeft - k
      /\ Serviced(s, k).clkDone = s.clkDone
      /\ Serviced(s, k).busy = s.busy
      /\ Serviced(s, k).left = [d \in Timers |-> IF d \in s.busy THEN s.left[d] - k ELSE 0]
      /\ Serviced(s, k).ie = s.ie /\ Serviced(s, k).req = s.req
  BY QuietUntil
<1> DEFINE r == Serviced(s, k)
           tick == Due(s.clkLeft, k + 1)
           fired == {d \in s.busy : Due(s.left[d], k + 1)}
           raised == IF tick THEN fired \cup {Clock} ELSE fired
<1>1. /\ s.clkLeft \in Int /\ s.left \in [Timers -> Int] /\ s.busy \subseteq Timers
      /\ Tick \in Nat /\ k \in Int
  BY SoundFields, TimeAssumption
<1>2. /\ r.clkLeft = s.clkLeft - k /\ r.clkDone = s.clkDone /\ r.busy = s.busy
      /\ r.left = [d \in Timers |-> IF d \in s.busy THEN s.left[d] - k ELSE 0]
      /\ r.ie = s.ie /\ r.req = s.req
  BY <1>0
<1> HIDE DEF r
<1>3. Due(r.clkLeft, 1) = tick
  BY <1>1, <1>2 DEF Due
<1>4. \A d \in s.busy : r.left[d] = s.left[d] - k /\ s.left[d] \in Int
  BY <1>1, <1>2
<1>5. {d \in r.busy : Due(r.left[d], 1)} = fired
  <2>1. \A a \in Int : Due(a - k, 1) <=> Due(a, k + 1)
    BY <1>1 DEF Due
  <2>2. \A d \in s.busy : Due(r.left[d], 1) <=> Due(s.left[d], k + 1)
    BY <1>4, <2>1, Zenon
  <2> QED BY <1>2, <2>2, Zenon
<1> HIDE DEF tick, fired
<1>6. NextTick(r.clkLeft, 1) = NextTick(s.clkLeft, k + 1) /\ r.clkLeft - 1 = s.clkLeft - (k + 1)
  BY <1>1, <1>2 DEF NextTick
<1>7. [d \in Timers |-> IF d \in r.busy \ fired THEN r.left[d] - 1 ELSE 0] =
        [d \in Timers |-> IF d \in s.busy \ fired THEN s.left[d] - (k + 1) ELSE 0]
  <2>1. \A a \in Int : (a - k) - 1 = a - (k + 1)
    BY <1>1
  <2>2. \A d \in s.busy : r.left[d] - 1 = s.left[d] - (k + 1)
    BY <1>4, <2>1, Zenon
  <2> QED BY <1>2, <2>2
<1>8. Serviced(r, 1) =
        [clkLeft |-> IF tick THEN NextTick(s.clkLeft, k + 1) ELSE s.clkLeft - (k + 1),
         clkDone |-> s.clkDone \/ tick, busy |-> s.busy \ fired,
         left |-> [d \in Timers |-> IF d \in s.busy \ fired THEN s.left[d] - (k + 1) ELSE 0],
         ie |-> s.ie, req |-> s.req \cup (raised \cap s.ie)]
  BY <1>2, <1>3, <1>5, <1>6, <1>7, Zenon DEF Serviced
<1> QED BY <1>8, Zenon DEF Serviced, r, tick, fired

\* What pdp11_next_event_ns claims, for every state the program can be in: jumping to
\* the nearest event leaves what advancing in steps of one unit leaves.
LEMMA SkipSpins == ASSUME Sound(m) PROVE SkipIsSpin
<1> SUFFICES ASSUME NEW n \in NextEvents(m)
             PROVE  LET spun[k \in 0 .. n] == IF k = 0 THEN m ELSE Serviced(spun[k - 1], 1)
                    IN  Serviced(m, n) = spun[n]
  BY Zenon DEF SkipIsSpin
<1> DEFINE spins(f) == f = [k \in 0 .. n |-> IF k = 0 THEN m ELSE Serviced(f[k - 1], 1)]
           jump(k) == Serviced(m, k)
           jumps == [k \in 0 .. n |-> IF k = 0 THEN m ELSE jump(k)]
           spun == CHOOSE f : spins(f)
<1>1. n \in Nat /\ n >= 1
  BY SoundFields DEF NextEvents
<1>2. \A k \in 1 .. n - 1 : Serviced(jump(k), 1) = jump(k + 1)
  BY SpunStep
<1> HIDE DEF jump
<1>3. ASSUME NEW f, spins(f)
      PROVE  \A k \in 1 .. n : f[k] = jump(k)
  <2>1. f[0] = m /\ \A k \in 1 .. n : f[k] = Serviced(f[k - 1], 1)
    BY <1>1, <1>3
  <2> HIDE DEF spins
  <2> DEFINE S == {k \in Nat : k \in 1 .. n => f[k] = jump(k)}
  <2>2. 0 \in S
    OBVIOUS
  <2>3. ASSUME NEW k \in Nat, k \in S
        PROVE  k + 1 \in S
    <3>1. SUFFICES ASSUME k + 1 \in 1 .. n PROVE f[k + 1] = jump(k + 1)
      OBVIOUS
    <3>2. f[k + 1] = Serviced(f[(k + 1) - 1], 1) /\ (k + 1) - 1 = k
      BY <2>1, <3>1
    <3>3. CASE k = 0
      <4>1. f[k + 1] = Serviced(m, 1)
        BY <2>1, <3>2, <3>3
      <4> QED BY <3>3, <4>1 DEF jump
    <3>4. CASE k # 0
      <4>1. k \in 1 .. n - 1 /\ k \in 1 .. n
        BY <1>1, <3>1, <3>4
      <4> QED BY <1>2, <2>3, <3>2, <4>1
    <3> QED BY <3>3, <3>4
  <2>4. Nat \subseteq S
    <3> HIDE DEF S
    <3> QED BY <2>2, <2>3, NatSetInduction
  <2> QED BY <2>4
<1>4. spins(jumps)
  <2>1. ASSUME NEW k \in 0 .. n
        PROVE  jumps[k] = IF k = 0 THEN m ELSE Serviced(jumps[k - 1], 1)
    <3>1. CASE k = 0
      BY <1>1, <3>1
    <3>2. CASE k = 1
      <4>1. jumps[k - 1] = m /\ jumps[k] = jump(1)
        BY <1>1, <3>2
      <4> QED BY <3>2, <4>1 DEF jump
    <3>3. CASE k # 0 /\ k # 1
      <4>1. k - 1 \in 1 .. n - 1 /\ k - 1 \in 0 .. n /\ (k - 1) + 1 = k
        BY <1>1, <3>3
      <4>2. jumps[k - 1] = jump(k - 1) /\ jumps[k] = jump(k)
        BY <1>1, <3>3, <4>1
      <4>3. Serviced(jump(k - 1), 1) = jump((k - 1) + 1)
        BY <1>2, <4>1
      <4> HIDE DEF jumps
      <4> QED BY <3>3, <4>1, <4>2, <4>3
    <3> QED BY <3>1, <3>2, <3>3
  <2>2. jumps = [k \in 0 .. n |-> jumps[k]]
    OBVIOUS
  <2> HIDE DEF jumps
  <2> QED BY <2>1, <2>2, Zenon
<1>5. spins(spun)
  <2> HIDE DEF spins, jumps
  <2> QED BY <1>4, Zenon DEF spun
<1>6. spun[n] = jump(n)
  <2> HIDE DEF spins, spun
  <2> QED BY <1>1, <1>3, <1>5
<1> QED BY <1>6, Zenon DEF jump

\* The idle skip is exact, for every clock period, every set of controllers, every
\* delay and however many events coincide.
THEOREM SkipIsExact == Spec => []SkipIsSpin
<1>1. TimeInv => SkipIsSpin
  BY SkipSpins DEF TimeInv
<1> QED BY <1>1, InvHolds, PTL
=============================================================================
