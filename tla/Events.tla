------------------------------- MODULE Events -------------------------------
(***************************************************************************)
(* Emulated time (cpu/cpu.c, the tail of pdp11_cpu_step): instructions      *)
(* advance it by their cost, completions are serviced as they come due, and *)
(* WAIT skips idle time by jumping to the next event.                       *)
(*                                                                         *)
(* Deadlines are kept relative to the present, so that time has no bound:   *)
(* m.clkLeft is clk_next_ns - time_ns, m.busy the set of busy controllers,  *)
(* and m.left[d] the done_ns - time_ns of a busy one, 0 for an idle one.    *)
(* Priorities are abstracted to open: does the PSW admit device requests?   *)
(* (CpuStep.tla has the levels, the traps and the faults.)                  *)
(***************************************************************************)
EXTENDS Integers

CONSTANTS
  Timers,          \* what completes later: tto, rk, rp, tm, rl
  ClearedByReset,  \* those the RESET instruction stops: all but rl
  Restartable,     \* those that take a command while busy: tto, rl
  Stoppable,       \* those a store can stop while busy: rp, tm, rl
  Clock,           \* the KW11-L line clock
  Tick,            \* clk_tick_ns
  Costs,           \* what instructions cost; nothing, for some illegal ones
  Delays           \* how long completions take

\* clk_tick_ns is 1/60 s in every configuration, and "an instruction never
\* spans more than one line-clock period".
ASSUME TimeAssumption ==
  /\ Tick \in Nat \ {0}
  /\ Costs \subseteq 0 .. Tick
  /\ Delays \subseteq Nat \ {0}
  /\ ClearedByReset \cup Restartable \cup Stoppable \subseteq Timers
  /\ Clock \notin Timers

Sources == Timers \cup {Clock}

Machine == [clkLeft : Int, clkDone : BOOLEAN,
            busy : SUBSET Timers, left : [Timers -> Int],
            ie : SUBSET Sources, req : SUBSET Sources]

VARIABLES
  m,        \* deadlines, interrupt enables and requests
  beat,     \* time_ns modulo the clock period
  waiting,
  open,     \* the PSW admits device requests
  trapDue   \* a trace or yellow-zone trap precedes the next instruction

vars == <<m, beat, waiting, open, trapDue>>

\* Every variable has its type.
TypeOK ==
  /\ m \in Machine
  /\ beat \in 0 .. Tick - 1
  /\ waiting \in BOOLEAN /\ open \in BOOLEAN /\ trapDue \in BOOLEAN

Init ==
  /\ m = [clkLeft |-> Tick, clkDone |-> TRUE,
          busy |-> {}, left |-> [d \in Timers |-> 0],
          ie |-> {}, req |-> {}]
  /\ beat = 0
  /\ waiting = FALSE /\ open = TRUE /\ trapDue = FALSE

-----------------------------------------------------------------------------
(* Time.                                                                    *)

\* Mutant of Due: an event is serviced after its deadline, not at it.
DueAfter(left, n) == left < n

\* A deadline that is left from now comes within the next n.
Due(left, n) == left <= n

\* Mutant of NextTick: the period starts again when the tick is serviced.
NextTickFromNow(left, n) == Tick

\* clk_next_ns += clk_tick_ns, seen from n later.
NextTick(left, n) == left - n + Tick

\* n later, service_due_events: the clock ticks once at most, and every
\* controller whose deadline has come completes.
Serviced(s, n) ==
  LET tick == Due(s.clkLeft, n)
      fired == {d \in s.busy : Due(s.left[d], n)}
      raised == IF tick THEN fired \cup {Clock} ELSE fired
  IN [clkLeft |-> IF tick THEN NextTick(s.clkLeft, n) ELSE s.clkLeft - n,
      clkDone |-> s.clkDone \/ tick,
      busy |-> s.busy \ fired,
      left |-> [d \in Timers |-> IF d \in s.busy \ fired THEN s.left[d] - n ELSE 0],
      ie |-> s.ie,
      req |-> s.req \cup (raised \cap s.ie)]

\* Mutant of NextEvents: the farthest deadline.
LastEvents(s) ==
  LET ahead == {s.clkLeft} \cup {s.left[d] : d \in s.busy}
  IN {n \in ahead : \A k \in ahead : k <= n}

\* pdp11_next_event_ns, from now: the nearest of the deadlines.
NextEvents(s) ==
  LET ahead == {s.clkLeft} \cup {s.left[d] : d \in s.busy}
  IN {n \in ahead : \A k \in ahead : n <= k}

\* Time within the clock period.
Passes(n) == beat' = (beat + n) % Tick

-----------------------------------------------------------------------------
(* What one instruction may do to the devices, before its time passes.      *)

\* A source enabled or disabled, and its request raised or dropped.
Switch(set, d, on) == IF on THEN set \cup {d} ELSE set \ {d}

\* A store that gives a controller a command which takes n, and sets its
\* interrupt enable to e.
Start(s, d, n, e) ==
  [s EXCEPT !.busy = @ \cup {d}, !.left = [@ EXCEPT ![d] = n],
            !.ie = Switch(@, d, e), !.req = @ \ {d}]

\* A store that stops one: RP and TM controller clear, which also disables it,
\* and an RL command that ends at once, which may enable it and interrupt.
Stop(s, d, e) ==
  [s EXCEPT !.busy = @ \ {d}, !.left = [@ EXCEPT ![d] = 0],
            !.ie = Switch(@, d, e), !.req = Switch(@, d, e)]

\* A store that enables a controller's interrupt, which may raise the request
\* at once, or disables it, which drops the request.
Enable(s, d, raise) ==
  [s EXCEPT !.ie = @ \cup {d}, !.req = IF raise THEN @ \cup {d} ELSE @]

Disable(s, d) == [s EXCEPT !.ie = @ \ {d}, !.req = @ \ {d}]

\* pdp11_clk_write: enable bit e; keep is the DONE bit of the word stored.
ClockWrite(s, e, keep) ==
  [s EXCEPT !.clkDone = @ /\ keep,
            !.ie = Switch(@, Clock, e),
            !.req = Switch(@, Clock, e /\ keep /\ s.clkDone)]

\* The RESET instruction.
BusInit(s) ==
  [s EXCEPT !.clkDone = TRUE,
            !.busy = @ \ ClearedByReset,
            !.left = [d \in Timers |-> IF d \in ClearedByReset THEN 0 ELSE @[d]],
            !.ie = @ \ (ClearedByReset \cup {Clock}),
            !.req = {}]

Startable(s) == Restartable \cup (Timers \ s.busy)

\* What stores, or reads with side effects, leave.
Stores(s) ==
  {s} \cup {Start(s, d, n, e) : d \in Startable(s), n \in Delays, e \in BOOLEAN}
    \cup {Stop(s, d, e) : d \in Stoppable, e \in BOOLEAN}
    \cup {Enable(s, d, raise) : d \in Timers, raise \in BOOLEAN}
    \cup {Disable(s, d) : d \in Timers}
    \cup {ClockWrite(s, e, keep) : e \in BOOLEAN, keep \in BOOLEAN}

Effects(s) == Stores(s) \cup {BusInit(s)}

-----------------------------------------------------------------------------
(* pdp11_cpu_step.                                                          *)

\* A trap taken before an instruction takes no time and services nothing.
Trap ==
  /\ trapDue
  /\ trapDue' \in BOOLEAN /\ open' \in BOOLEAN
  /\ UNCHANGED <<m, beat, waiting>>

\* Mutant of Grant: the processor goes back to waiting.
GrantStaysWaiting(d) ==
  /\ ~trapDue /\ open /\ d \in m.req
  /\ m' = [m EXCEPT !.req = @ \ {d}]
  /\ open' \in BOOLEAN /\ trapDue' \in BOOLEAN
  /\ UNCHANGED <<beat, waiting>>

\* Nor does the grant of a request.
Grant(d) ==
  /\ ~trapDue /\ open /\ d \in m.req
  /\ m' = [m EXCEPT !.req = @ \ {d}]
  /\ waiting' = FALSE
  /\ open' \in BOOLEAN /\ trapDue' \in BOOLEAN
  /\ UNCHANGED beat

NothingGranted == ~trapDue /\ (open => m.req = {})

\* WAIT: straight to the next event.
IdleSkip ==
  /\ NothingGranted /\ waiting
  /\ \E n \in NextEvents(m) : m' = Serviced(m, n) /\ Passes(n)
  /\ UNCHANGED <<waiting, open, trapDue>>

Instruction ==
  /\ NothingGranted /\ ~waiting
  /\ \E s \in Effects(m), n \in Costs : m' = Serviced(s, n) /\ Passes(n)
  /\ open' \in BOOLEAN /\ trapDue' \in BOOLEAN
  /\ UNCHANGED waiting

\* The WAIT instruction; it may leave a trace trap to be taken first.
Wait ==
  /\ NothingGranted /\ ~waiting
  /\ \E n \in Costs : m' = Serviced(m, n) /\ Passes(n)
  /\ waiting' = TRUE
  /\ trapDue' \in BOOLEAN
  /\ UNCHANGED open

\* An instruction that faults ends in a trap, whatever it has stored before: no
\* time, no service.
Abort ==
  /\ NothingGranted /\ ~waiting
  /\ m' \in Stores(m)
  /\ open' \in BOOLEAN /\ trapDue' \in BOOLEAN
  /\ UNCHANGED <<beat, waiting>>

Step ==
  \/ Trap \/ IdleSkip \/ Instruction \/ Wait \/ Abort
  \/ \E d \in Sources : Grant(d)

Next == Step

Spec == Init /\ [][Next]_vars

\* The frontend's loop calls pdp11_cpu_step for ever.
FairSpec == Spec /\ WF_vars(Step)

-----------------------------------------------------------------------------

\* Between two steps every deadline is in the future, the clock's no more than
\* a period away: whatever came due was serviced in the step it came due in,
\* and no tick was lost although service_due_events gives one at most.
NothingOverdue ==
  /\ m.clkLeft \in 1 .. Tick
  /\ \A d \in m.busy : m.left[d] > 0

\* The clock ticks at the multiples of its period for ever: the lateness of one
\* tick, which waits for the end of an instruction, never delays the next.
OnTheBeat == m.clkLeft + beat = Tick

\* What pdp11_next_event_ns claims: the jump is "bit-identical to advancing in
\* tiny increments".  Here one unit of time at a time, up to the same moment.
SkipIsSpin ==
  \A n \in NextEvents(m) :
    LET spun[k \in 0 .. n] == IF k = 0 THEN m ELSE Serviced(spun[k - 1], 1)
    IN Serviced(m, n) = spun[n]

\* The clock requests an interrupt only while its DONE and IE bits are both
\* set, and no source requests one that has not been enabled.
RequestsEnabled ==
  /\ m.req \subseteq m.ie
  /\ Clock \in m.req => m.clkDone

\* A processor in WAIT wakes up if the clock or any busy controller is enabled to
\* interrupt, unless its priority masks it: neither can the skip sleep past the event
\* nor a trace or yellow-zone trap, taken first, lose the wait or the event, as long
\* as traps do not follow each other for ever.
WaitEnds ==
  []<>~trapDue =>
    (waiting /\ (m.ie \cap (m.busy \cup {Clock}) # {}) ~> ~waiting \/ ~open)
=============================================================================
