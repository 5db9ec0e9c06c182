------------------------------- MODULE Dialog -------------------------------
(***************************************************************************)
(* The console behind either frontend.  Under the graphical frontend it is  *)
(* Dl11's own specification.  The headless one (frontend/headless/main.c,   *)
(* run_boot) has no keyboard: after every step of the machine it may hand    *)
(* the receiver one byte, of a fixed script (--in) as fast as the receiver   *)
(* drains, or of a dialog (--dialog), which types each reply only once the   *)
(* console output ends with the prompt the reply is for, and then at a       *)
(* pace in emulated time.  Its loop ends when the machine halts or when it   *)
(* has run max_instr instructions (--max), wherever the dialog then is.      *)
(*                                                                         *)
(* The guest (external) holds the other side of the conversation: it prints *)
(* each prompt of the dialog, character by character as the transmitter is   *)
(* ready, needs some time until its read() is issued, during which whatever  *)
(* is received is thrown away, then reads and echoes as many bytes as the    *)
(* reply has.  Characters are small model strings, time is in steps.         *)
(***************************************************************************)
EXTENDS Dl11, Sequences, SequencesExt

CONSTANTS
  Steps,        \* the dialog: a sequence of [expect |-> characters, send |-> bytes]
  Chatter,      \* what a guest may print before a prompt
  TailSize,     \* sizeof console_state.tail: 256
  Settle,       \* settle_ns, in steps
  KeyGap,       \* key_ns, in steps
  ReadLatency,  \* the longest a guest takes from its prompt to its read()
  ScriptBytes   \* bytes of the --in script

VARIABLES
  frontend,     \* "sdl", "script" or "dialog"
  turn,         \* the loop of run_boot: "step" the machine, then "input"
  ended,        \* it has run max_instr instructions
  output,       \* console_state: the rolling tail of console output
  cur,          \* steps of the dialog whose prompt has appeared
  pend,         \* bytes of the current reply still to be typed
  wait,         \* time until the next key may be typed
  script,       \* bytes of the script still to be fed
  guest,        \* the guest: the exchange it is in, what it does, what is left of it
  lost          \* history: bytes thrown away by the guest

headless == <<turn, ended, output, cur, pend, wait, script, guest, lost>>
dvars == <<vars, frontend, headless>>

ExchangeCount == Len(Steps)

\* What the console shows for exchange n: the echo of the reply before, chatter c,
\* the prompt.
Echoed(n) == [i \in 1..(IF n = 1 THEN 0 ELSE Steps[n - 1].send) |-> "e"]
Conversation(n, c) == Echoed(n) \o c \o Steps[n].expect

Character ==
  {"e"} \cup UNION {Range(c) : c \in Chatter} \cup UNION {Range(Steps[n].expect) : n \in 1..ExchangeCount}

\* What a dialog has to be for its author to rely on it: each prompt fits the tail
\* and appears nowhere in what precedes it since the last, and the settling time
\* is longer than the guest takes to issue its read().
ASSUME DialogAssumption ==
  /\ Steps \in Seq([expect : Seq(Character), send : Nat]) /\ Steps # <<>>
  /\ Chatter \in SUBSET Seq(Character) /\ Chatter # {}
  /\ TailSize \in Nat /\ \A n \in 1..Len(Steps) : Len(Steps[n].expect) \in 1..TailSize
  /\ Settle \in Nat /\ KeyGap \in Nat /\ ReadLatency \in Nat /\ ReadLatency < Settle
  /\ \A n \in 1..ExchangeCount, c \in Chatter :
       \A p \in 1..(Len(Conversation(n, c)) - 1) :
         ~IsSuffix(Steps[n].expect, SubSeq(Conversation(n, c), 1, p))

Printing(n, text) == [at |-> n, does |-> "print", text |-> text, left |-> 0, next |-> "arm"]

DialogInit ==
  /\ Init
  /\ frontend \in {"sdl", "script", "dialog"}
  /\ turn = "step" /\ ended = FALSE /\ output = <<>> /\ cur = 0 /\ pend = 0 /\ wait = 0
  /\ script = IF frontend = "script" THEN ScriptBytes ELSE 0
  /\ guest \in {Printing(1, c \o Steps[1].expect) : c \in IF frontend = "sdl" THEN {<<>>} ELSE Chatter}
  /\ lost = {}

---------------------------------------------------------------------------
\* pdp11_cpu_step: one instruction of the guest.

\* Mutant of console_sink: a full tail takes no more.
console_sink_full(ch) ==
  output' = IF Len(output) < TailSize THEN Append(output, ch) ELSE output

\* console_sink: the tail takes the character, its oldest one making room.
console_sink(ch) ==
  output' = IF Len(output) < TailSize THEN Append(output, ch) ELSE Append(Tail(output), ch)

Guest(does) == frontend # "sdl" /\ turn = "step" /\ guest.does = does

\* A step takes time, and the loop goes on to the input.
Passes == turn' = "input" /\ wait' = IF wait > 0 THEN wait - 1 ELSE 0

Untouched == UNCHANGED <<frontend, cur, pend, script>>

\* The next character of a prompt or echo, once the transmitter is ready.
PrintNext ==
  /\ Guest("print") /\ xdone
  /\ WriteXbuf /\ console_sink(Head(guest.text))
  /\ guest' = [guest EXCEPT !.text = Tail(@),
                            !.does = IF Len(guest.text) > 1 THEN @ ELSE guest.next,
                            !.left = IF guest.next = "arm" THEN ReadLatency ELSE @]
  /\ Passes /\ Untouched /\ UNCHANGED lost

\* The guest polls the transmitter; the character time ends.
PollTransmitter ==
  /\ Guest("print") /\ TxPoll
  /\ Passes /\ Untouched /\ UNCHANGED <<output, guest, lost>>

\* On its way to read(), the guest throws away what it receives.
Arm ==
  /\ Guest("arm")
  /\ IF rdone THEN ReadRbuf /\ lost' = lost \cup {rbuf} ELSE UNCHANGED <<vars, lost>>
  /\ \/ guest.left > 0 /\ guest' = [guest EXCEPT !.left = @ - 1]
     \/ guest' = [guest EXCEPT !.does = "read", !.left = Steps[guest.at].send]
  /\ Passes /\ Untouched /\ UNCHANGED output

\* The guest reads a byte and echoes it; the last one ends the exchange.
Read ==
  /\ Guest("read") /\ guest.left > 0
  /\ IF rdone
     THEN /\ ReadRbuf
          /\ guest' = [guest EXCEPT !.does = "print", !.text = <<"e">>, !.next = "read",
                                  !.left = @ - 1]
     ELSE UNCHANGED <<vars, guest>>
  /\ Passes /\ Untouched /\ UNCHANGED <<output, lost>>

\* The guest works on what it has read, and prints the next prompt.
Proceed ==
  /\ Guest("read") /\ guest.left = 0
  /\ IF guest.at = ExchangeCount THEN guest' = [guest EXCEPT !.does = "halt"]
     ELSE \E c \in Chatter :
            guest' = Printing(guest.at + 1, c \o Steps[guest.at + 1].expect)
  /\ Passes /\ Untouched /\ UNCHANGED <<vars, output, lost>>

---------------------------------------------------------------------------
\* The rest of the loop's body.

Input == frontend # "sdl" /\ turn = "input" /\ turn' = "step"

\* pdp11_console_input, with the receiver ready for it.
Deliver ==
  /\ typed' = typed + 1
  /\ rbuf' = typed' /\ rdone' = TRUE /\ rreq' = (rreq \/ rie)
  /\ UNCHANGED <<ring, rie, transmitter, received, full, cleared>>

\* The receiver still holds a byte.
Hold ==
  /\ Input /\ rdone
  /\ UNCHANGED <<vars, frontend, output, cur, pend, wait, script, guest, lost>>

FeedScript ==
  /\ Input /\ ~rdone /\ script > 0
  /\ Deliver /\ script' = script - 1
  /\ UNCHANGED <<frontend, output, cur, pend, wait, guest, lost>>

TypeReply ==
  /\ Input /\ ~rdone /\ script = 0 /\ pend > 0
  /\ IF wait = 0
     THEN Deliver /\ pend' = pend - 1 /\ wait' = KeyGap
     ELSE UNCHANGED <<vars, pend, wait>>
  /\ UNCHANGED <<frontend, output, cur, script, guest, lost>>

\* tail_ends_with: never true of an empty prompt.
tail_ends_with(text) == text # <<>> /\ IsSuffix(text, output)

\* Mutant of Settles: the reply is typed as soon as its prompt has appeared.
SettlesNot == wait' = 0

\* The program that prompted has time to issue its read().
Settles == wait' = Settle

\* The prompt of the next step has appeared: its reply is queued, the output it
\* matched is consumed, and the typing starts only after the reader had time.
MatchPrompt ==
  /\ Input /\ ~rdone /\ script = 0 /\ pend = 0
  /\ IF frontend = "dialog" /\ cur < ExchangeCount /\ tail_ends_with(Steps[cur + 1].expect)
     THEN /\ cur' = cur + 1 /\ pend' = Steps[cur + 1].send
          /\ output' = <<>> /\ Settles
     ELSE UNCHANGED <<cur, pend, output, wait>>
  /\ UNCHANGED <<vars, frontend, script, guest, lost>>

HeadlessNext ==
  /\ ~ended /\ UNCHANGED ended
  /\ \/ PrintNext \/ PollTransmitter \/ Arm \/ Read \/ Proceed
     \/ Hold \/ FeedScript \/ TypeReply \/ MatchPrompt

\* i reaches max_instr, which may be any number, and the loop is left.
ReachLimit ==
  /\ frontend # "sdl" /\ turn = "step" /\ ~ended
  /\ ended' = TRUE
  /\ UNCHANGED <<vars, frontend, turn, output, cur, pend, wait, script, guest, lost>>

DialogNext ==
  \/ frontend = "sdl" /\ Next /\ UNCHANGED <<frontend, headless>>
  \/ HeadlessNext
  \/ ReachLimit

\* run_boot's loop goes on until the machine halts or the limit ends it, which it
\* need not: the behaviours without ReachLimit are those of limits large enough.
DialogSpec == DialogInit /\ [][DialogNext]_dvars /\ WF_dvars(HeadlessNext)

---------------------------------------------------------------------------
\* Properties

\* A byte of the dialog is read only by the exchange whose reply it belongs to, and
\* none is thrown away: it is typed after its own prompt, never after an earlier
\* appearance of the same text or its echo, and not before the guest's read().
RepliesMeetPrompts ==
  frontend = "dialog" =>
    /\ lost = {}
    /\ guest.does = "read" /\ rdone => guest.at = cur
    /\ cur <= guest.at

\* Unless the limit of instructions ends the run, the whole conversation takes place:
\* every prompt is recognised, whatever is printed before it and however long the tail
\* has become, and every reply read.  A dialog that stalls does so under any limit.
DialogFinishes ==
  frontend = "dialog" => <>(ended \/ (cur = ExchangeCount /\ pend = 0 /\ guest.does = "halt"))
=============================================================================
