------------------------------ MODULE DosTimer ------------------------------
(***************************************************************************)
(* src/dos/timer.c: the program takes over the timer interrupt, speeds the *)
(* PIT up and still owes the BIOS its own tick.  Interrupt handlers run    *)
(* between any two steps of the main program, never the other way round,   *)
(* and the PIC delivers no further timer interrupt until somebody sends    *)
(* exactly one end-of-interrupt for the last.                              *)
(*                                                                         *)
(* init_timer and cleanup work between _disable and _enable: no handler    *)
(* runs inside them, so each is one step.  The BIOS handler, the PIT and   *)
(* the PIC are external.                                                   *)
(*                                                                         *)
(* A definition named Op_Slip is a faulty variant of Op, a slip that the   *)
(* properties are meant to catch; no action uses it.                       *)
(***************************************************************************)
EXTENDS Integers

CONSTANTS
  Resolutions,  \* the res_hz init_timer may be called with
  TickWrap,     \* ticks counts modulo this (2^32 in the code)
  SleepTicks    \* bound: sleeps last 0..SleepTicks timer ticks

OSC_FREQ_HZ == 1193182
WordSize == 65536

ASSUME ConstantsAssumption ==
  /\ Resolutions \subseteq Nat /\ 1 \notin Resolutions   \* DIV_ROUND by 1 divides by 0
  /\ TickWrap \in Nat \ {0} /\ SleepTicks \in Nat

DIV_ROUND(a, b) == a \div b + (a % b) \div (b \div 2)

(* The reload value, which set_timer_reload sends as two bytes, the length  *)
(* of a tick in ms, and the ticks per call of the BIOS handler.             *)
ReloadVal(hz) == DIV_ROUND(OSC_FREQ_HZ, hz)
PitPeriod(hz) == LET word == ReloadVal(hz) % WordSize IN IF word = 0 THEN WordSize ELSE word
TickInterval(hz) == IF hz = 0 THEN 55 ELSE DIV_ROUND(1000, hz)
TicksPerDosIntr_Truncated(hz) == IF hz = 0 THEN 1 ELSE 65535 \div ReloadVal(hz)
TicksPerDosIntr(hz) == IF hz = 0 THEN 1 ELSE DIV_ROUND(65535, ReloadVal(hz))

(* DIV_ROUND divides by 0 when the divisor is less than 2: 1 Hz, or more    *)
(* than half a million.  sleep_msec divides by the length of a tick: above  *)
(* 2000 Hz that is 0.                                                       *)
ASSUME ResolutionsAssumption ==
  \A hz \in Resolutions : hz # 0 =>
    /\ ReloadVal(hz) \in Nat \ {0, 1} /\ TickInterval(hz) \in Nat \ {0}
    /\ PitPeriod(hz) \in 1..WordSize /\ TicksPerDosIntr(hz) \in Nat

VARIABLES
  watcom,      \* the Watcom build runs, not the DJGPP build; never changes
  pc,          \* main program: before init_timer, running, sleeping, exited
  hz,          \* the res_hz of init_timer
  inum,        \* the interrupt we hooked, 0 before init_timer
  vec8, vec1c, \* interrupt vectors: whose handler is installed
  period,      \* PIT counts per interrupt
  requested,   \* PIC: a timer interrupt is waiting
  inService,   \* PIC: one was delivered and not acknowledged
  strayEoi,    \* an EOI was sent with no timer interrupt in service
  handler,     \* the handler code about to run, "none" in the main program
  ticks, dosTicks,
  sinceBios,   \* interrupts since the BIOS handler last ran
  start, want, slept   \* sleep_msec: ticks at the call, ticks to wait, ticks waited

pic == <<inService, strayEoi>>
setup == <<watcom, hz, inum, vec8, vec1c, period>>
sleep == <<start, want, slept>>
counters == <<ticks, dosTicks, sinceBios>>
vars == <<pc, setup, requested, pic, handler, counters, sleep>>

PIT_TIMER_INTR == 8
DOS_TIMER_INTR == 28

Max1(n) == IF n < 1 THEN 1 ELSE n

TypeOK ==
  /\ pc \in {"start", "run", "sleep", "exited"}
  /\ hz \in Resolutions \cup {0} /\ inum \in {0, PIT_TIMER_INTR, DOS_TIMER_INTR}
  /\ vec8 \in {"bios", "timer_irq"} /\ vec1c \in {"dummy", "dos_timer_intr"}
  /\ period \in 1..WordSize
  /\ watcom \in BOOLEAN /\ requested \in BOOLEAN
  /\ inService \in BOOLEAN /\ strayEoi \in BOOLEAN
  /\ handler \in {"none", "bios", "timer_irq", "dos_timer_intr", "eoi"}
  /\ ticks \in 0..(TickWrap - 1)
  /\ dosTicks \in 0..(Max1(TicksPerDosIntr(hz)) - 1)
  /\ sinceBios \in Nat
  /\ start \in 0..(TickWrap - 1) /\ want \in 0..SleepTicks /\ slept \in 0..SleepTicks

Init ==
  /\ watcom \in BOOLEAN
  /\ pc = "start" /\ hz = 0 /\ inum = 0
  /\ vec8 = "bios" /\ vec1c = "dummy" /\ period = WordSize
  /\ requested = FALSE /\ inService = FALSE /\ strayEoi = FALSE /\ handler = "none"
  /\ ticks = 0 /\ dosTicks = 0 /\ sinceBios = 0
  /\ start = 0 /\ want = 0 /\ slept = 0

-----------------------------------------------------------------------------
(* The PIT asks, the PIC delivers (external). *)

PitFires ==
  /\ ~requested /\ requested' = TRUE
  /\ UNCHANGED <<pc, setup, pic, handler, counters, sleep>>

Interrupt ==
  /\ requested /\ ~inService /\ handler = "none"
  /\ requested' = FALSE /\ inService' = TRUE
  /\ handler' = vec8
  /\ sinceBios' = IF vec8 = "timer_irq" /\ watcom THEN sinceBios + 1 ELSE sinceBios
  /\ UNCHANGED <<pc, setup, strayEoi, ticks, dosTicks, sleep>>

Tick ==
  /\ ticks' = (ticks + 1) % TickWrap
  /\ slept' = IF pc = "sleep" /\ slept < want THEN slept + 1 ELSE slept
  /\ UNCHANGED <<pc, setup, requested, pic, sinceBios, start, want>>

(* timer_irq: every ticks_per_dos_intr-th time the Watcom build jumps to    *)
(* the BIOS handler, which acknowledges the interrupt itself.               *)
timer_irq_ChainLate ==
  /\ handler = "timer_irq" /\ Tick
  /\ IF watcom /\ dosTicks + 1 > TicksPerDosIntr(hz)
       THEN handler' = "bios" /\ dosTicks' = 0
       ELSE handler' = "eoi" /\ dosTicks' = IF watcom THEN dosTicks + 1 ELSE dosTicks
timer_irq_NoEoi ==
  /\ handler = "timer_irq" /\ Tick
  /\ IF watcom /\ dosTicks + 1 >= TicksPerDosIntr(hz)
       THEN handler' = "bios" /\ dosTicks' = 0
       ELSE handler' = "none" /\ dosTicks' = IF watcom THEN dosTicks + 1 ELSE dosTicks
timer_irq ==
  /\ handler = "timer_irq" /\ Tick
  /\ IF watcom /\ dosTicks + 1 >= TicksPerDosIntr(hz)
       THEN handler' = "bios" /\ dosTicks' = 0
       ELSE handler' = "eoi" /\ dosTicks' = IF watcom THEN dosTicks + 1 ELSE dosTicks

(* outp(PIC1_CMD, OCW2_EOI), by timer_irq or by the BIOS. *)
Eoi ==
  /\ handler = "eoi" /\ handler' = "none"
  /\ inService' = FALSE /\ strayEoi' = (strayEoi \/ ~inService)
  /\ UNCHANGED <<pc, setup, requested, counters, sleep>>

(* The BIOS handler counts the time of day, raises int 1Ch and acknowledges *)
(* (external).                                                              *)
BiosIntr ==
  /\ handler = "bios" /\ sinceBios' = 0
  /\ handler' = IF vec1c = "dos_timer_intr" THEN "dos_timer_intr" ELSE "eoi"
  /\ UNCHANGED <<pc, setup, requested, pic, ticks, dosTicks, sleep>>

(* dos_timer_intr chains to the previous handler, which only returns.  A    *)
(* slip: acknowledging here, as timer_irq does.                             *)
dos_timer_intr_Acknowledges ==
  /\ handler = "dos_timer_intr" /\ handler' = "eoi"
  /\ ticks' = (ticks + 1) % TickWrap
  /\ slept' = IF pc = "sleep" /\ slept < want THEN slept + 1 ELSE slept
  /\ inService' = FALSE
  /\ UNCHANGED <<pc, setup, requested, strayEoi, sinceBios, start, want, dosTicks>>
dos_timer_intr ==
  /\ handler = "dos_timer_intr" /\ handler' = "eoi" /\ Tick /\ UNCHANGED dosTicks

-----------------------------------------------------------------------------
(* The main program. *)

MainRuns(here, next) == handler = "none" /\ pc = here /\ pc' = next /\ UNCHANGED handler

(* The DJGPP build has no int 1Ch handler: assert(0). *)
init_timer(res_hz) ==
  /\ MainRuns("start", "run")
  /\ watcom \/ res_hz > 0
  /\ hz' = res_hz /\ UNCHANGED watcom
  /\ IF res_hz > 0
       THEN /\ inum' = PIT_TIMER_INTR /\ vec8' = "timer_irq" /\ UNCHANGED vec1c
            /\ period' = PitPeriod(res_hz)
       ELSE /\ inum' = DOS_TIMER_INTR /\ vec1c' = "dos_timer_intr" /\ UNCHANGED <<vec8, period>>
  /\ UNCHANGED <<requested, pic, counters, sleep>>

(* exit runs cleanup through atexit. *)
cleanup_AssumesPit ==
  /\ MainRuns("run", "exited")
  /\ period' = 65535 /\ vec8' = "bios"
  /\ UNCHANGED <<watcom, hz, inum, vec1c, requested, pic, counters, sleep>>
cleanup ==
  /\ MainRuns("run", "exited")
  /\ IF inum = PIT_TIMER_INTR
       THEN period' = 65535 /\ vec8' = "bios" /\ UNCHANGED vec1c
       ELSE vec1c' = "dummy" /\ UNCHANGED <<vec8, period>>
  /\ UNCHANGED <<watcom, hz, inum, requested, pic, counters, sleep>>

reset_timer ==
  /\ MainRuns("run", "run") /\ ticks' = 0
  /\ UNCHANGED <<setup, requested, pic, dosTicks, sinceBios, sleep>>

(* sleep_msec: wakeup_time wraps like ticks does. *)
wakeup_time_Relative == want
wakeup_time == (start + want) % TickWrap

BeginSleep ==
  /\ MainRuns("run", "sleep")
  /\ want' \in 0..SleepTicks
  /\ start' = ticks /\ slept' = 0
  /\ UNCHANGED <<setup, requested, pic, counters>>

Wake ==
  /\ MainRuns("sleep", "run") /\ ticks >= wakeup_time
  /\ UNCHANGED <<setup, requested, pic, counters, sleep>>

-----------------------------------------------------------------------------
Handlers == timer_irq \/ Eoi \/ BiosIntr \/ dos_timer_intr
Next ==
  \/ PitFires \/ Interrupt \/ Handlers
  \/ \E res_hz \in Resolutions : init_timer(res_hz)
  \/ cleanup \/ reset_timer \/ BeginSleep \/ Wake

(* The PIT keeps firing and handlers finish.  The sleep loop is strongly    *)
(* fair: a handful of instructions of it run between two interrupts.        *)
Spec ==
  /\ Init /\ [][Next]_vars
  /\ WF_vars(PitFires) /\ WF_vars(Interrupt) /\ WF_vars(Handlers) /\ SF_vars(Wake)

-----------------------------------------------------------------------------
(* Every timer interrupt is acknowledged exactly once, whichever chain of   *)
(* handlers served it.                                                      *)
OneEoiPerInterrupt == (handler = "none" => ~inService) /\ ~strayEoi

(* The BIOS expects to be called every 65536 counts of the PIT.  While we   *)
(* own the interrupt the Watcom build calls it within half of our period of *)
(* that, and it is never later: rounding to whole interrupts is all the DOS *)
(* clock suffers.  Not so for a resolution of 18 Hz or less, whose reload   *)
(* value loses its high bits.  (The DJGPP build never calls the BIOS: the   *)
(* DOS clock stands still while the program runs.)                          *)
BiosTickOnTime ==
  vec8 = "timer_irq" =>
    /\ handler = "bios" => watcom
    /\ ReloadVal(hz) < WordSize =>
         /\ sinceBios * period <= WordSize + period \div 2
         /\ handler = "bios" => sinceBios * period >= WordSize - period \div 2

(* After exit no vector points into the program and the PIT runs at its     *)
(* slowest rate again; until then a hook is in place from init_timer on.    *)
HooksUndone ==
  /\ pc = "exited" => vec8 = "bios" /\ vec1c = "dummy" /\ period >= 65535
  /\ pc \in {"run", "sleep"} => (vec8 = "timer_irq" \/ vec1c = "dos_timer_intr")

(* sleep_msec never returns early, except when its wakeup time overflows.   *)
NeverWakesEarly ==
  [][pc = "sleep" /\ pc' = "run" => slept >= want \/ start + want >= TickWrap]_vars

(* ... and it does return: its clock keeps ticking.                         *)
SleepEnds == pc = "sleep" ~> pc # "sleep"
=============================================================================
