---------------------------- MODULE DosTimerProofs ----------------------------
(***************************************************************************)
(* Proofs about DosTimer, for every resolution, every width of the tick    *)
(* counter and every length of sleep: acknowledgements, the BIOS's tick,   *)
(* the vectors, and sleeps that do not end early.                          *)
(***************************************************************************)
EXTENDS DosTimer, TLAPS

PerBios == Max1(TicksPerDosIntr(hz))

(* Which vector is ours, at each stage of the program. *)
VectorsFollow ==
  \/ /\ pc = "start" /\ vec8 = "bios" /\ vec1c = "dummy" /\ period = WordSize
     /\ sinceBios = 0 /\ dosTicks = 0
  \/ /\ pc \in {"run", "sleep"} /\ inum = PIT_TIMER_INTR
     /\ vec8 = "timer_irq" /\ vec1c = "dummy"
     /\ hz \in Resolutions \ {0} /\ period = PitPeriod(hz)
  \/ /\ pc \in {"run", "sleep"} /\ inum = DOS_TIMER_INTR
     /\ vec8 = "bios" /\ vec1c = "dos_timer_intr" /\ period = WordSize
  \/ pc = "exited" /\ vec8 = "bios" /\ vec1c = "dummy" /\ period >= 65535

(* An interrupt is in service exactly while a handler runs. *)
ServedByHandler == (handler = "none" <=> ~inService) /\ ~strayEoi

(* The handler's count and the interrupts the BIOS has missed agree, but    *)
(* for the interrupt being handled.                                         *)
CountsAgree ==
  /\ sinceBios <= PerBios
  /\ handler = "timer_irq" => vec8 = "timer_irq"
  /\ vec8 = "timer_irq" =>
       CASE handler = "bios" -> sinceBios = PerBios /\ dosTicks = 0 /\ watcom
         [] handler = "timer_irq" -> sinceBios = dosTicks + (IF watcom THEN 1 ELSE 0)
         [] OTHER -> sinceBios = dosTicks

(* A sleeper that has not waited long enough sees its own ticks. *)
SleepIsCounted ==
  pc = "sleep" /\ slept < want /\ start + want < TickWrap => ticks = start + slept

IInv == TypeOK /\ VectorsFollow /\ ServedByHandler /\ CountsAgree /\ SleepIsCounted

-----------------------------------------------------------------------------
LEMMA RemainderOfSmall ==
  ASSUME NEW n \in Nat \ {0}, NEW a \in 0..(n - 1)
  PROVE  a % n = a
OBVIOUS

LEMMA RemainderInRange ==
  ASSUME NEW n \in Nat \ {0}, NEW a \in Nat
  PROVE  a % n \in 0..(n - 1)
OBVIOUS

(* The rounding of ticks_per_dos_intr.  DIV_ROUND by an odd number is one   *)
(* too high when the remainder is the largest there is; for 65535 that      *)
(* would take an odd divisor of 65536.                                      *)
HasOddDivisor(n) == \E h \in Nat \ {0}, m \in Int : m * (2 * h + 1) = n

LEMMA Halve ==
  ASSUME NEW h \in Nat, NEW m \in Int, NEW n \in Int, m * (2 * h + 1) = 2 * n
  PROVE  \E k \in Int : k * (2 * h + 1) = n
<1> DEFINE k == n - m * h
<1>1. m * h \in Int /\ m * (2 * h + 1) = 2 * (m * h) + m
  OBVIOUS
<1>2. m = 2 * k
  BY <1>1
<1>3. k \in Int
  BY <1>1
<1> HIDE DEF k
<1>4. (2 * k) * (2 * h + 1) = 2 * (k * (2 * h + 1))
  BY <1>3
<1>5. k * (2 * h + 1) \in Int
  BY <1>3
<1>6. 2 * (k * (2 * h + 1)) = 2 * n
  BY <1>2, <1>4
<1>7. k * (2 * h + 1) = n
  BY <1>5, <1>6
<1> QED
  BY <1>3, <1>7

LEMMA NoOddDivisor == ~HasOddDivisor(16 * (16 * (16 * 16)))
<1> SUFFICES ASSUME NEW h \in Nat \ {0}, NEW m \in Int, m * (2 * h + 1) = 16 * (16 * (16 * 16))
             PROVE  FALSE
  BY DEF HasOddDivisor
<1> DEFINE Divides(n) == \E k \in Int : k * (2 * h + 1) = n
<1>1. \A n \in Int : Divides(2 * n) => Divides(n)
  BY Halve
<1>2. Divides(16 * (16 * (16 * 16)))
  OBVIOUS
<1> HIDE DEF Divides
<1>3. ASSUME NEW n \in Int, Divides(16 * n)
      PROVE  Divides(n)
  <2>1. Divides(8 * n)  BY <1>1, <1>3, 2 * (8 * n) = 16 * n
  <2>2. Divides(4 * n)  BY <1>1, <2>1, 2 * (4 * n) = 8 * n
  <2>3. Divides(2 * n)  BY <1>1, <2>2, 2 * (2 * n) = 4 * n
  <2> QED               BY <1>1, <2>3
<1>4. Divides(16 * 1)
  <2>1. Divides(16 * (16 * 16))  BY <1>2, <1>3
  <2>2. Divides(16 * 16)         BY <1>3, <2>1
  <2> QED                        BY <1>3, <2>2
<1>5. Divides(1)
  BY <1>3, <1>4
<1>6. PICK k \in Int : k * (2 * h + 1) = 1
  BY <1>5 DEF Divides
<1>7. CASE k <= 0
  BY <1>6, <1>7
<1>8. CASE k >= 1
  BY <1>6, <1>8
<1> QED
  BY <1>6, <1>7, <1>8

LEMMA NearestMultiple ==
  ASSUME NEW n \in Nat, NEW R \in Nat, 2 <= R, R <= n,
         ~HasOddDivisor(n + 1),
         NEW T, T = DIV_ROUND(n, R)
  PROVE  T \in Nat \ {0} /\ T * R <= n + 1 + R \div 2 /\ T * R >= n + 1 - R \div 2
<1> DEFINE q == n \div R  rem == n % R  h == R \div 2
<1>1. q \in Int /\ rem \in Int /\ 0 <= rem /\ rem < R /\ n = R * q + rem
  OBVIOUS
<1>2. h \in Nat \ {0} /\ (R = 2 * h \/ R = 2 * h + 1)
  OBVIOUS
<1>3. T = q + rem \div h
  BY DEF DIV_ROUND
<1> SUFFICES T \in Nat \ {0} /\ T * R <= n + 1 + h /\ T * R >= n + 1 - h
  OBVIOUS
<1> HIDE DEF q, rem, h
<1>4. q \in Nat \ {0}
  <2>1. CASE q <= 0
    <3>1. R * q <= 0
      BY <1>1, <2>1
    <3> QED
      BY <1>1, <3>1
  <2> QED
    BY <1>1, <2>1
<1>8. PICK p \in Int : p = R * q
  BY <1>4
<1>9. n = p + rem
  BY <1>1, <1>8
<1>5. CASE rem < h
  <2>1. rem \div h = 0
    BY <1>1, <1>2, <1>5
  <2>2. T = q /\ T * R = p
    BY <1>3, <1>4, <1>8, <2>1
  <2>3. p <= n + 1 + h /\ p >= n + 1 - h
    BY <1>1, <1>2, <1>5, <1>9
  <2> QED
    BY <1>4, <2>2, <2>3
<1>6. CASE h <= rem /\ rem < 2 * h
  <2>1. rem \div h = 1
    BY <1>1, <1>2, <1>6
  <2>2. T = q + 1 /\ T * R = p + R
    BY <1>3, <1>4, <1>8, <2>1
  <2>3. p + R <= n + 1 + h /\ p + R >= n + 1 - h
    BY <1>1, <1>2, <1>6, <1>9
  <2> QED
    BY <1>4, <2>2, <2>3
<1>7. CASE 2 * h <= rem
  <2>1. R = 2 * h + 1 /\ rem = 2 * h
    BY <1>1, <1>2, <1>7
  <2>2. (q + 1) * R = p + R
    BY <1>4, <1>8
  <2>3. p + R = n + 1
    BY <1>2, <1>9, <2>1
  <2>4. (q + 1) * (2 * h + 1) = n + 1 /\ q + 1 \in Int /\ h \in Nat \ {0}
    BY <1>2, <1>4, <2>1, <2>2, <2>3
  <2> QED
    BY <2>4 DEF HasOddDivisor
<1>10. rem \in Int /\ h \in Int
  BY <1>1, <1>2
<1>11. rem < h \/ (h <= rem /\ rem < 2 * h) \/ 2 * h <= rem
  BY <1>10
<1> QED
  BY <1>5, <1>6, <1>7, <1>11

(* The counts of the PIT between two calls of the BIOS. *)
LEMMA CountsPerBios ==
  ASSUME NEW R \in Nat, 2 <= R, R < WordSize, NEW T, T = DIV_ROUND(65535, R)
  PROVE  T \in Nat \ {0} /\ T * R <= WordSize + R \div 2 /\ T * R >= WordSize - R \div 2
<1>1. PICK n \in Nat : n = 65535
  OBVIOUS
<1>2. WordSize = n + 1 /\ n + 1 = 16 * (16 * (16 * 16))
  BY <1>1, SMT DEF WordSize
<1>3. T = DIV_ROUND(n, R)
  BY <1>1
<1>4. R <= n
  BY <1>2
<1>5. ~HasOddDivisor(n + 1)
  BY <1>2, NoOddDivisor
<1>6. T \in Nat \ {0} /\ T * R <= n + 1 + R \div 2 /\ T * R >= n + 1 - R \div 2
  BY <1>3, <1>4, <1>5, NearestMultiple
<1>7. WordSize = n + 1
  BY <1>2
<1> QED
  BY <1>6, <1>7

LEMMA PerBiosPositive ==
  ASSUME hz \in Resolutions \cup {0}
  PROVE  /\ TicksPerDosIntr(hz) \in Nat /\ PerBios \in Nat \ {0}
         /\ PerBios >= TicksPerDosIntr(hz)
<1>1. TicksPerDosIntr(hz) \in Nat
  <2>1. CASE hz = 0
    BY <2>1 DEF TicksPerDosIntr
  <2>2. CASE hz # 0
    BY <2>2, ResolutionsAssumption
  <2> QED
    BY <2>1, <2>2
<1> QED
  BY <1>1 DEF PerBios, Max1

LEMMA InitInv == Init => IInv
<1> SUFFICES ASSUME Init PROVE IInv
  OBVIOUS
<1>1. PerBios \in Nat \ {0}
  BY PerBiosPositive DEF Init
<1>2. period \in 1..WordSize
  BY DEF Init, WordSize
<1>3. TypeOK
  <2>1. ticks \in 0..(TickWrap - 1) /\ start \in 0..(TickWrap - 1)
    BY ConstantsAssumption DEF Init
  <2>2. want \in 0..SleepTicks /\ slept \in 0..SleepTicks
    BY ConstantsAssumption DEF Init
  <2>3. dosTicks \in 0..(PerBios - 1) /\ sinceBios \in Nat
    BY <1>1 DEF Init
  <2> QED
    BY <1>2, <2>1, <2>2, <2>3 DEF Init, TypeOK, PerBios
<1> QED
  BY <1>1, <1>3 DEF Init, IInv, VectorsFollow, ServedByHandler, CountsAgree, SleepIsCounted

-----------------------------------------------------------------------------
(* Hardware and handlers. *)

LEMMA PitStep ==
  ASSUME IInv, PitFires
  PROVE  IInv'
<1> USE DEF PitFires, setup, pic, counters, sleep
<1>1. TypeOK'
  BY DEF IInv, TypeOK
<1>2. VectorsFollow' /\ ServedByHandler' /\ SleepIsCounted'
  BY DEF IInv, VectorsFollow, ServedByHandler, SleepIsCounted
<1>3. CountsAgree'
  BY DEF IInv, CountsAgree, PerBios
<1> QED
  BY <1>1, <1>2, <1>3 DEF IInv

LEMMA InterruptStep ==
  ASSUME IInv, Interrupt
  PROVE  IInv'
<1> USE DEF Interrupt, setup, sleep
<1>1. PerBios \in Nat \ {0} /\ sinceBios \in Nat /\ dosTicks \in 0..(PerBios - 1)
  BY PerBiosPositive DEF IInv, TypeOK, PerBios
<1>2. TypeOK'
  <2>1. sinceBios' \in Nat
    BY <1>1
  <2> QED
    BY <2>1 DEF IInv, TypeOK
<1>3. VectorsFollow' /\ ServedByHandler' /\ SleepIsCounted'
  BY DEF IInv, TypeOK, VectorsFollow, ServedByHandler, SleepIsCounted
<1>4. CountsAgree'
  <2>1. vec8 \in {"bios", "timer_irq"} /\ PerBios' = PerBios
    BY DEF IInv, TypeOK, PerBios
  <2> QED
    BY <1>1, <2>1 DEF IInv, CountsAgree
<1> QED
  BY <1>2, <1>3, <1>4 DEF IInv

(* What both handlers do: the tick counter goes on. *)
LEMMA TickKeeps ==
  ASSUME IInv, Tick
  PROVE  /\ ticks' \in 0..(TickWrap - 1) /\ slept' \in 0..SleepTicks
         /\ SleepIsCounted'
<1> USE DEF Tick, setup, pic
<1>1. /\ TickWrap \in Nat \ {0} /\ SleepTicks \in Nat /\ ticks \in 0..(TickWrap - 1)
      /\ start \in 0..(TickWrap - 1) /\ want \in 0..SleepTicks /\ slept \in 0..SleepTicks
  BY ConstantsAssumption DEF IInv, TypeOK
<1>2. ticks' \in 0..(TickWrap - 1)
  BY <1>1, RemainderInRange
<1>3. slept' \in 0..SleepTicks
  BY <1>1
<1>4. SleepIsCounted'
  <2> SUFFICES ASSUME pc' = "sleep", slept' < want', start' + want' < TickWrap
               PROVE  ticks' = start' + slept'
    BY DEF SleepIsCounted
  <2>1. slept' = slept + 1 /\ ticks = start + slept
    BY <1>1 DEF IInv, SleepIsCounted
  <2>2. ticks + 1 \in 0..(TickWrap - 1)
    BY <1>1, <2>1
  <2>3. ticks' = ticks + 1
    BY <1>1, <2>2, RemainderOfSmall
  <2> QED
    BY <1>1, <2>1, <2>3
<1> QED
  BY <1>2, <1>3, <1>4

LEMMA TimerIrqStep ==
  ASSUME IInv, timer_irq
  PROVE  IInv'
<1> USE DEF timer_irq
<1>1. /\ PerBios \in Nat \ {0} /\ TicksPerDosIntr(hz) \in Nat /\ PerBios >= TicksPerDosIntr(hz)
      /\ sinceBios \in Nat /\ dosTicks \in 0..(PerBios - 1)
  BY PerBiosPositive DEF IInv, TypeOK, PerBios
<1>2. UNCHANGED <<setup, requested, pic, sinceBios, start, want, pc>> /\ PerBios' = PerBios
  BY DEF Tick, setup, PerBios
<1>3. PerBios = 1 \/ PerBios = TicksPerDosIntr(hz)
  BY <1>1 DEF PerBios, Max1
<1>4. dosTicks' \in 0..(PerBios - 1)
  BY <1>1, <1>3
<1>5. TypeOK'
  BY <1>2, <1>4, TickKeeps DEF IInv, TypeOK, setup, pic, PerBios
<1>6. ServedByHandler'
  BY <1>2 DEF IInv, ServedByHandler, pic
<1>7. CountsAgree'
  <2>1. vec8 = "timer_irq" /\ sinceBios = dosTicks + (IF watcom THEN 1 ELSE 0)
    BY DEF IInv, CountsAgree
  <2> QED
    BY <1>1, <1>2, <1>3, <2>1 DEF IInv, CountsAgree, setup
<1>8. VectorsFollow'
  BY <1>2 DEF IInv, CountsAgree, VectorsFollow, setup
<1> QED
  BY <1>5, <1>6, <1>7, <1>8, TickKeeps DEF IInv

LEMMA DosIntrStep ==
  ASSUME IInv, dos_timer_intr
  PROVE  IInv'
<1> USE DEF dos_timer_intr
<1>1. UNCHANGED <<setup, requested, pic, sinceBios, dosTicks, start, want, pc>>
      /\ PerBios' = PerBios
  BY DEF Tick, setup, PerBios
<1>2. TypeOK'
  BY <1>1, TickKeeps DEF IInv, TypeOK, setup, pic
<1>3. ServedByHandler'
  BY <1>1 DEF IInv, ServedByHandler, pic
<1>4. CountsAgree'
  BY <1>1 DEF IInv, CountsAgree, setup
<1>5. VectorsFollow'
  BY <1>1 DEF IInv, VectorsFollow, setup
<1> QED
  BY <1>2, <1>3, <1>4, <1>5, TickKeeps DEF IInv

LEMMA EoiStep ==
  ASSUME IInv, Eoi
  PROVE  IInv'
<1> USE DEF Eoi, setup, counters, sleep
<1>1. TypeOK' /\ ServedByHandler'
  BY DEF IInv, TypeOK, ServedByHandler
<1>2. VectorsFollow' /\ SleepIsCounted'
  BY DEF IInv, VectorsFollow, SleepIsCounted
<1>3. CountsAgree'
  BY DEF IInv, CountsAgree, PerBios
<1> QED
  BY <1>1, <1>2, <1>3 DEF IInv

LEMMA BiosStep ==
  ASSUME IInv, BiosIntr
  PROVE  IInv'
<1> USE DEF BiosIntr, setup, pic, sleep
<1>1. TypeOK' /\ ServedByHandler'
  BY DEF IInv, TypeOK, ServedByHandler
<1>2. VectorsFollow' /\ SleepIsCounted'
  BY DEF IInv, VectorsFollow, SleepIsCounted
<1>3. CountsAgree'
  <2>1. PerBios' = PerBios /\ PerBios \in Nat \ {0}
    BY PerBiosPositive DEF IInv, TypeOK, PerBios
  <2> QED
    BY <2>1 DEF IInv, CountsAgree
<1> QED
  BY <1>1, <1>2, <1>3 DEF IInv

-----------------------------------------------------------------------------
(* The main program: no handler is running. *)

LEMMA InitTimerStep ==
  ASSUME IInv, NEW res_hz \in Resolutions, init_timer(res_hz)
  PROVE  IInv'
<1> USE DEF init_timer, MainRuns, pic, counters, sleep
<1>1. hz' \in Resolutions \cup {0} /\ hz' = res_hz
  OBVIOUS
<1>2. /\ PerBios' \in Nat \ {0}
      /\ TicksPerDosIntr(hz') \in Nat
  <2>1. ASSUME NEW h \in Resolutions PROVE TicksPerDosIntr(h) \in Nat
    BY ResolutionsAssumption DEF TicksPerDosIntr
  <2> QED
    BY <1>1, <2>1 DEF PerBios, Max1
<1>3. sinceBios = 0 /\ dosTicks = 0
  BY DEF IInv, VectorsFollow
<1>4. period' \in 1..WordSize
  <2>1. CASE res_hz > 0
    BY <2>1, ResolutionsAssumption, ConstantsAssumption
  <2>2. CASE ~(res_hz > 0)
    BY <2>2 DEF IInv, TypeOK
  <2> QED
    BY <2>1, <2>2
<1>5. TypeOK'
  <2>1. dosTicks' \in 0..(PerBios' - 1)
    <3>1. ASSUME NEW n \in Nat \ {0} PROVE 0 \in 0..(n - 1)
      OBVIOUS
    <3>2. dosTicks' = 0
      BY <1>3
    <3> QED
      BY <1>2, <3>1, <3>2
  <2> QED
    BY <1>1, <1>4, <2>1 DEF IInv, TypeOK, PerBios
<1>6. VectorsFollow' /\ SleepIsCounted'
  BY DEF IInv, VectorsFollow, SleepIsCounted
<1>7. ServedByHandler'
  BY DEF IInv, ServedByHandler
<1>8. CountsAgree'
  BY <1>2, <1>3 DEF CountsAgree
<1> QED
  BY <1>5, <1>6, <1>7, <1>8 DEF IInv

LEMMA CleanupStep ==
  ASSUME IInv, cleanup
  PROVE  IInv'
<1> USE DEF cleanup, MainRuns, pic, counters, sleep
<1>1. period' \in 1..WordSize
  <2>1. 65535 \in 1..WordSize
    BY DEF WordSize
  <2> QED
    BY <2>1 DEF IInv, TypeOK
<1>2. TypeOK'
  BY <1>1 DEF IInv, TypeOK
<1>3. VectorsFollow'
  <2>1. WordSize >= 65535 /\ PIT_TIMER_INTR # DOS_TIMER_INTR
    BY DEF WordSize, PIT_TIMER_INTR, DOS_TIMER_INTR
  <2>2. period' >= 65535
    BY <2>1 DEF IInv, VectorsFollow
  <2> QED
    BY <2>1, <2>2 DEF IInv, VectorsFollow
<1>4. ServedByHandler' /\ SleepIsCounted'
  BY DEF IInv, ServedByHandler, SleepIsCounted
<1>5. CountsAgree'
  BY DEF IInv, CountsAgree, PerBios
<1> QED
  BY <1>2, <1>3, <1>4, <1>5 DEF IInv

LEMMA ResetStep ==
  ASSUME IInv, reset_timer
  PROVE  IInv'
<1> USE DEF reset_timer, MainRuns, setup, pic, sleep
<1>1. TypeOK'
  <2>1. ticks' \in 0..(TickWrap - 1)
    BY ConstantsAssumption
  <2> QED
    BY <2>1 DEF IInv, TypeOK
<1>2. VectorsFollow' /\ ServedByHandler' /\ SleepIsCounted'
  BY DEF IInv, VectorsFollow, ServedByHandler, SleepIsCounted
<1>3. CountsAgree'
  BY DEF IInv, CountsAgree, PerBios
<1> QED
  BY <1>1, <1>2, <1>3 DEF IInv

LEMMA SleepStep ==
  ASSUME IInv, BeginSleep
  PROVE  IInv'
<1> USE DEF BeginSleep, MainRuns, setup, pic, counters
<1>1. TypeOK'
  <2>1. slept' \in 0..SleepTicks
    BY ConstantsAssumption
  <2> QED
    BY <2>1 DEF IInv, TypeOK
<1>2. VectorsFollow' /\ ServedByHandler'
  BY DEF IInv, VectorsFollow, ServedByHandler
<1>3. SleepIsCounted'
  BY ConstantsAssumption DEF IInv, TypeOK, SleepIsCounted
<1>4. CountsAgree'
  BY DEF IInv, CountsAgree, PerBios
<1> QED
  BY <1>1, <1>2, <1>3, <1>4 DEF IInv

LEMMA WakeStep ==
  ASSUME IInv, Wake
  PROVE  IInv' /\ (slept >= want \/ start + want >= TickWrap)
<1> USE DEF Wake, MainRuns, setup, pic, counters, sleep
<1>1. TypeOK' /\ VectorsFollow' /\ ServedByHandler' /\ SleepIsCounted'
  <2>1. TypeOK'
    BY DEF IInv, TypeOK
  <2>2. VectorsFollow' /\ ServedByHandler' /\ SleepIsCounted'
    BY DEF IInv, VectorsFollow, ServedByHandler, SleepIsCounted
  <2> QED
    BY <2>1, <2>2
<1>2. CountsAgree'
  BY DEF IInv, CountsAgree, PerBios
<1>3. ASSUME start + want < TickWrap, slept < want
      PROVE  FALSE
  <2>1. /\ TickWrap \in Nat \ {0} /\ start \in Nat /\ want \in Nat /\ slept \in Nat
        /\ ticks = start + slept
    BY <1>3, ConstantsAssumption DEF IInv, TypeOK, SleepIsCounted
  <2>2. (start + want) % TickWrap = start + want
    BY <1>3, <2>1, RemainderOfSmall
  <2> QED
    BY <1>3, <2>1, <2>2 DEF wakeup_time
<1>4. start \in Nat /\ want \in Nat /\ slept \in Nat /\ TickWrap \in Nat
  BY ConstantsAssumption DEF IInv, TypeOK
<1> QED
  BY <1>1, <1>2, <1>3, <1>4 DEF IInv

LEMMA NextInv == IInv /\ [Next]_vars => IInv'
<1> SUFFICES ASSUME IInv, [Next]_vars PROVE IInv'
  OBVIOUS
<1>1. CASE PitFires \/ Interrupt
  BY <1>1, PitStep, InterruptStep
<1>2. CASE Handlers
  BY <1>2, TimerIrqStep, EoiStep, BiosStep, DosIntrStep DEF Handlers
<1>3. CASE \E res_hz \in Resolutions : init_timer(res_hz)
  BY <1>3, InitTimerStep
<1>4. CASE cleanup \/ reset_timer \/ BeginSleep \/ Wake
  BY <1>4, CleanupStep, ResetStep, SleepStep, WakeStep
<1>5. CASE UNCHANGED vars
  <2> USE <1>5 DEF vars, setup, pic, counters, sleep
  <2>1. TypeOK'
    BY DEF IInv, TypeOK
  <2>2. VectorsFollow' /\ ServedByHandler' /\ SleepIsCounted'
    BY DEF IInv, VectorsFollow, ServedByHandler, SleepIsCounted
  <2>3. CountsAgree'
    BY DEF IInv, CountsAgree, PerBios
  <2> QED
    BY <2>1, <2>2, <2>3 DEF IInv
<1> QED
  BY <1>1, <1>2, <1>3, <1>4, <1>5 DEF Next

THEOREM Invariant == Spec => []IInv
BY InitInv, NextInv, PTL DEF Spec

-----------------------------------------------------------------------------
(* Every variable of the timer has its type: in particular the handler's    *)
(* count stays below the ticks per BIOS call.                               *)
THEOREM TimerTypes == Spec => []TypeOK
<1>1. IInv => TypeOK
  BY DEF IInv
<1> QED
  BY <1>1, Invariant, PTL

(* Every timer interrupt is acknowledged exactly once.                      *)
THEOREM AcknowledgedOnce == Spec => []OneEoiPerInterrupt
<1>1. IInv => OneEoiPerInterrupt
  BY DEF IInv, ServedByHandler, OneEoiPerInterrupt
<1> QED
  BY <1>1, Invariant, PTL

(* At every resolution above 18 Hz whose reload value DIV_ROUND can divide  *)
(* by, the Watcom build calls the BIOS handler within half a period of its  *)
(* 65536 counts, and never later; the DJGPP build does not call it.         *)
THEOREM BiosClockKept == Spec => []BiosTickOnTime
<1>1. ASSUME IInv PROVE BiosTickOnTime
  <2> SUFFICES ASSUME vec8 = "timer_irq" PROVE BiosTickOnTime
    BY DEF BiosTickOnTime
  <2>1. handler = "bios" => watcom
    BY <1>1 DEF IInv, CountsAgree
  <2>2. hz \in Resolutions \ {0} /\ period = PitPeriod(hz)
    BY <1>1 DEF IInv, VectorsFollow
  <2>3. ASSUME ReloadVal(hz) < WordSize
        PROVE  /\ sinceBios * period <= WordSize + period \div 2
               /\ handler = "bios" => sinceBios * period >= WordSize - period \div 2
    <3> DEFINE R == ReloadVal(hz)  T == TicksPerDosIntr(hz)
    <3>1. R \in Nat /\ 2 <= R /\ R < WordSize
      <4>1. R \in Nat \ {0, 1}
        BY <2>2, ResolutionsAssumption
      <4> QED
        BY <2>3, <4>1
    <3>2. period = R
      <4>1. PitPeriod(hz) = IF R % WordSize = 0 THEN WordSize ELSE R % WordSize
        BY DEF PitPeriod
      <4>2. WordSize \in Nat \ {0}
        BY SMT DEF WordSize
      <4> HIDE DEF R
      <4>3. R % WordSize = R
        BY <3>1, <4>2
      <4> QED
        BY <2>2, <3>1, <4>1, <4>3
    <3>3. T = DIV_ROUND(65535, R)
      BY <2>2 DEF TicksPerDosIntr
    <3> HIDE DEF R, T
    <3>4. T \in Nat \ {0} /\ T * R <= WordSize + R \div 2 /\ T * R >= WordSize - R \div 2
      BY <3>1, <3>3, CountsPerBios
    <3>5. PerBios = T
      BY <3>4 DEF PerBios, Max1, T
    <3>6. sinceBios \in Nat /\ sinceBios <= T /\ (handler = "bios" => sinceBios = T)
      BY <1>1, <3>5 DEF IInv, CountsAgree, TypeOK
    <3>7. sinceBios * R <= T * R
      BY <3>1, <3>4, <3>6
    <3>8. sinceBios * R \in Int /\ T * R \in Int /\ R \div 2 \in Int /\ WordSize \in Int
      BY <3>1, <3>4, <3>6 DEF WordSize
    <3> QED
      BY <3>2, <3>4, <3>6, <3>7, <3>8
  <2> QED
    BY <2>1, <2>3 DEF BiosTickOnTime
<1> QED
  BY <1>1, Invariant, PTL

(* After exit no vector points into the program.                            *)
THEOREM VectorsRestored == Spec => []HooksUndone
<1>1. IInv => HooksUndone
  BY DEF IInv, VectorsFollow, HooksUndone
<1> QED
  BY <1>1, Invariant, PTL

(* sleep_msec does not return early, as long as its wakeup time does not    *)
(* overflow ticks.                                                          *)
THEOREM SleepsLongEnough == Spec => NeverWakesEarly
<1>1. IInv /\ [Next]_vars =>
        [pc = "sleep" /\ pc' = "run" => slept >= want \/ start + want >= TickWrap]_vars
  <2> SUFFICES ASSUME IInv, Next, pc = "sleep", pc' = "run"
               PROVE  slept >= want \/ start + want >= TickWrap
    OBVIOUS
  <2>1. Wake
    BY DEF Next, Handlers, PitFires, Interrupt, timer_irq, Tick, Eoi, BiosIntr, dos_timer_intr,
       init_timer, cleanup, reset_timer, BeginSleep, MainRuns
  <2> QED
    BY <2>1, WakeStep
<1> QED
  BY <1>1, Invariant, PTL DEF Spec, NeverWakesEarly
=============================================================================
