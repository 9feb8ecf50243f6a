---------------------------- MODULE CounterValue ----------------------------
(***************************************************************************)
(* From the two samples of a performance counter to the text in the        *)
(* report: getCounterValue, one formula for each group of counter types,   *)
(* and the two conversions of the report, GetTextTime and GetTextSize.     *)
(*                                                                         *)
(* A LONGLONG has LongRange values and a DWORD DwordRange; what does not   *)
(* fit wraps.  A double holds every product of the samples, so that an     *)
(* exact quotient is truncated exactly, and only a difference or a product *)
(* of rounded quotients can fall short of a whole number.                  *)
(*                                                                         *)
(* A text is abstracted to the numbers in it: a function from the units    *)
(* that are printed.                                                       *)
(***************************************************************************)
EXTENDS Integers

CONSTANTS
    LongRange,  \* 2^64 in the code
    DwordRange, \* 2^32
    Kilo,       \* 1024
    Samples,    \* values of a counter
    Timebases,  \* of a counter
    Multis,     \* a counter's MultiCount
    Numbers     \* sizes, and times in milliseconds

Wrapped(x, range) == ((x + range \div 2) % range) - range \div 2
Long(x) == Wrapped(x, LongRange)
Dword(x) == x % DwordRange

(* What a double that does not fit becomes.                                *)
(* Seeded fault: the largest.                                              *)
MaxLong == LongRange \div 2 - 1
MinLong == -(LongRange \div 2)

(* What printf's %d shows of a LONGLONG: its low half, with a sign.        *)
Signed(x) == Wrapped(x, DwordRange)

ASSUME WidthAssumption ==
    /\ DwordRange \in Nat /\ DwordRange >= 256 /\ LongRange \in Nat \ {0}
    /\ DwordRange % 2 = 0 /\ LongRange % (2 * DwordRange) = 0
ASSUME UnitAssumption == Kilo \in Nat /\ 1 < Kilo /\ Kilo <= DwordRange \div 2
ASSUME SampleAssumption ==
    Samples \cup Numbers \cup Timebases \subseteq -(LongRange \div 2)..(LongRange \div 2 - 1)
ASSUME MultiAssumption == Multis \subseteq 0..(DwordRange - 1)

Type == {"counter", "queuelen", "timer", "timer_inv", "multi_timer",
         "100nsec_multi_timer", "multi_timer_inv", "rawcount", "rawcount_hex",
         "delta", "raw_fraction", "average_timer", "elapsed_time", "other"}

(* The first sample, the second, and what else the formulas use.           *)
Counter == [dwType : Type, n1 : Samples, d1 : Samples, n2 : Samples, d2 : Samples,
            timebase : Timebases, multi : Multis]

VARIABLES
    pc,         \* "idle", "counter", "time", "size" or "crashed"
    arg,        \* the arguments of the last call
    text        \* the text it returned

vars == <<pc, arg, text>>

-----------------------------------------------------------------------------
(* Division as C does it, towards zero, and of doubles: by zero it is not  *)
(* a number, and what does not fit a LONGLONG is converted to the least.   *)
Abs(x) == IF x < 0 THEN -x ELSE x
Quot(a, b) == IF (a < 0) = (b < 0) THEN Abs(a) \div Abs(b) ELSE -(Abs(a) \div Abs(b))

FromDouble(x) == IF x = Long(x) THEN x ELSE MinLong
Exact(a, b) == IF b = 0 THEN {MinLong} ELSE {FromDouble(Quot(a, b))}

TowardsZero(x) == IF x > 0 THEN x - 1 ELSE IF x < 0 THEN x + 1 ELSE x
Near(a, b) ==
    Exact(a, b) \cup
      IF b # 0 /\ a % Abs(b) = 0 THEN {FromDouble(TowardsZero(Quot(a, b)))} ELSE {}

-----------------------------------------------------------------------------
(* Report::GetTextTime: the largest unit that is not zero, and those       *)
(* below it, down to seconds.                                              *)
(* Seeded fault: the minutes are not reduced.                              *)
GetTextTimeLong(dwMillis) ==
    LET seconds == dwMillis \div 1000 IN
    CASE seconds >= 3600 ->
           [hour |-> seconds \div 3600, min |-> seconds \div 60, sec |-> seconds % 60]
      [] seconds \in 60..3599 -> [min |-> seconds \div 60, sec |-> seconds % 60]
      [] seconds \in 1..59 -> [sec |-> seconds]
      [] seconds = 0 -> [millis |-> dwMillis % 1000]

GetTextTime(dwMillis) ==
    LET seconds == dwMillis \div 1000
        minutes == seconds \div 60
        hours == minutes \div 60
    IN CASE hours # 0 -> [hour |-> hours, min |-> minutes % 60, sec |-> seconds % 60]
         [] hours = 0 /\ minutes # 0 -> [min |-> minutes % 60, sec |-> seconds % 60]
         [] minutes = 0 /\ seconds # 0 -> [sec |-> seconds % 60]
         [] seconds = 0 -> [millis |-> dwMillis % 1000]

(* The hundredths that %0.2f prints of a / b; of two as near, either.      *)
Hundredths(a, b) ==
    {h \in {(100 * a) \div b, (100 * a) \div b + 1} : 2 * Abs(100 * a - h * b) <= b}

(* Report::GetTextSize.                                                    *)
Mega == Kilo * Kilo
Giga == Kilo * Mega

(* Seeded fault: the last unit is skipped.                                 *)
GetTextSizeNoGB(dwBytes) ==
    CASE dwBytes < Kilo -> {[B |-> dwBytes]}
      [] dwBytes \in Kilo..(Mega - 1) -> {[KB |-> h] : h \in Hundredths(dwBytes, Kilo)}
      [] dwBytes >= Mega -> {[MB |-> h] : h \in Hundredths(dwBytes, Mega)}

GetTextSize(dwBytes) ==
    CASE dwBytes < Kilo -> {[B |-> Signed(dwBytes)]}
      [] dwBytes \in Kilo..(Mega - 1) -> {[KB |-> h] : h \in Hundredths(dwBytes, Kilo)}
      [] dwBytes \in Mega..(Giga - 1) -> {[MB |-> h] : h \in Hundredths(dwBytes, Mega)}
      [] dwBytes >= Giga -> {[GB |-> h] : h \in Hundredths(dwBytes, Giga)}

-----------------------------------------------------------------------------
(* getCounterValue.  The differences of the samples, and the types that    *)
(* print 0 when the one they divide by is 0.                               *)
(* Seeded fault: the samples are swapped.                                  *)
llMulSwapped(c) == Long(c.n1 - c.n2)
llMul(c) == Long(c.n2 - c.n1)

(* Seeded fault: the time base is left out.                                *)
llDivRaw(c) == Long(c.d2 - c.d1)

llDiv(c) ==
    IF c.dwType = "multi_timer" THEN Quot(Long(c.d2 - c.d1), c.timebase)
    ELSE Long(c.d2 - c.d1)

Guarded == {"counter", "queuelen", "timer", "timer_inv", "multi_timer",
            "100nsec_multi_timer", "multi_timer_inv", "average_timer"}

(* The whole-number division of the difference by the time base ends the   *)
(* program when that is zero.                                              *)
Traps(c) == c.dwType = "multi_timer" /\ c.timebase = 0

(* The values it may compute.                                              *)
llVal(c) ==
    LET mul == llMul(c)
        div == llDiv(c)
    IN CASE c.dwType = "other" \/ (c.dwType \in Guarded /\ div = 0) -> {0}
         [] c.dwType = "counter" /\ div # 0 -> {Quot(Long(c.timebase * mul), div)}
         [] c.dwType = "queuelen" /\ div # 0 -> {Quot(mul, div)}
         [] c.dwType = "timer" /\ div # 0 -> {Quot(Long(100 * mul), div)}
         [] c.dwType = "timer_inv" /\ div # 0 -> Near(100 * (div - mul), div)
         [] c.dwType \in {"multi_timer", "100nsec_multi_timer"} /\ div # 0 ->
              Near(100 * mul, div * c.multi)
         [] c.dwType = "multi_timer_inv" /\ div # 0 -> Near(100 * (c.multi * div - mul), div)
         [] c.dwType \in {"rawcount", "rawcount_hex"} -> {c.n1}
         [] c.dwType = "delta" -> {mul}
         [] c.dwType = "raw_fraction" -> Exact(100 * c.n1, c.d1)
         [] c.dwType = "average_timer" /\ div # 0 -> Exact(mul, c.timebase * div)
         [] c.dwType = "elapsed_time" -> Exact(Long(c.d1 - c.n1), c.timebase)

(* llVal * 1000 in LONGLONGs, of which GetTextTime takes the low DWORD.    *)
Millis(llv) == Dword(1000 * Signed(llv))

getCounterValue(c) ==
    {IF c.dwType = "elapsed_time" THEN GetTextTime(Millis(v)) ELSE [decimal |-> Signed(v)] :
        v \in llVal(c)}

-----------------------------------------------------------------------------
(* One call at a time.                                                     *)
NoText == [none |-> 0]

Init ==
    /\ pc = "idle"
    /\ arg = 0
    /\ text = NoText

CallCounter ==
    /\ pc = "idle"
    /\ arg' \in Counter
    /\ IF Traps(arg') THEN pc' = "crashed" /\ text' = NoText
       ELSE pc' = "counter" /\ text' \in getCounterValue(arg')

CallTime ==
    /\ pc = "idle" /\ pc' = "time"
    /\ arg' \in {Dword(x) : x \in Numbers}
    /\ text' = GetTextTime(arg')

(* A LONGLONG is passed as the DWORD.                                      *)
CallSize ==
    /\ pc = "idle" /\ pc' = "size"
    /\ arg' \in Numbers
    /\ text' \in GetTextSize(Dword(arg'))

Return ==
    /\ pc \in {"counter", "time", "size"} /\ pc' = "idle"
    /\ arg' = 0
    /\ text' = NoText

Next == CallCounter \/ CallTime \/ CallSize \/ Return

Spec == Init /\ [][Next]_vars

-----------------------------------------------------------------------------
(* The formulas in the comments of getCounterValue, as a numerator and a   *)
(* denominator: of every type but one, of which the comment says only in   *)
(* which form a sample is printed.                                         *)
Commented == Type \ {"rawcount_hex"}

Formula(c) ==
    LET n == c.n2 - c.n1
        d == c.d2 - c.d1
    IN CASE c.dwType = "counter" -> <<n * c.timebase, d>>
         [] c.dwType = "queuelen" -> <<n, d>>
         [] c.dwType = "timer" -> <<100 * n, d>>
         [] c.dwType = "timer_inv" -> <<100 * (d - n), d>>
         [] c.dwType = "multi_timer" -> <<100 * n * c.timebase, d * c.multi>>
         [] c.dwType = "100nsec_multi_timer" -> <<100 * n, d * c.multi>>
         [] c.dwType = "multi_timer_inv" -> <<100 * (c.multi * d - n), d>>
         [] c.dwType = "rawcount" -> <<c.n1, 1>>
         [] c.dwType = "delta" -> <<n, 1>>
         [] c.dwType = "raw_fraction" -> <<100 * c.n1, c.d1>>
         [] c.dwType = "average_timer" -> <<n, c.timebase * d>>
         [] c.dwType = "elapsed_time" -> <<c.d1 - c.n1, c.timebase>>
         [] c.dwType = "other" -> <<0, 1>>

(* The differences of the samples, for the types that take them, and the   *)
(* numerator fit a LONGLONG, and the value what is printed.                *)
OneSample == {"rawcount", "rawcount_hex", "raw_fraction", "other"}
Fits(c) ==
    LET n == c.n2 - c.n1
        d == c.d2 - c.d1
        f == Formula(c)
    IN  /\ c.dwType \notin OneSample => n = Long(n) /\ (c.dwType # "delta" => d = Long(d))
        /\ f[1] = Long(f[1]) /\ Abs(f[1]) \div Abs(f[2]) < DwordRange \div 2

(* The types whose quotient is rounded before it is multiplied or taken    *)
(* from another number, and truncated after that: a value that is a whole  *)
(* number may be printed as the one before it.                             *)
Rounded == {"timer_inv", "multi_timer", "100nsec_multi_timer", "multi_timer_inv"}

Close(x, f) == Abs(x * f[2] - f[1]) < Abs(f[2])
OneOff(x, f) == Abs(x * f[2] - f[1]) = Abs(f[2])

(* What is printed of a counter is its formula's value to less than one,   *)
(* or, of the rounded types, one off, whatever the signs of the            *)
(* differences, if that value and the differences fit what they are        *)
(* computed and printed in.  A timer over several instances is right only  *)
(* for a whole number of time bases, and a time is not one number.         *)
Rem(a, b) == a - b * Quot(a, b)

CloseToFormula ==
    pc = "counter" /\ arg.dwType \in Commented \ {"elapsed_time"}
      /\ (arg.dwType = "multi_timer" => Rem(arg.d2 - arg.d1, arg.timebase) = 0) =>
      LET f == Formula(arg) IN
      f[2] # 0 /\ Fits(arg) =>
        Close(text.decimal, f) \/ (arg.dwType \in Rounded /\ OneOff(text.decimal, f))

(* When it is not a whole number of time bases, the part of one that is    *)
(* lost can make the printed value too large, but never twice the          *)
(* formula's, and what is lost by truncating it is at most one: as long as *)
(* it is one time base at least.                                           *)
MultiTimerWithinTwice ==
    pc = "counter" /\ arg.dwType = "multi_timer" /\ arg.timebase > 0 /\ arg.multi > 0
      /\ Quot(arg.d2 - arg.d1, arg.timebase) # 0 /\ Fits(arg) =>
      LET f == Formula(arg)
          x == Abs(text.decimal)
      IN  (2 * Abs(f[1])) \div Abs(f[2]) < DwordRange \div 2 =>
            Abs(f[1]) <= (x + 1) * Abs(f[2]) /\ x * Abs(f[2]) <= 2 * Abs(f[1])

(* A formula that divides by zero, because no time has passed, the base is *)
(* zero or the time base is not known, prints 0: where no test says so,    *)
(* the double that is not a number becomes the LONGLONG whose low half,    *)
(* the half that is printed, is zero.                                      *)
UndefinedIsZero ==
    pc = "counter" /\ arg.dwType \in Commented /\ Formula(arg)[2] = 0 =>
      \A u \in DOMAIN text : text[u] = 0

(* A text's time in seconds.                                               *)
Part(t, u, w) == IF u \in DOMAIN t THEN w * t[u] ELSE 0
Seconds(t) == Part(t, "hour", 3600) + Part(t, "min", 60) + Part(t, "sec", 1)

IsClock(t) ==
    /\ "min" \in DOMAIN t => t.min \in 0..59
    /\ "sec" \in DOMAIN t => t.sec \in 0..59

(* A time of a DWORD of milliseconds can be read back from its text, to    *)
(* the second, and below a second to the millisecond.                      *)
TimesReadBack ==
    pc = "time" =>
      /\ IsClock(text) /\ Seconds(text) = arg \div 1000
      /\ arg < 1000 => text = [millis |-> arg]

(* What is printed of a size, which is a LONGLONG, is what a DWORD holds   *)
(* of it, rounded to a hundredth of its unit, and the unit is the one in   *)
(* which that is at least 1 and at most 1024.                              *)
Unit(u) == CASE u = "KB" -> Kilo [] u = "MB" -> Mega [] u = "GB" -> Giga

SizeRounded ==
    pc = "size" =>
      \A u \in DOMAIN text :
        IF u = "B" THEN text[u] = Dword(arg)
        ELSE /\ 2 * Abs(100 * Dword(arg) - text[u] * Unit(u)) <= Unit(u)
             /\ text[u] >= 100 /\ (u # "GB" => text[u] <= 100 * Kilo)

-----------------------------------------------------------------------------
(* What a comment says, and the code does not do.                          *)

(* pdhProcessEnumerator.cpp:439: "(D0 - N0)/F", of any length.             *)
ElapsedReadsBack ==
    pc = "counter" /\ arg.dwType = "elapsed_time" /\ arg.timebase > 0 /\ arg.n1 <= arg.d1 =>
      Seconds(text) = (arg.d1 - arg.n1) \div arg.timebase
=============================================================================
