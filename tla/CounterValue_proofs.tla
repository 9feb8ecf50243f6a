------------------------ MODULE CounterValue_proofs ------------------------
(***************************************************************************)
(* Proofs about CounterValue, for every width of a LONGLONG and a DWORD    *)
(* and all values of the samples.  Each text is a function of the          *)
(* arguments of its call, so the invariant that carries the theorems is    *)
(* only that; what is left is arithmetic.                                  *)
(***************************************************************************)
EXTENDS CounterValue, TLAPS

(* The text of a call is the one its function returns.                     *)
Answered ==
    /\ pc \in {"idle", "counter", "time", "size", "crashed"}
    /\ pc = "time" => arg \in Nat /\ text = GetTextTime(arg)
    /\ pc = "size" => arg \in Numbers /\ text \in GetTextSize(Dword(arg))
    /\ pc = "counter" => arg \in Counter /\ ~Traps(arg) /\ text \in getCounterValue(arg)

(* A DWORD is a natural number.                                            *)
LEMMA DwordNat == \A x \in Int : Dword(x) \in Nat
  BY WidthAssumption DEF Dword

(* Samples, printed numbers and timebases are integers.                    *)
LEMMA SampleInt == \A x \in Samples \cup Numbers \cup Timebases : x \in Int
  BY SampleAssumption, WidthAssumption

(* Every answer is the text of the function that was called last.          *)
LEMMA AnsweredInductive == Answered /\ [Next]_vars => Answered'
  <1> SUFFICES ASSUME Answered, [Next]_vars PROVE Answered'
    OBVIOUS
  <1>1. CASE CallCounter BY <1>1 DEF CallCounter, Answered
  <1>2. CASE CallTime BY <1>2, DwordNat, SampleInt DEF CallTime, Answered
  <1>3. CASE CallSize BY <1>3 DEF CallSize, Answered
  <1>4. CASE Return BY <1>4 DEF Return, Answered
  <1>5. CASE UNCHANGED vars BY <1>5 DEF vars, Answered
  <1> QED BY <1>1, <1>2, <1>3, <1>4, <1>5 DEF Next

(* So it is in every reachable state.                                      *)
LEMMA AlwaysAnswered == Spec => []Answered
  <1>1. Init => Answered BY DEF Init, Answered
  <1> QED BY <1>1, AnsweredInductive, PTL DEF Spec

-----------------------------------------------------------------------------
(* Dividing by 60 leaves the quotient and a remainder below 60.            *)
LEMMA DivMod ==
    ASSUME NEW a \in Nat
    PROVE  a \div 60 \in Nat /\ a = 60 * (a \div 60) + (a % 60) /\ a % 60 \in 0..59
  OBVIOUS

(* GetTextTime prints a clock whose units add up to the whole seconds.     *)
LEMMA TextOfTime ==
    ASSUME NEW ms \in Nat
    PROVE  /\ IsClock(GetTextTime(ms)) /\ Seconds(GetTextTime(ms)) = ms \div 1000
           /\ ms < 1000 => GetTextTime(ms) = [millis |-> ms]
  <1> DEFINE seconds == ms \div 1000
             minutes == seconds \div 60
             hours == minutes \div 60
  <1>1. /\ seconds \in Nat /\ minutes \in Nat /\ hours \in Nat
        /\ seconds = 60 * minutes + (seconds % 60) /\ seconds % 60 \in 0..59
        /\ minutes = 60 * hours + (minutes % 60) /\ minutes % 60 \in 0..59
        /\ ms < 1000 => seconds = 0 /\ ms % 1000 = ms
        /\ (seconds = 0 => minutes = 0) /\ (minutes = 0 => hours = 0)
    <2>1. seconds \in Nat /\ (ms < 1000 => seconds = 0 /\ ms % 1000 = ms)
      OBVIOUS
    <2> HIDE DEF seconds
    <2>2. minutes \in Nat /\ seconds = 60 * minutes + (seconds % 60) /\ seconds % 60 \in 0..59
      BY <2>1, DivMod
    <2> HIDE DEF minutes
    <2>3. hours \in Nat /\ minutes = 60 * hours + (minutes % 60) /\ minutes % 60 \in 0..59
      BY <2>2, DivMod
    <2> QED BY <2>1, <2>2, <2>3
  <1>2. CASE hours # 0
    <2>1. GetTextTime(ms) = [hour |-> hours, min |-> minutes % 60, sec |-> seconds % 60]
      BY <1>1, <1>2 DEF GetTextTime
    <2> QED BY <2>1, <1>1, <1>2 DEF IsClock, Seconds, Part
  <1>3. CASE hours = 0 /\ minutes # 0
    <2>1. GetTextTime(ms) = [min |-> minutes % 60, sec |-> seconds % 60]
      BY <1>1, <1>3 DEF GetTextTime
    <2> QED BY <2>1, <1>1, <1>3 DEF IsClock, Seconds, Part
  <1>4. CASE minutes = 0 /\ seconds # 0
    <2>1. GetTextTime(ms) = [sec |-> seconds % 60]
      BY <1>1, <1>4 DEF GetTextTime
    <2> QED BY <2>1, <1>1, <1>4 DEF IsClock, Seconds, Part
  <1>5. CASE seconds = 0
    <2>1. GetTextTime(ms) = [millis |-> ms % 1000]
      BY <1>1, <1>5 DEF GetTextTime
    <2> QED BY <2>1, <1>1, <1>5 DEF IsClock, Seconds, Part
  <1> QED BY <1>1, <1>2, <1>3, <1>4, <1>5

(* A time of a DWORD of milliseconds, whatever its width, can be read back *)
(* from the text that GetTextTime makes of it.                             *)
THEOREM TimesRight == Spec => []TimesReadBack
  <1>1. Answered => TimesReadBack BY TextOfTime DEF Answered, TimesReadBack
  <1> QED BY <1>1, AlwaysAnswered, PTL

-----------------------------------------------------------------------------
(* What fits is not changed.                                               *)
LEMMA WrappedSame ==
    ASSUME NEW h \in Nat, NEW x \in Int, -h <= x, x < h
    PROVE  ((x + h) % (2 * h)) - h = x
  OBVIOUS

(* Division by a positive number takes the number apart.                   *)
LEMMA Whole ==
    ASSUME NEW a \in Int, NEW b \in Nat \ {0}
    PROVE  a = b * (a \div b) + (a % b) /\ a \div b \in Int
  OBVIOUS

(* Both widths are even, and a DWORD has at least eight bits.              *)
LEMMA Halves ==
    /\ LongRange \div 2 \in Nat /\ LongRange = 2 * (LongRange \div 2)
    /\ DwordRange \div 2 \in Nat /\ DwordRange = 2 * (DwordRange \div 2)
    /\ DwordRange \div 2 >= 128
  <1> DEFINE d == 2 * DwordRange
             q == LongRange \div d
  <1>1. LongRange \in Int /\ d \in Nat \ {0} /\ LongRange % d = 0
    BY WidthAssumption
  <1>2. LongRange = d * q + (LongRange % d) /\ q \in Int
    BY <1>1, Whole
  <1>3. PICK r \in Int : r = DwordRange * q
    BY <1>2, WidthAssumption
  <1> HIDE DEF q
  <1>4. d * q = 2 * r
    BY <1>2, <1>3, WidthAssumption
  <1> HIDE DEF d
  <1>5. LongRange = 2 * r
    BY <1>1, <1>2, <1>3, <1>4
  <1> QED BY <1>5, WidthAssumption

(* A number that a LONGLONG holds is not changed by it.                    *)
LEMMA LongSame ==
    ASSUME NEW x \in -(LongRange \div 2)..(LongRange \div 2 - 1)
    PROVE  Long(x) = x
  <1> DEFINE h == LongRange \div 2
  <1>1. h \in Nat /\ LongRange = 2 * h /\ x \in Int /\ -h <= x /\ x < h BY Halves
  <1> HIDE DEF h
  <1>2. ((x + h) % (2 * h)) - h = x BY <1>1, WrappedSame
  <1> QED BY <1>1, <1>2 DEF Long, Wrapped, h

(* A number that an int holds is not changed by it.                        *)
LEMMA SignedSame ==
    ASSUME NEW x \in -(DwordRange \div 2)..(DwordRange \div 2 - 1)
    PROVE  Signed(x) = x
  <1> DEFINE h == DwordRange \div 2
  <1>1. h \in Nat /\ DwordRange = 2 * h /\ x \in Int /\ -h <= x /\ x < h BY Halves
  <1> HIDE DEF h
  <1>2. ((x + h) % (2 * h)) - h = x BY <1>1, WrappedSame
  <1> QED BY <1>1, <1>2 DEF Signed, Wrapped, h

-----------------------------------------------------------------------------
(* The low half of the least LONGLONG is zero.                             *)
LEMMA ModOf ==
    ASSUME NEW b \in Nat \ {0}, NEW q \in Int, NEW r \in 0..(b - 1)
    PROVE  (b * q + r) % b = r
  OBVIOUS

(* %d of the least LONGLONG prints its low half, which is 0.               *)
LEMMA SignedMin == Signed(MinLong) = 0
  <1> DEFINE d == 2 * DwordRange
             q == LongRange \div d
             h == DwordRange \div 2
  <1>1. LongRange \in Int /\ d \in Nat \ {0} /\ LongRange % d = 0
    BY WidthAssumption
  <1>2. LongRange = d * q + (LongRange % d) /\ q \in Int
    BY <1>1, Whole
  <1>3. h \in 0..(DwordRange - 1) /\ DwordRange \in Nat \ {0} /\ h \in Int
    BY Halves, WidthAssumption
  <1> HIDE DEF q, h
  <1>4. PICK r \in Int : r = DwordRange * q
    BY <1>2, <1>3
  <1>5. d * q = 2 * r
    BY <1>2, <1>3, <1>4
  <1> HIDE DEF d
  <1>6. LongRange \div 2 = r
    <2>1. LongRange = 2 * r /\ r \in Int BY <1>1, <1>2, <1>4, <1>5
    <2> QED BY <2>1
  <1>7. MinLong = DwordRange * (-q)
    BY <1>2, <1>3, <1>4, <1>6 DEF MinLong
  <1>8. (DwordRange * (-q) + h) % DwordRange = h
    BY <1>2, <1>3, ModOf
  <1> QED BY <1>3, <1>7, <1>8 DEF Signed, Wrapped, h

(* Zero is printed as 0.                                                   *)
LEMMA SignedZero == Signed(0) = 0 /\ Long(0) = 0
  <1>1. /\ 0 \in -(DwordRange \div 2)..(DwordRange \div 2 - 1)
        /\ 0 \in -(LongRange \div 2)..(LongRange \div 2 - 1)
    BY Halves, WidthAssumption
  <1> QED BY <1>1, SignedSame, LongSame

(* A LONGLONG is an integer.                                               *)
LEMMA LongInt == \A x \in Int : Long(x) \in Int
  BY WidthAssumption DEF Long, Wrapped

(* A C quotient is an integer, and that of 0 is 0.                         *)
LEMMA QuotInt ==
    ASSUME NEW a \in Int, NEW b \in Int, b # 0
    PROVE  Quot(a, b) \in Int /\ Quot(0, b) = 0
  <1>1. \A m \in Nat, n \in Nat \ {0} : m \div n \in Int /\ 0 \div n = 0
    OBVIOUS
  <1>2. Abs(a) \in Nat /\ Abs(b) \in Nat \ {0} /\ Abs(0) = 0
    BY DEF Abs
  <1> QED BY <1>1, <1>2 DEF Quot

(* A multi base is an integer.                                             *)
LEMMA MultiInt == \A x \in Multis : x \in Int
  BY MultiAssumption, WidthAssumption

(* A double divided by zero is converted to the least LONGLONG.            *)
LEMMA Undivided == \A a : Exact(a, 0) = {MinLong} /\ Near(a, 0) = {MinLong}
  BY DEF Exact, Near

(* What the double that is not a number, or nothing, is printed as.        *)
LEMMA ZeroText ==
    ASSUME NEW c \in Counter, llVal(c) \subseteq {0, MinLong}, NEW t \in getCounterValue(c)
    PROVE  \A u \in DOMAIN t : t[u] = 0
  <1>1. PICK v \in llVal(c) :
          t = IF c.dwType = "elapsed_time" THEN GetTextTime(Millis(v)) ELSE [decimal |-> Signed(v)]
    BY DEF getCounterValue
  <1>2. Signed(v) = 0
    BY <1>1, SignedMin, SignedZero
  <1>3. Millis(v) = 0
    BY <1>2, WidthAssumption DEF Millis, Dword
  <1>4. GetTextTime(0) = [millis |-> 0]
    BY TextOfTime
  <1> QED BY <1>1, <1>2, <1>3, <1>4

(* A formula that divides by zero leaves 0 or the least LONGLONG.          *)
LEMMA UndefinedValue ==
    ASSUME NEW c \in Counter, ~Traps(c), c.dwType \in Commented, Formula(c)[2] = 0
    PROVE  llVal(c) \subseteq {0, MinLong}
  <1> DEFINE d == c.d2 - c.d1
  <1>1. /\ c.dwType \in Type /\ c.multi \in Multis /\ c.timebase \in Timebases
        /\ c.n1 \in Samples /\ c.d1 \in Samples /\ c.n2 \in Samples /\ c.d2 \in Samples
    BY DEF Counter
  <1>2. /\ d \in Int /\ c.timebase \in Int /\ c.multi \in Int /\ c.d1 \in Int
        /\ Long(d) \in Int
    <2>1. /\ c.timebase \in Int /\ c.d1 \in Int /\ c.d2 \in Int
      BY <1>1, SampleInt
    <2>2. c.multi \in Int
      BY <1>1, MultiInt
    <2> QED BY <2>1, <2>2, LongInt
  <1>3. d = 0 => Long(d) = 0
    BY SignedZero
  <1>4. ASSUME c.dwType \in Guarded, llDiv(c) = 0 PROVE llVal(c) = {0}
    BY <1>4 DEF llVal, Guarded
  <1> HIDE DEF d
  <1>5. CASE c.dwType \in {"counter", "queuelen", "timer", "timer_inv", "multi_timer_inv"}
    <2>1. d = 0
      BY <1>5 DEF Formula, d
    <2>2. llDiv(c) = 0
      BY <1>3, <1>5, <2>1 DEF llDiv, d
    <2> QED BY <1>4, <1>5, <2>2 DEF Guarded
  <1>6. CASE c.dwType = "multi_timer"
    <2>1. d * c.multi = 0
      BY <1>6 DEF Formula, d
    <2>2. c.timebase # 0 /\ llDiv(c) = Quot(Long(d), c.timebase)
      BY <1>6 DEF Traps, llDiv, d
    <2>3. CASE d = 0
      BY <1>2, <1>3, <1>4, <1>6, <2>2, <2>3, QuotInt DEF Guarded
    <2>4. CASE c.multi = 0 /\ llDiv(c) # 0
      <3>1. llDiv(c) * c.multi = 0
        <4>1. llDiv(c) \in Int
          BY <1>2, <2>2, QuotInt, Zenon
        <4> QED BY <2>4, <4>1
      <3>2. llVal(c) = Near(100 * llMul(c), llDiv(c) * c.multi)
        BY <1>6, <2>4 DEF llVal, Guarded
      <3> QED BY <3>1, <3>2, Undivided
    <2> QED BY <1>2, <1>4, <1>6, <2>1, <2>3, <2>4 DEF Guarded
  <1>7. CASE c.dwType = "100nsec_multi_timer"
    <2>1. d * c.multi = 0
      BY <1>7 DEF Formula, d
    <2>2. llDiv(c) = Long(d)
      BY <1>7 DEF llDiv, d
    <2>3. CASE d = 0
      BY <1>3, <1>4, <1>7, <2>2, <2>3 DEF Guarded
    <2>4. CASE c.multi = 0 /\ llDiv(c) # 0
      <3>1. llDiv(c) * c.multi = 0
        BY <1>2, <2>2, <2>4
      <3>2. llVal(c) = Near(100 * llMul(c), llDiv(c) * c.multi)
        BY <1>7, <2>4 DEF llVal, Guarded
      <3> QED BY <3>1, <3>2, Undivided
    <2> QED BY <1>2, <1>4, <1>7, <2>1, <2>3, <2>4 DEF Guarded
  <1>8. CASE c.dwType = "raw_fraction"
    <2>1. llVal(c) = Exact(100 * c.n1, 0)
      BY <1>8 DEF llVal, Formula, Guarded
    <2> QED BY <2>1, Undivided
  <1>9. CASE c.dwType = "average_timer"
    <2>1. c.timebase * d = 0 /\ llDiv(c) = Long(d)
      BY <1>9 DEF Formula, llDiv, d
    <2>2. CASE d = 0
      BY <1>3, <1>4, <1>9, <2>1, <2>2 DEF Guarded
    <2>3. CASE c.timebase = 0 /\ llDiv(c) # 0
      <3>1. c.timebase * llDiv(c) = 0
        BY <1>2, <2>1, <2>3
      <3>2. llVal(c) = Exact(llMul(c), c.timebase * llDiv(c))
        BY <1>9, <2>3 DEF llVal, Guarded
      <3> QED BY <3>1, <3>2, Undivided
    <2> QED BY <1>2, <1>4, <1>9, <2>1, <2>2, <2>3 DEF Guarded
  <1>10. CASE c.dwType = "elapsed_time"
    <2>1. llVal(c) = Exact(Long(c.d1 - c.n1), 0)
      BY <1>10 DEF llVal, Formula, Guarded
    <2> QED BY <2>1, Undivided
  <1>11. CASE c.dwType \in {"rawcount", "delta", "other"}
    BY <1>11 DEF Formula
  <1> QED BY <1>1, <1>5, <1>6, <1>7, <1>8, <1>9, <1>10, <1>11 DEF Type, Commented

(* Whatever the widths, a formula that divides by zero prints zero: the    *)
(* value of a double that is not a number has a low half that is zero, and *)
(* so has it a thousandfold.                                               *)
THEOREM UndefinedRight == Spec => []UndefinedIsZero
  <1>1. Answered => UndefinedIsZero
    BY UndefinedValue, ZeroText DEF Answered, UndefinedIsZero
  <1> QED BY <1>1, AlwaysAnswered, PTL
-----------------------------------------------------------------------------
(* A product grows with either factor.                                     *)
LEMMA Grows ==
    ASSUME NEW x \in Int, NEW y \in Int, x <= y, NEW b \in Nat
    PROVE  x * b <= y * b
  <1>1. PICK d \in Nat : y = x + d
    <2>1. y - x \in Nat /\ y = x + (y - x) OBVIOUS
    <2> QED BY <2>1
  <1>2. y * b = x * b + d * b /\ d * b \in Nat /\ x * b \in Int
    BY <1>1
  <1> QED BY <1>2

(* The units are numbers, each at least its smaller neighbour.             *)
LEMMA UnitsNat ==
    /\ Kilo \in Nat \ {0} /\ Mega \in Nat \ {0} /\ Giga \in Nat \ {0}
    /\ Mega = Kilo * Kilo /\ Giga = Kilo * Mega
  BY UnitAssumption DEF Mega, Giga

(* Hundredths of a unit that is in the number at least once, and at most   *)
(* Kilo times, are at least 100 and at most 100 * Kilo.                    *)
LEMMA HundredthsRange ==
    ASSUME NEW a \in Nat, NEW b \in Nat \ {0}, b <= a, NEW h \in Hundredths(a, b)
    PROVE  /\ h \in Int /\ 2 * Abs(100 * a - h * b) <= b /\ h >= 100
           /\ a < Kilo * b => h <= 100 * Kilo
  <1>1. h \in Int /\ 2 * Abs(100 * a - h * b) <= b
    <2>1. (100 * a) \div b \in Int
      OBVIOUS
    <2> QED BY <2>1 DEF Hundredths
  <1>2. PICK p \in Int : p = h * b
    BY <1>1
  <1>3. 2 * p >= 200 * a - b /\ 2 * p <= 200 * a + b
    BY <1>1, <1>2 DEF Abs
  <1>4. h >= 100
    <2> SUFFICES ASSUME h <= 99 PROVE FALSE
      BY <1>1
    <2>1. p <= 99 * b
      BY <1>1, <1>2, Grows
    <2> QED BY <1>2, <1>3, <2>1
  <1>5. ASSUME a < Kilo * b PROVE h <= 100 * Kilo
    <2> SUFFICES ASSUME 100 * Kilo + 1 <= h PROVE FALSE
      BY <1>1, UnitsNat
    <2>1. PICK k \in Nat : k = Kilo * b
      BY UnitsNat
    <2>2. (100 * Kilo + 1) * b <= p
      BY <1>1, <1>2, UnitsNat, Grows
    <2>3. (100 * Kilo + 1) * b = 100 * k + b
      BY <2>1, UnitsNat
    <2> QED BY <1>2, <1>3, <1>5, <2>1, <2>2, <2>3
  <1> QED BY <1>1, <1>4, <1>5

(* Whatever the widths, the text of a size is that of what a DWORD holds   *)
(* of it: the number of bytes below Kilo, and from there on that number    *)
(* rounded to a hundredth of the one unit in which it is at least 1 and at *)
(* most Kilo.                                                              *)
THEOREM SizeRight == Spec => []SizeRounded
  <1>1. Answered => SizeRounded
    <2> SUFFICES ASSUME Answered, pc = "size", NEW u \in DOMAIN text
                 PROVE  IF u = "B" THEN text[u] = Dword(arg)
                        ELSE /\ 2 * Abs(100 * Dword(arg) - text[u] * Unit(u)) <= Unit(u)
                             /\ text[u] >= 100 /\ (u # "GB" => text[u] <= 100 * Kilo)
      BY DEF SizeRounded
    <2>1. PICK a \in Nat : a = Dword(arg)
      BY SampleInt, DwordNat DEF Answered
    <2>2. text \in GetTextSize(a)
      BY <2>1 DEF Answered
    <2>3. CASE a < Kilo
      <3>1. Signed(a) = a
        BY <2>1, <2>3, UnitAssumption, SignedSame, Halves
      <3>2. text = [B |-> a]
        BY <2>2, <2>3, <3>1, UnitsNat DEF GetTextSize
      <3> QED BY <2>1, <3>2
    <2>4. CASE a \in Kilo..(Mega - 1)
      <3>1. PICK h \in Hundredths(a, Kilo) : text = [KB |-> h]
        BY <2>2, <2>4, UnitsNat DEF GetTextSize
      <3>2. 2 * Abs(100 * a - h * Kilo) <= Kilo /\ h >= 100 /\ h <= 100 * Kilo
        BY <2>4, UnitsNat, HundredthsRange
      <3> QED BY <2>1, <3>1, <3>2 DEF Unit
    <2>5. CASE a \in Mega..(Giga - 1)
      <3>1. PICK h \in Hundredths(a, Mega) : text = [MB |-> h]
        BY <2>2, <2>5, UnitsNat DEF GetTextSize
      <3>2. 2 * Abs(100 * a - h * Mega) <= Mega /\ h >= 100 /\ h <= 100 * Kilo
        BY <2>5, UnitsNat, HundredthsRange
      <3> QED BY <2>1, <3>1, <3>2 DEF Unit
    <2>6. CASE a >= Giga
      <3>1. PICK h \in Hundredths(a, Giga) : text = [GB |-> h]
        BY <2>2, <2>6, UnitsNat DEF GetTextSize
      <3>2. 2 * Abs(100 * a - h * Giga) <= Giga /\ h >= 100
        BY <2>6, UnitsNat, HundredthsRange
      <3> QED BY <2>1, <3>1, <3>2 DEF Unit
    <2> QED BY <2>3, <2>4, <2>5, <2>6, UnitsNat
  <1> QED BY <1>1, AlwaysAnswered, PTL
-----------------------------------------------------------------------------
(* Division towards zero: the size of the quotient, and what it leaves.    *)
LEMMA QuotLeaves ==
    ASSUME NEW a \in Int, NEW b \in Int, b # 0
    PROVE  /\ Quot(a, b) \in Int /\ Abs(Quot(a, b)) = Abs(a) \div Abs(b)
           /\ Abs(Quot(a, b) * b - a) < Abs(b)
           /\ a % Abs(b) = 0 => Quot(a, b) * b = a
           /\ Abs(Quot(a, b)) * Abs(b) <= Abs(a)
  <1>1. PICK m \in Nat : m = Abs(a)
    BY DEF Abs
  <1>2. PICK k \in Nat \ {0} : k = Abs(b)
    BY DEF Abs
  <1>3. PICK q \in Nat, r \in 0..(k - 1) : q = m \div k /\ m = k * q + r /\ r = m % k
    OBVIOUS
  <1>4. PICK p \in Nat : p = k * q /\ m = p + r
    BY <1>3
  <1>5. Quot(a, b) = IF (a < 0) = (b < 0) THEN q ELSE -q
    BY <1>1, <1>2, <1>3 DEF Quot
  <1>6. Quot(a, b) * b = IF a < 0 THEN -p ELSE p
    <2>1. q * k = p /\ q * (-k) = -p /\ (-q) * k = -p /\ (-q) * (-k) = p
      BY <1>4
    <2> QED BY <1>1, <1>2, <1>5, <2>1 DEF Abs
  <1>7. a % k = 0 => r = 0
    <2> SUFFICES ASSUME a % k = 0 PROVE r = 0
      OBVIOUS
    <2>1. a = k * (a \div k) + (a % k) /\ a \div k \in Int
      BY Whole
    <2>2. PICK t \in Int : t = a \div k /\ a = k * t
      <3>1. k * (a \div k) \in Int
        BY <2>1
      <3> QED BY <2>1, <3>1
    <2>3. -a = k * (-t) + 0
      BY <2>2
    <2>4. (k * t + 0) % k = 0 /\ (k * (-t) + 0) % k = 0
      BY <2>2, ModOf
    <2>5. m % k = 0
      BY <1>1, <2>2, <2>3, <2>4 DEF Abs
    <2> QED BY <1>3, <2>5
  <1>8. Abs(Quot(a, b)) = q
    BY <1>5 DEF Abs
  <1>9. Quot(a, b) * b - a = IF a < 0 THEN r ELSE -r
    BY <1>1, <1>4, <1>6 DEF Abs
  <1>10. Quot(a, b) \in Int /\ Abs(Quot(a, b) * b - a) < k
    BY <1>3, <1>5, <1>9 DEF Abs
  <1>11. ASSUME a % Abs(b) = 0 PROVE Quot(a, b) * b = a
    BY <1>1, <1>2, <1>4, <1>6, <1>7, <1>11 DEF Abs
  <1>12. Abs(Quot(a, b)) * Abs(b) <= Abs(a)
    <2>1. q * k = p /\ p <= m
      BY <1>3, <1>4
    <2> QED BY <1>1, <1>2, <1>8, <2>1, Zenon
  <1> QED BY <1>1, <1>2, <1>3, <1>8, <1>10, <1>11, <1>12

(* A quotient that fits an int is printed as it is, and is close; one that *)
(* fell short of a whole number is one off.  Neither is too large.         *)
LEMMA NearClose ==
    ASSUME NEW a \in Int, NEW b \in Int, b # 0, Abs(a) \div Abs(b) < DwordRange \div 2,
           NEW v \in Near(a, b) \cup {Quot(a, b)}
    PROVE  /\ Signed(v) \in Int
           /\ Close(Signed(v), <<a, b>>) \/ OneOff(Signed(v), <<a, b>>)
           /\ v \in Exact(a, b) \cup {Quot(a, b)} => Close(Signed(v), <<a, b>>)
           /\ Abs(Signed(v)) * Abs(b) <= Abs(a)
  <1>1. PICK x \in Int : x = Quot(a, b)
    BY QuotLeaves
  <1>2. PICK h \in Nat : h = DwordRange \div 2 /\ h <= LongRange \div 2
    <2>1. LongRange \div 2 \in Nat /\ DwordRange \div 2 \in Nat /\ LongRange = 2 * (LongRange \div 2)
            /\ DwordRange = 2 * (DwordRange \div 2)
      BY Halves
    <2>2. LongRange >= DwordRange
      <3> DEFINE e == 2 * DwordRange
      <3>1. PICK q \in Int : LongRange = e * q
        <4>1. LongRange \in Int /\ e \in Nat \ {0} /\ LongRange % e = 0
          BY WidthAssumption
        <4> HIDE DEF e
        <4>2. LongRange = e * (LongRange \div e) + (LongRange % e) /\ LongRange \div e \in Int
          BY <4>1, Whole
        <4>3. e * (LongRange \div e) \in Int
          BY <4>1, <4>2
        <4>4. LongRange = e * (LongRange \div e)
          BY <4>1, <4>2, <4>3
        <4> QED BY <4>2, <4>4, Zenon
      <3>2. q >= 1
        <4> SUFFICES ASSUME q <= 0 PROVE FALSE
          OBVIOUS
        <4>1. q * (2 * DwordRange) <= 0 * (2 * DwordRange)
          BY WidthAssumption, Grows
        <4> QED BY <3>1, <4>1, WidthAssumption
      <3>3. 1 * (2 * DwordRange) <= q * (2 * DwordRange)
        BY <3>2, WidthAssumption, Grows
      <3> QED BY <3>1, <3>3, WidthAssumption
    <2> QED BY <2>1, <2>2
  <1>3. Abs(x) < h
    BY <1>1, <1>2, QuotLeaves
  <1>4. \A y \in Int : Abs(y) < h => Signed(y) = y /\ FromDouble(y) = y
    <2> SUFFICES ASSUME NEW y \in Int, Abs(y) < h PROVE Signed(y) = y /\ FromDouble(y) = y
      OBVIOUS
    <2>1. y \in -(DwordRange \div 2)..(DwordRange \div 2 - 1)
      BY <1>2 DEF Abs
    <2>2. y \in -(LongRange \div 2)..(LongRange \div 2 - 1)
      BY <1>2, Halves DEF Abs
    <2> QED BY <2>1, <2>2, SignedSame, LongSame DEF FromDouble
  <1>5. TowardsZero(x) \in Int /\ Abs(TowardsZero(x)) <= Abs(x)
    BY DEF TowardsZero, Abs
  <1>6. /\ v = x \/ (a % Abs(b) = 0 /\ v = TowardsZero(x))
        /\ v \in Exact(a, b) \cup {Quot(a, b)} => v = x
    BY <1>1, <1>3, <1>4, <1>5 DEF Near, Exact, Abs
  <1>7. ASSUME v = x PROVE Close(Signed(v), <<a, b>>)
    BY <1>1, <1>3, <1>4, <1>7, QuotLeaves DEF Close
  <1>8. ASSUME a % Abs(b) = 0, v = TowardsZero(x), v # x
        PROVE  OneOff(Signed(v), <<a, b>>)
    <2>1. x * b = a
      BY <1>1, <1>8, QuotLeaves
    <2>2. Signed(v) = v /\ v \in {x - 1, x + 1}
      BY <1>3, <1>4, <1>5, <1>8 DEF TowardsZero, Abs
    <2>3. (x - 1) * b = a - b /\ (x + 1) * b = a + b
      BY <2>1
    <2>4. Abs(v * b - a) = Abs(b)
      BY <2>1, <2>2, <2>3 DEF Abs
    <2> QED BY <2>2, <2>4 DEF OneOff
  <1>9. Signed(v) = v /\ v \in Int /\ Abs(v) <= Abs(x)
    BY <1>3, <1>4, <1>5, <1>6 DEF Abs
  <1>10. Abs(Signed(v)) * Abs(b) <= Abs(a)
    <2>1. Abs(v) * Abs(b) <= Abs(x) * Abs(b)
      <3>1. Abs(v) \in Int /\ Abs(x) \in Int /\ Abs(b) \in Nat
        BY <1>9 DEF Abs
      <3> QED BY <1>9, <3>1, Grows
    <2>2. Abs(x) * Abs(b) <= Abs(a)
      BY <1>1, QuotLeaves
    <2>3. PICK y \in Int, z \in Int : y = Abs(v) * Abs(b) /\ z = Abs(x) * Abs(b) /\ Abs(a) \in Int
      BY <1>9 DEF Abs
    <2> QED BY <1>9, <2>1, <2>2, <2>3
  <1> QED BY <1>6, <1>7, <1>8, <1>9, <1>10

(* A number below the divisor does not count.                              *)
LEMMA DivOf ==
    ASSUME NEW b \in Nat \ {0}, NEW q \in Int, NEW r \in 0..(b - 1)
    PROVE  (b * q + r) \div b = q
  OBVIOUS

(* Dividing both by the same number changes no quotient.                   *)
LEMMA SameQuotient ==
    ASSUME NEW m \in Nat, NEW k \in Nat \ {0}, NEW t \in Nat \ {0}
    PROVE  (m * t) \div (k * t) = m \div k /\ k * t \in Nat \ {0} /\ m * t \in Nat
  <1>1. PICK q \in Nat, r \in 0..(k - 1) : q = m \div k /\ m = k * q + r
    OBVIOUS
  <1>2. PICK p \in Nat \ {0} : p = k * t
    <2>1. 1 * t <= k * t
      BY Grows
    <2> QED BY <2>1
  <1>3. PICK s \in Nat : s = r * t /\ s <= p - 1
    <2>1. r * t <= (k - 1) * t /\ 0 * t <= r * t
      BY Grows
    <2>2. (k - 1) * t = p - t
      BY <1>2
    <2> QED BY <1>1, <1>2, <2>1, <2>2
  <1>4. m * t = p * q + s
    <2>1. PICK x \in Nat : x = k * q
      BY <1>1
    <2>2. (x + r) * t = x * t + r * t
      BY <2>1
    <2>3. (k * q) * t = (k * t) * q
      BY <1>1
    <2> QED BY <1>1, <1>2, <1>3, <2>1, <2>2, <2>3
  <1>5. (p * q + s) \div p = q
    <2>1. s \in 0..(p - 1)
      BY <1>3
    <2>2. q \in Int
      BY <1>1
    <2> QED BY <2>1, <2>2, DivOf
  <1> QED BY <1>1, <1>2, <1>4, <1>5

(* A product of absolute values is that of the product.                    *)
LEMMA AbsProduct ==
    ASSUME NEW a \in Int, NEW b \in Int
    PROVE  Abs(a * b) = Abs(a) * Abs(b)
  <1>1. PICK p \in Int : p = a * b
    OBVIOUS
  <1>2. (-a) * b = -p /\ a * (-b) = -p /\ (-a) * (-b) = p
    BY <1>1
  <1>3. (0 <= a /\ 0 <= b) => 0 <= p
    <2> SUFFICES ASSUME 0 <= a, 0 <= b PROVE 0 <= p
      OBVIOUS
    <2> QED BY <1>1, Grows
  <1>4. (a < 0 /\ 0 <= b) => p <= 0
    <2> SUFFICES ASSUME a < 0, 0 <= b PROVE p <= 0
      OBVIOUS
    <2>1. a * b <= 0 * b
      BY Grows
    <2> QED BY <1>1, <2>1
  <1>5. (0 <= a /\ b < 0) => p <= 0
    <2> SUFFICES ASSUME 0 <= a, b < 0 PROVE p <= 0
      OBVIOUS
    <2>1. b * a <= 0 * a
      BY Grows
    <2> QED BY <1>1, <2>1
  <1>6. (a < 0 /\ b < 0) => 0 <= p
    <2> SUFFICES ASSUME a < 0, b < 0 PROVE 0 <= p
      OBVIOUS
    <2>1. -b \in Nat /\ a * (-b) <= 0 * (-b)
      BY Grows
    <2> QED BY <1>1, <1>2, <2>1
  <1> QED BY <1>1, <1>2, <1>3, <1>4, <1>5, <1>6 DEF Abs

(* So a value that is close to a quotient is close to the same quotient    *)
(* with numerator and denominator multiplied.                              *)
LEMMA NearCloseTimes ==
    ASSUME NEW a \in Int, NEW b \in Int, NEW t \in Int, b # 0, t # 0,
           Abs(a * t) \div Abs(b * t) < DwordRange \div 2, NEW v \in Near(a, b)
    PROVE  Close(Signed(v), <<a * t, b * t>>) \/ OneOff(Signed(v), <<a * t, b * t>>)
  <1>1. Abs(a) \in Nat /\ Abs(b) \in Nat \ {0} /\ Abs(t) \in Nat \ {0}
    BY DEF Abs
  <1>2. Abs(a) \div Abs(b) < DwordRange \div 2
    <2>1. (Abs(a) * Abs(t)) \div (Abs(b) * Abs(t)) = Abs(a) \div Abs(b)
      BY <1>1, SameQuotient
    <2>2. Abs(a * t) = Abs(a) * Abs(t) /\ Abs(b * t) = Abs(b) * Abs(t)
      BY AbsProduct
    <2> QED BY <2>1, <2>2
  <1>4. PICK x \in Int : x = Signed(v)
    BY <1>2, NearClose
  <1>5. PICK w \in Int : w = x * b - a /\ Abs(w) <= Abs(b)
    <2>1. Close(x, <<a, b>>) \/ OneOff(x, <<a, b>>)
      BY <1>2, <1>4, NearClose
    <2>2. PICK w \in Int : w = x * b - a
      OBVIOUS
    <2> QED BY <2>1, <2>2 DEF Close, OneOff, Abs
  <1>6. x * (b * t) - a * t = w * t
    <2>1. PICK y \in Int : y = x * b
      OBVIOUS
    <2>2. (y - a) * t = y * t - a * t
      BY <2>1
    <2>3. x * (b * t) = (x * b) * t
      OBVIOUS
    <2>4. x * (b * t) = y * t /\ w = y - a
      BY <1>5, <2>1, <2>3
    <2> QED BY <2>2, <2>4
  <1>7. Abs(w * t) <= Abs(b * t)
    <2>1. Abs(w) \in Int
      BY DEF Abs
    <2>2. Abs(w) * Abs(t) <= Abs(b) * Abs(t)
      BY <1>1, <1>5, <2>1, Grows
    <2> QED BY <2>2, AbsProduct
  <1>8. PICK y \in Int, z \in Int : y = w * t /\ z = b * t
    OBVIOUS
  <1>9. Abs(y) < Abs(z) \/ Abs(y) = Abs(z)
    BY <1>7, <1>8 DEF Abs
  <1> QED BY <1>4, <1>6, <1>8, <1>9 DEF Close, OneOff

(* What the samples and their differences are.                             *)
LEMMA CounterInts ==
    ASSUME NEW c \in Counter
    PROVE  /\ c.n1 \in Int /\ c.d1 \in Int /\ c.n2 \in Int /\ c.d2 \in Int
           /\ c.timebase \in Int /\ c.multi \in Int /\ c.dwType \in Type
  <1>1. /\ c.dwType \in Type /\ c.multi \in Multis /\ c.timebase \in Timebases
        /\ c.n1 \in Samples /\ c.d1 \in Samples /\ c.n2 \in Samples /\ c.d2 \in Samples
    BY DEF Counter
  <1> QED BY <1>1, SampleInt, MultiInt

(* Each type divides what its formula says by what its formula says, as    *)
(* far as the differences and the numerator fit.                           *)
LEMMA ValueClose ==
    ASSUME NEW c \in Counter, ~Traps(c), c.dwType # "elapsed_time",
           c.dwType \in Commented, c.dwType = "multi_timer" => Rem(c.d2 - c.d1, c.timebase) = 0,
           Formula(c)[2] # 0, Fits(c), NEW v \in llVal(c)
    PROVE  \/ Close(Signed(v), Formula(c))
           \/ c.dwType \in Rounded /\ OneOff(Signed(v), Formula(c))
  <1> DEFINE n == c.n2 - c.n1
             d == c.d2 - c.d1
             f == Formula(c)
  <1>1. /\ n \in Int /\ d \in Int /\ c.n1 \in Int /\ c.d1 \in Int
        /\ c.timebase \in Int /\ c.multi \in Int /\ c.dwType \in Type
    BY CounterInts
  <1>2. /\ c.dwType \notin OneSample => llMul(c) = n
        /\ c.dwType \notin OneSample /\ c.dwType \notin {"delta", "multi_timer"} => llDiv(c) = d
        /\ c.dwType = "multi_timer" => llDiv(c) = Quot(d, c.timebase)
    BY DEF Fits, llMul, llDiv, OneSample
  <1>3. /\ f[1] = Long(f[1]) /\ f[2] # 0
        /\ Abs(f[1]) \div Abs(f[2]) < DwordRange \div 2
    BY DEF Fits
  <1>4. ASSUME NEW a \in Int, NEW b \in Int, f = <<a, b>>, v \in Exact(a, b) \cup {Quot(a, b)}
        PROVE  Close(Signed(v), f)
    <2>1. v \in Near(a, b) \cup {Quot(a, b)}
      BY <1>4 DEF Near
    <2>2. b # 0 /\ Abs(a) \div Abs(b) < DwordRange \div 2
      BY <1>3, <1>4
    <2> QED BY <1>4, <2>1, <2>2, NearClose
  <1>5. ASSUME NEW a \in Int, NEW b \in Int, f = <<a, b>>, v \in Near(a, b)
        PROVE  Close(Signed(v), f) \/ OneOff(Signed(v), f)
    BY <1>3, <1>5, NearClose
  <1> HIDE DEF n, d
  <1>6. CASE c.dwType = "counter"
    <2>1. f = <<n * c.timebase, d>> /\ n * c.timebase \in Int
      BY <1>1, <1>6 DEF Formula, n, d
    <2>2. v = Quot(Long(c.timebase * n), d)
      BY <1>2, <1>3, <1>6, <2>1 DEF llVal, OneSample
    <2>3. Long(c.timebase * n) = n * c.timebase
      <3>1. c.timebase * n = n * c.timebase
        BY <1>1
      <3> QED BY <1>3, <2>1, <3>1
    <2> QED BY <1>1, <1>4, <2>1, <2>2, <2>3
  <1>7. CASE c.dwType = "queuelen"
    <2>1. f = <<n, d>>
      BY <1>7 DEF Formula, n, d
    <2>2. v = Quot(n, d)
      BY <1>2, <1>3, <1>7, <2>1 DEF llVal, OneSample
    <2> QED BY <1>1, <1>4, <2>1, <2>2
  <1>8. CASE c.dwType = "timer"
    <2>1. f = <<100 * n, d>>
      BY <1>8 DEF Formula, n, d
    <2>2. v = Quot(Long(100 * n), d)
      BY <1>2, <1>3, <1>8, <2>1 DEF llVal, OneSample
    <2> QED BY <1>1, <1>3, <1>4, <2>1, <2>2
  <1>9. CASE c.dwType = "timer_inv"
    <2>1. f = <<100 * (d - n), d>>
      BY <1>9 DEF Formula, n, d
    <2>2. v \in Near(100 * (d - n), d)
      BY <1>2, <1>3, <1>9, <2>1 DEF llVal, OneSample
    <2>3. 100 * (d - n) \in Int
      BY <1>1
    <2> QED BY <1>1, <1>5, <1>9, <2>1, <2>2, <2>3 DEF Rounded
  <1>10. CASE c.dwType = "multi_timer"
    <2> DEFINE t == c.timebase
               q == Quot(d, t)
    <2>1. f = <<100 * n * t, d * c.multi>>
      BY <1>10 DEF Formula, n, d
    <2>2. t # 0 /\ t \in Int /\ q \in Int /\ d = t * q
      <3>1. t # 0 /\ t \in Int
        BY <1>1, <1>10 DEF Traps
      <3>2. Rem(d, t) = 0
        BY <1>10 DEF d
      <3>3. q \in Int /\ t * q \in Int
        <4>1. q \in Int
          BY <1>1, <3>1, QuotInt, Zenon
        <4> HIDE DEF q, t
        <4> QED BY <3>1, <4>1
      <3>4. d - t * q = 0
        BY <3>2 DEF Rem
      <3> HIDE DEF q, t
      <3> QED BY <1>1, <3>1, <3>3, <3>4
    <2>3. q # 0 /\ c.multi # 0
      <3>1. d * c.multi # 0
        BY <1>3, <2>1
      <3> QED BY <1>1, <2>2, <3>1
    <2>4. v \in Near(100 * n, q * c.multi)
      BY <1>2, <1>10, <2>3 DEF llVal, OneSample
    <2> HIDE DEF q, t
    <2>5. PICK a \in Int, b \in Int : a = 100 * n /\ b = q * c.multi /\ b # 0
      BY <1>1, <2>2, <2>3
    <2>6. 100 * n * t = a * t /\ d * c.multi = b * t
      BY <1>1, <2>2, <2>5
    <2>7. f = <<a * t, b * t>> /\ v \in Near(a, b)
      BY <2>1, <2>4, <2>5, <2>6
    <2>8. Abs(a * t) \div Abs(b * t) < DwordRange \div 2
      BY <1>3, <2>7
    <2> QED BY <1>10, <2>2, <2>5, <2>7, <2>8, NearCloseTimes DEF Rounded
  <1>11. CASE c.dwType = "100nsec_multi_timer"
    <2>1. f = <<100 * n, d * c.multi>> /\ d * c.multi \in Int
      BY <1>1, <1>11 DEF Formula, n, d
    <2>2. d # 0
      BY <1>1, <1>3, <2>1
    <2>3. v \in Near(100 * n, d * c.multi)
      BY <1>2, <1>11, <2>2 DEF llVal, OneSample
    <2>4. 100 * n \in Int
      BY <1>1
    <2> QED BY <1>1, <1>5, <1>11, <2>1, <2>3, <2>4 DEF Rounded
  <1>12. CASE c.dwType = "multi_timer_inv"
    <2>1. f = <<100 * (c.multi * d - n), d>> /\ 100 * (c.multi * d - n) \in Int
      BY <1>1, <1>12 DEF Formula, n, d
    <2>2. v \in Near(100 * (c.multi * d - n), d)
      BY <1>2, <1>3, <1>12, <2>1 DEF llVal, OneSample
    <2> QED BY <1>1, <1>5, <1>12, <2>1, <2>2 DEF Rounded
  <1>13. ASSUME NEW a \in Int, f = <<a, 1>>, v = a
         PROVE  Close(Signed(v), f)
    <2>1. Quot(a, 1) = a
      <3>1. PICK m \in Nat : m = Abs(a) /\ m \div 1 = m /\ Abs(1) = 1
        BY DEF Abs
      <3> QED BY <3>1 DEF Quot, Abs
    <2> QED BY <1>4, <1>13, <2>1
  <1>14. CASE c.dwType = "rawcount"
    <2>1. f = <<c.n1, 1>> /\ v = c.n1
      BY <1>14 DEF Formula, llVal, Guarded
    <2> QED BY <1>1, <1>13, <2>1
  <1>15. CASE c.dwType = "delta"
    <2>1. f = <<n, 1>>
      BY <1>15 DEF Formula, n
    <2>2. v = n
      BY <1>2, <1>15 DEF llVal, Guarded, OneSample
    <2> QED BY <1>1, <1>13, <2>1, <2>2
  <1>16. CASE c.dwType = "raw_fraction"
    <2>1. f = <<100 * c.n1, c.d1>> /\ v \in Exact(100 * c.n1, c.d1)
      BY <1>16 DEF Formula, llVal, Guarded
    <2> QED BY <1>1, <1>4, <2>1
  <1>17. CASE c.dwType = "average_timer"
    <2>1. f = <<n, c.timebase * d>> /\ c.timebase * d \in Int
      BY <1>1, <1>17 DEF Formula, n, d
    <2>2. d # 0
      BY <1>1, <1>3, <2>1
    <2>3. v \in Exact(n, c.timebase * d)
      BY <1>2, <1>17, <2>2 DEF llVal, OneSample
    <2> QED BY <1>1, <1>4, <2>1, <2>3
  <1>18. CASE c.dwType = "other"
    <2>1. f = <<0, 1>> /\ v = 0
      BY <1>18 DEF Formula, llVal
    <2> QED BY <1>13, <2>1
  <1> QED BY <1>1, <1>6, <1>7, <1>8, <1>9, <1>10, <1>11, <1>12, <1>14, <1>15, <1>16, <1>17,
             <1>18 DEF Type, Commented

(* Whatever the widths and the signs of the samples, each kind of counter  *)
(* that has a formula prints its value to less than one, or one off where  *)
(* a quotient is rounded first, as far as the differences, the numerator   *)
(* and the value fit their types.                                          *)
THEOREM FormulaRight == Spec => []CloseToFormula
  <1>1. Answered => CloseToFormula
    <2> SUFFICES ASSUME Answered, pc = "counter",
                        arg.dwType \in Commented, arg.dwType # "elapsed_time",
                        arg.dwType = "multi_timer" => Rem(arg.d2 - arg.d1, arg.timebase) = 0,
                        Formula(arg)[2] # 0, Fits(arg)
                 PROVE  \/ Close(text.decimal, Formula(arg))
                        \/ arg.dwType \in Rounded /\ OneOff(text.decimal, Formula(arg))
      BY DEF CloseToFormula
    <2>1. arg \in Counter /\ ~Traps(arg) /\ text \in getCounterValue(arg)
      BY DEF Answered
    <2>2. PICK v \in llVal(arg) : text = [decimal |-> Signed(v)]
      BY <2>1 DEF getCounterValue
    <2> QED BY <2>1, <2>2, ValueClose
  <1> QED BY <1>1, AlwaysAnswered, PTL
-----------------------------------------------------------------------------
(* A number of times that a divisor fits is at most the quotient.          *)
LEMMA AtMostQuotient ==
    ASSUME NEW k \in Nat, NEW m \in Nat, NEW b \in Nat \ {0}, k * b <= m
    PROVE  k <= m \div b
  <1>1. PICK q \in Nat, r \in 0..(b - 1) : q = m \div b /\ m = b * q + r
    OBVIOUS
  <1> SUFFICES ASSUME q + 1 <= k PROVE FALSE
    BY <1>1
  <1>2. (q + 1) * b <= k * b
    BY Grows
  <1>3. PICK p \in Nat, l \in Nat : p = b * q /\ l = k * b
    OBVIOUS
  <1>4. (q + 1) * b = p + b
    BY <1>3
  <1> QED BY <1>1, <1>2, <1>3, <1>4

(* When the divisor p of n * t may be up to twice too small, a truncated   *)
(* quotient is less than twice too large.                                  *)
LEMMA WithinTwice ==
    ASSUME NEW n \in Nat, NEW t \in Nat, NEW b \in Nat, NEW p \in Nat, NEW f \in Nat,
           NEW x \in Nat, p = b * t, p <= f, f <= 2 * p
    PROVE  /\ n <= (x + 1) * b => n * t <= (x + 1) * f
           /\ x * b <= n => x * f <= 2 * (n * t)
  <1>1. ASSUME n <= (x + 1) * b PROVE n * t <= (x + 1) * f
    <2>1. PICK y \in Nat : y = (x + 1) * b
      OBVIOUS
    <2>2. n * t <= y * t
      BY <1>1, <2>1, Grows
    <2>3. y * t = p * (x + 1)
      <3>1. ((x + 1) * b) * t = (b * t) * (x + 1)
        OBVIOUS
      <3> QED BY <2>1, <3>1
    <2>4. p * (x + 1) <= f * (x + 1)
      BY Grows
    <2>5. PICK u \in Nat, v \in Nat, w \in Nat :
            u = n * t /\ v = p * (x + 1) /\ w = f * (x + 1) /\ w = (x + 1) * f
      OBVIOUS
    <2> QED BY <2>2, <2>3, <2>4, <2>5
  <1>2. ASSUME x * b <= n PROVE x * f <= 2 * (n * t)
    <2>1. PICK y \in Nat : y = x * b
      OBVIOUS
    <2>2. y * t <= n * t
      BY <1>2, <2>1, Grows
    <2>3. y * t = p * x
      <3>1. (x * b) * t = (b * t) * x
        OBVIOUS
      <3> QED BY <2>1, <3>1
    <2>4. f * x <= (2 * p) * x
      BY Grows
    <2>5. PICK u \in Nat, v \in Nat, w \in Nat :
            u = n * t /\ v = p * x /\ w = f * x /\ w = x * f /\ (2 * p) * x = 2 * v
      OBVIOUS
    <2> QED BY <2>2, <2>3, <2>4, <2>5
  <1> QED BY <1>1, <1>2

(* What is left of d when it is divided by t is less than half of it.      *)
LEMMA HalfLeft ==
    ASSUME NEW d \in Nat, NEW t \in Nat \ {0}, d \div t # 0
    PROVE  /\ d \div t \in Nat \ {0}
           /\ (d \div t) * t <= d /\ d <= 2 * ((d \div t) * t)
  <1>1. PICK q \in Nat, r \in 0..(t - 1) : q = d \div t /\ d = t * q + r
    OBVIOUS
  <1>2. 1 * t <= q * t
    BY <1>1, Grows
  <1>3. PICK p \in Nat : p = t * q /\ p = q * t
    BY <1>1
  <1> QED BY <1>1, <1>2, <1>3

(* The two sides of MultiTimerWithinTwice.                                 *)
LEMMA MultiTimerValue ==
    ASSUME NEW c \in Counter, c.dwType = "multi_timer", c.timebase > 0, c.multi > 0,
           Quot(c.d2 - c.d1, c.timebase) # 0, Fits(c),
           (2 * Abs(Formula(c)[1])) \div Abs(Formula(c)[2]) < DwordRange \div 2,
           NEW v \in llVal(c)
    PROVE  /\ Abs(Formula(c)[1]) <= (Abs(Signed(v)) + 1) * Abs(Formula(c)[2])
           /\ Abs(Signed(v)) * Abs(Formula(c)[2]) <= 2 * Abs(Formula(c)[1])
  <1> DEFINE n == c.n2 - c.n1
             d == c.d2 - c.d1
             t == c.timebase
             m == c.multi
             q == Quot(d, t)
  <1>1. n \in Int /\ d \in Int /\ t \in Nat \ {0} /\ m \in Nat \ {0}
    BY CounterInts
  <1>2. Formula(c) = <<100 * n * t, d * m>>
    BY DEF Formula
  <1>3. v \in Near(100 * n, q * m)
    <2>1. llMul(c) = n /\ llDiv(c) = q
      BY DEF Fits, llMul, llDiv, OneSample
    <2> QED BY <2>1 DEF llVal
  <1> HIDE DEF n, d, t, m
  <1>4. PICK D \in Nat, N \in Nat, a \in Int : D = Abs(d) /\ a = 100 * n /\ N = Abs(a)
    BY <1>1 DEF Abs
  <1>5. q \in Int /\ Abs(q) = D \div t /\ q # 0 /\ D \div t # 0
    <2>1. Abs(t) = t /\ t \in Int /\ t # 0
      BY <1>1 DEF Abs
    <2>2. q \in Int /\ Abs(q) = Abs(d) \div Abs(t)
      BY <1>1, <2>1, QuotLeaves
    <2>3. q # 0
      BY DEF d, t
    <2> HIDE DEF q
    <2>4. Abs(q) # 0
      BY <2>2, <2>3 DEF Abs
    <2> QED BY <1>4, <2>1, <2>2, <2>3, <2>4
  <1> HIDE DEF q
  <1>6. PICK T \in Nat \ {0} : T = D \div t /\ T * t <= D /\ D <= 2 * (T * t)
    BY <1>1, <1>4, <1>5, HalfLeft
  <1>7. PICK S \in Nat : S = T * t
    BY <1>1, <1>6
  <1>8. PICK B \in Nat \ {0} : B = T * m
    <2>1. 1 * m <= T * m
      BY <1>1, <1>6, Grows
    <2> QED BY <1>1, <1>6, <2>1
  <1>9. PICK P \in Nat, f \in Nat : P = B * t /\ f = D * m /\ P <= f /\ f <= 2 * P
    <2>1. PICK P \in Nat : P = S * m
      BY <1>1
    <2>2. P = B * t
      <3>1. (T * t) * m = (T * m) * t
        BY <1>1, <1>6
      <3> QED BY <1>7, <1>8, <2>1, <3>1
    <2>3. PICK f \in Nat : f = D * m
      BY <1>1
    <2>4. S * m <= D * m /\ D * m <= (2 * S) * m
      BY <1>1, <1>6, <1>7, Grows
    <2>5. (2 * S) * m = 2 * P
      BY <1>1, <2>1
    <2> QED BY <2>1, <2>2, <2>3, <2>4, <2>5
  <1>10. Abs(Formula(c)[1]) = N * t /\ Abs(Formula(c)[2]) = f
    <2>1. Abs(t) = t /\ Abs(m) = m
      BY <1>1 DEF Abs
    <2>2. Abs(a * t) = Abs(a) * Abs(t) /\ Abs(d * m) = Abs(d) * Abs(m)
      <3>1. a \in Int /\ t \in Int /\ d \in Int /\ m \in Int
        BY <1>1
      <3> QED BY <3>1, AbsProduct
    <2>3. 100 * n * t = a * t
      BY <1>4
    <2> QED BY <1>2, <1>4, <1>9, <2>1, <2>2, <2>3
  <1>11. q * m \in Int /\ q * m # 0 /\ Abs(q * m) = B
    <2>1. Abs(q * m) = Abs(q) * Abs(m) /\ Abs(m) = m
      BY <1>1, <1>5, AbsProduct DEF Abs
    <2>2. Abs(q * m) = B
      BY <1>5, <1>6, <1>8, <2>1
    <2>3. PICK b \in Int : b = q * m
      BY <1>1, <1>5
    <2> QED BY <1>8, <2>2, <2>3 DEF Abs
  <1>12. PICK b \in Int : b = q * m /\ b # 0 /\ Abs(b) = B
    BY <1>11
  <1>13. PICK M \in Nat : M = N * t
    BY <1>1
  <1>14. Abs(a) \div Abs(b) < DwordRange \div 2
    <2>1. PICK k \in Nat, r \in 0..(B - 1) : k = N \div B /\ N = B * k + r
      OBVIOUS
    <2>2. k * B <= N
      <3>1. PICK l \in Nat : l = B * k /\ l = k * B
        BY <1>8
      <3> QED BY <2>1, <3>1
    <2>3. k * f <= 2 * M
      BY <1>1, <1>8, <1>9, <1>13, <2>2, WithinTwice
    <2>4. f # 0
      <3>1. 1 * t <= B * t
        BY <1>1, <1>8, Grows
      <3> QED BY <1>1, <1>9, <3>1
    <2>5. k <= (2 * M) \div f
      BY <1>9, <2>3, <2>4, AtMostQuotient
    <2>6. (2 * M) \div f < DwordRange \div 2
      BY <1>10, <1>13
    <2>7. (2 * M) \div f \in Int /\ DwordRange \div 2 \in Int
      BY <1>9, <2>4, Halves
    <2> QED BY <1>4, <1>12, <2>1, <2>5, <2>6, <2>7
  <1>15. v \in Near(a, b)
    BY <1>3, <1>4, <1>12
  <1>16. PICK y \in Int : y = Signed(v)
    BY <1>12, <1>14, <1>15, NearClose
  <1>17. /\ Close(y, <<a, b>>) \/ OneOff(y, <<a, b>>)
         /\ Abs(y) * B <= N
    BY <1>4, <1>12, <1>14, <1>15, <1>16, NearClose
  <1>18. PICK x \in Nat : x = Abs(y)
    BY DEF Abs
  <1>19. N <= (x + 1) * B
    <2>1. PICK z \in Int : z = y * b
      OBVIOUS
    <2>2. Abs(z - a) <= B
      BY <1>8, <1>12, <1>17, <2>1 DEF Close, OneOff, Abs
    <2>3. Abs(z) = x * B
      BY <1>12, <1>18, <2>1, AbsProduct
    <2>4. PICK w \in Nat : w = x * B /\ (x + 1) * B = w + B
      BY <1>8
    <2> QED BY <1>4, <1>8, <2>2, <2>3, <2>4 DEF Abs
  <1>20. N * t <= (x + 1) * f /\ x * f <= 2 * (N * t)
    BY <1>1, <1>8, <1>9, <1>17, <1>18, <1>19, WithinTwice
  <1> QED BY <1>10, <1>16, <1>18, <1>20

(* Whatever the widths and the samples: the part of a time base that a     *)
(* timer over several instances loses never makes it twice too large.      *)
THEOREM MultiTimerRight == Spec => []MultiTimerWithinTwice
  <1>1. Answered => MultiTimerWithinTwice
    <2> SUFFICES ASSUME Answered, pc = "counter", arg.dwType = "multi_timer",
                        arg.timebase > 0, arg.multi > 0,
                        Quot(arg.d2 - arg.d1, arg.timebase) # 0, Fits(arg),
                        (2 * Abs(Formula(arg)[1])) \div Abs(Formula(arg)[2]) < DwordRange \div 2
                 PROVE  /\ Abs(Formula(arg)[1]) <= (Abs(text.decimal) + 1) * Abs(Formula(arg)[2])
                        /\ Abs(text.decimal) * Abs(Formula(arg)[2]) <= 2 * Abs(Formula(arg)[1])
      BY DEF MultiTimerWithinTwice
    <2>1. arg \in Counter /\ text \in getCounterValue(arg)
      BY DEF Answered
    <2>2. PICK v \in llVal(arg) : text = [decimal |-> Signed(v)]
      BY <2>1 DEF getCounterValue
    <2> QED BY <2>1, <2>2, MultiTimerValue
  <1> QED BY <1>1, AlwaysAnswered, PTL
============================================================================
