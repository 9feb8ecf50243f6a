----------------------- MODULE ProcessCounters_proofs -----------------------
(***************************************************************************)
(* Proofs about ProcessCounters: what can be said of one row of counters,  *)
(* for any number of names, processes, changes and counters.               *)
(***************************************************************************)
EXTENDS ProcessCounters, SequenceTheorems, TLAPS

USE NameAssumption, ProcessAssumption, CounterAssumption, ChangesAssumption,
    ValueAssumption

(* The slots are the numbers up to the last, and a call may count one past *)
(* it.                                                                     *)
LEMMA Slots == LastSlot \in Nat \ {0} /\ Slot = 1..LastSlot
  BY DEF LastSlot, Slot

(* None is no process, and the processes are natural numbers.              *)
LEMMA Processes == Process \subseteq Nat /\ None \notin Process /\ Name \subseteq Nat
  BY DEF Process, None, Name

(* Removing one element of a sequence leaves the others in their order.    *)
LEMMA WithoutIsSeq ==
  ASSUME NEW S, NEW s \in Seq(S), NEW k \in DOMAIN s
  PROVE  /\ Without(s, k) \in Seq(S)
         /\ Len(Without(s, k)) = Len(s) - 1
         /\ \A j \in 1..(Len(s) - 1) :
                Without(s, k)[j] = IF j < k THEN s[j] ELSE s[j + 1]
<1> DEFINE l == Len(s) - 1
           w == [j \in 1..l |-> IF j < k THEN s[j] ELSE s[j + 1]]
<1>1. l \in Nat /\ DOMAIN s = 1..Len(s) /\ Len(s) \in Nat
  OBVIOUS
<1>2. \A j \in 1..l : s[j] \in S /\ s[j + 1] \in S
  BY <1>1
<1>3. w \in [1..l -> S]
  BY <1>2
<1>4. w \in Seq(S) /\ Len(w) = l
  BY <1>1, <1>3
<1> QED
  BY <1>4 DEF Without

(* An instance of a name is one of the processes of that name.             *)
LEMMA InstanceType ==
  ASSUME insts \in [Name -> Seq(Process)], NEW n \in Name, NEW k \in Nat
  PROVE  /\ Instance(n, k) \in Process \cup {None}
         /\ Instance(n, k) # None <=> k < Len(insts[n])
         /\ k < Len(insts[n]) => Instance(n, k) = insts[n][k + 1]
<1>1. insts[n] \in Seq(Process) /\ Len(insts[n]) \in Nat
  OBVIOUS
<1>2. k < Len(insts[n]) => insts[n][k + 1] \in Process
  BY <1>1
<1> QED
  BY <1>1, <1>2, Processes DEF Instance

-----------------------------------------------------------------------------
(* The two ways the machine changes keep the type of its sequences.        *)
LEMMA MachineType ==
  ASSUME TypeOK, Machine
  PROVE  TypeOK'
<1> USE DEF TypeOK, Machine, system, main, row
<1>1. CASE \E n \in Name : Start(n)
  <2>1. PICK n \in Name : Start(n)
    BY <1>1
  <2>2. started + 1 \in Process /\ started \in Nat
    BY <2>1 DEF Start, Process
  <2>3. Append(insts[n], started + 1) \in Seq(Process)
    BY <2>2
  <2>4. changes + 1 \in 0..MaxChanges
    BY <2>1 DEF Start
  <2> QED
    BY <2>1, <2>2, <2>3, <2>4 DEF Start
<1>2. CASE \E n \in Name : \E k \in DOMAIN insts[n] : Exit(n, k)
  <2>1. PICK n \in Name : \E k \in DOMAIN insts[n] : Exit(n, k)
    BY <1>2
  <2>2. PICK k \in DOMAIN insts[n] : Exit(n, k)
    BY <2>1
  <2>3. Without(insts[n], k) \in Seq(Process)
    BY WithoutIsSeq
  <2>4. changes + 1 \in 0..MaxChanges
    BY <2>2 DEF Exit
  <2>5. disturbed' \in BOOLEAN
    BY <2>2 DEF Exit
  <2> QED
    BY <2>2, <2>3, <2>4, <2>5 DEF Exit
<1> QED
  BY <1>1, <1>2

(* Every variable has its type when Enumerate is called.                   *)
LEMMA InitType == Init => TypeOK
<1> SUFFICES ASSUME Init PROVE TypeOK
  OBVIOUS
<1>1. started \in Process /\ started \in Nat
  BY Processes DEF Init
<1>2. Increasing(started) \subseteq Seq(Process)
  <2>1. 1..started \subseteq Process
    BY <1>1 DEF Process
  <2>2. ASSUME NEW l \in 0..started, NEW s \in [1..l -> 1..started]
        PROVE  s \in Seq(Process)
    BY <2>1, <2>2, <1>1
  <2> QED
    BY <2>2 DEF Increasing
<1>3. insts \in [Name -> Seq(Process)]
  BY <1>2 DEF Init, Before
<1>4. call \in Call /\ it \in 1..(Names + 1) /\ mapIns \in [Name -> Nat]
  BY DEF Init, Call
<1>5. frame \in [Slot -> Value] /\ i \in 0..(LastSlot + 1) /\ rows \in Seq(Call)
  BY Slots DEF Init, Value, NoFrame
<1>6. changes \in 0..MaxChanges /\ pc \in Label /\ target \in Process \cup {None}
  BY DEF Init, Label
<1>7. disturbed \in BOOLEAN /\ refused \subseteq Slot
  BY DEF Init
<1>8. clock \in Nat /\ sample \in [{"first", "second", "up"} -> Nat \cup {Garbage, Untyped}]
  BY DEF Init, NoSample
<1> QED
  BY <1>1, <1>3, <1>4, <1>5, <1>6, <1>7, <1>8 DEF TypeOK

(* Every step of the program keeps the types.                              *)
LEMMA ProgramType ==
  ASSUME TypeOK, Program
  PROVE  TypeOK'
<1> USE DEF TypeOK, machine, system, main, row
<1>1. CASE GetSystemCounters
  <2>1. /\ pc' \in Label /\ clock' \in Nat
        /\ sample' \in [{"first", "second", "up"} -> Nat \cup {Garbage, Untyped}]
    BY <1>1 DEF GetSystemCounters, SystemFirst, SystemSleep, SystemSecond, SystemDivides,
                SystemUpTime, Unread, NoSample, Label
  <2>2. UNCHANGED <<machine, mapIns, it, rows, row, disturbed>>
    BY <1>1 DEF GetSystemCounters, SystemFirst, SystemSleep, SystemSecond, SystemDivides,
                SystemUpTime
  <2> QED
    BY <2>1, <2>2
<1>3. CASE enumObjIns
  BY <1>3 DEF enumObjIns, Label
<1>4. ASSUME NEW n \in Name, NEW k \in 0..1, Begin(n, k)
      PROVE  /\ call' \in Call /\ i' \in 0..(LastSlot + 1)
             /\ frame' \in [Slot -> Value] /\ target' \in Process \cup {None}
             /\ disturbed' \in BOOLEAN /\ refused' \subseteq Slot
             /\ UNCHANGED <<machine, system, rows, mapIns>>
  <2>1. Instance(n, k) \in Process \cup {None}
    BY <1>4, InstanceType
  <2>2. call' \in Call
    BY <1>4 DEF Begin, Call
  <2>3. frame' \in [Slot -> Value] /\ i' \in 0..(LastSlot + 1)
    BY <1>4, Slots DEF Begin, Value, NoFrame
  <2> QED
    BY <1>4, <2>1, <2>2, <2>3 DEF Begin
<1>5. CASE EnumerateSelf
  BY <1>5, <1>4 DEF EnumerateSelf
<1>6. CASE GetProcessCounters
  <2>1. PICK n \in Name : /\ NextName(n)
                          /\ IF mapIns[n] > 1 THEN Begin(n, 1) /\ it' = n + 1
                                              ELSE Begin(n, 0) /\ it' = Names + 1
    BY <1>6 DEF GetProcessCounters
  <2>2. it' \in 1..(Names + 1)
    BY <2>1 DEF Name
  <2>3. /\ call' \in Call /\ i' \in 0..(LastSlot + 1)
        /\ frame' \in [Slot -> Value] /\ target' \in Process \cup {None}
        /\ disturbed' \in BOOLEAN /\ refused' \subseteq Slot
        /\ UNCHANGED <<machine, system, rows, mapIns>>
    <3>1. CASE Begin(n, 1)
      BY <1>4, <3>1
    <3>2. CASE Begin(n, 0)
      BY <1>4, <3>2
    <3> QED
      BY <2>1, <3>1, <3>2
  <2>4. pc' = pc
    BY <1>6 DEF GetProcessCounters
  <2> QED
    BY <2>2, <2>3, <2>4
<1>7. CASE GetProcessCountersEnds
  BY <1>7 DEF GetProcessCountersEnds, Label
<1>8. CASE getCounter
  <2>1. i \in 1..LastSlot /\ i' \in 0..(LastSlot + 1)
    BY <1>8, Slots DEF getCounter
  <2>2. call.name \in Name /\ call.ins \in Nat
    BY DEF Call
  <2>3. Instance(call.name, call.ins) \in Process \cup {None}
    BY <2>2, InstanceType
  <2>4. frame' \in [Slot -> Value]
    BY <1>8, <2>3 DEF getCounter, Value
  <2>5. refused' \subseteq Slot
    BY <1>8 DEF getCounter
  <2> QED
    BY <1>8, <2>1, <2>4, <2>5 DEF getCounter
<1>9. CASE EndCall
  <2>1. Append(rows, call) \in Seq(Call)
    BY AppendProperties
  <2>2. pc' \in Label /\ i' \in 0..(LastSlot + 1)
    BY <1>9, Slots DEF EndCall, Label
  <2>3. rows' \in Seq(Call)
    BY <1>9, <2>1 DEF EndCall
  <2>4. frame' \in [Slot -> Value] /\ refused' \subseteq Slot
    BY <1>9 DEF EndCall, NoFrame, Value
  <2> QED
    BY <1>9, <2>2, <2>3, <2>4 DEF EndCall
<1> QED
  BY <1>1, <1>3, <1>5, <1>6, <1>7, <1>8, <1>9 DEF Program

(* And so does every step of the specification.                            *)
LEMMA NextType == TypeOK /\ [Next]_vars => TypeOK'
<1>1. ASSUME TypeOK, UNCHANGED vars
      PROVE  TypeOK'
  BY <1>1 DEF TypeOK, vars, machine, system, main, row
<1> QED
  BY <1>1, MachineType, ProgramType DEF Next, Terminating

(* Every variable of ProcessCounters keeps its type, whatever processes    *)
(* start and exit under the enumeration.                                   *)
THEOREM TypeCorrect == Spec => []TypeOK
BY InitType, NextType, PTL DEF Spec

-----------------------------------------------------------------------------
(* RowIsOneProcess is not inductive: what the name still means must be     *)
(* known for the next read.  While no process exits at or before the       *)
(* instance that is read, the name goes on meaning the target.             *)
RowInv ==
    i > 0 /\ ~disturbed /\ target # None =>
        /\ Instance(call.name, call.ins) = target
        /\ \A s \in Slot : frame[s] \in {target, Garbage, Untyped}

(* The machine does not change what an undisturbed name means.             *)
LEMMA MachineKeepsRowInv ==
  ASSUME TypeOK, RowInv, Machine
  PROVE  RowInv'
<1>0. UNCHANGED <<call, i, frame, target>> /\ (~disturbed' => ~disturbed)
  BY DEF Machine, main, row, Start, Exit
<1> SUFFICES ASSUME i > 0, ~disturbed', target # None
             PROVE  Instance(call.name, call.ins)' = target
  BY <1>0 DEF RowInv
<1> DEFINE m == call.name
           c == call.ins
<1>1. m \in Name /\ c \in 0..1 /\ insts \in [Name -> Seq(Process)]
  BY DEF TypeOK, Call
<1>2. ~disturbed /\ UNCHANGED <<call, target>>
  BY <1>0
<1>3. c < Len(insts[m]) /\ insts[m][c + 1] = target
  BY <1>1, <1>2, InstanceType DEF RowInv
<1>4. SUFFICES c < Len(insts'[m]) /\ insts'[m][c + 1] = target
  BY <1>2 DEF Instance
<1>5. CASE \E n \in Name : Start(n)
  <2>1. PICK n \in Name : Start(n)
    BY <1>5
  <2>2. insts' = [insts EXCEPT ![n] = Append(@, started + 1)]
    BY <2>1 DEF Start
  <2>3. CASE n = m
    <3>1. insts'[m] = Append(insts[m], started + 1)
      BY <2>2, <2>3, <1>1
    <3>2. Len(insts[m]) \in Nat /\ insts[m] \in Seq(Process)
      BY <1>1
    <3> QED
      BY <3>1, <3>2, <1>1, <1>3
  <2>4. CASE n # m
    BY <2>2, <2>4, <1>1, <1>3
  <2> QED
    BY <2>3, <2>4
<1>6. CASE \E n \in Name : \E k \in DOMAIN insts[n] : Exit(n, k)
  <2>1. PICK n \in Name : \E k \in DOMAIN insts[n] : Exit(n, k)
    BY <1>6
  <2>2. PICK k \in DOMAIN insts[n] : Exit(n, k)
    BY <2>1
  <2>3. insts' = [insts EXCEPT ![n] = Without(@, k)]
    BY <2>2 DEF Exit
  <2>4. CASE n = m
    <3>1. insts'[m] = Without(insts[m], k)
      BY <2>3, <2>4, <1>1
    <3>2. Len(insts[m]) \in Nat /\ insts[m] \in Seq(Process) /\ k \in 1..Len(insts[m])
      BY <1>1, <2>4
    <3>3. k > c + 1
      BY <2>2, <2>4, <3>2, <1>1 DEF Exit, TypeOK
    <3>4. /\ Len(Without(insts[m], k)) = Len(insts[m]) - 1
          /\ \A j \in 1..(Len(insts[m]) - 1) :
                 Without(insts[m], k)[j] = IF j < k THEN insts[m][j] ELSE insts[m][j + 1]
      BY <3>2, <2>4, WithoutIsSeq
    <3>5. c + 1 \in 1..(Len(insts[m]) - 1)
      BY <3>2, <3>3, <1>1
    <3>6. Without(insts[m], k)[c + 1] = insts[m][c + 1]
      BY <3>2, <3>3, <3>4, <3>5, <1>1
    <3>7. c < Len(Without(insts[m], k))
      BY <3>2, <3>4, <3>5, <1>1
    <3> QED
      BY <3>1, <3>6, <3>7, <1>3
  <2>5. CASE n # m
    BY <2>3, <2>5, <1>1, <1>3
  <2> QED
    BY <2>4, <2>5
<1> QED
  BY <1>5, <1>6 DEF Machine

(* Every value a step of the program reads is the target's.                *)
LEMMA ProgramKeepsRowInv ==
  ASSUME TypeOK, RowInv, Program
  PROVE  RowInv'
<1> USE DEF machine, system, main, row
<1>1. CASE GetSystemCounters \/ enumObjIns \/ GetProcessCountersEnds
  <2>1. UNCHANGED <<insts, call, i, frame, target, disturbed>>
    BY <1>1 DEF GetSystemCounters, SystemFirst, SystemSleep, SystemSecond, SystemDivides,
                SystemUpTime, enumObjIns, GetProcessCountersEnds
  <2> QED
    BY <2>1 DEF RowInv, Instance
<1>2. ASSUME NEW n \in Name, NEW k \in 0..1, Begin(n, k)
      PROVE  RowInv'
  BY <1>2 DEF RowInv, Begin, Instance, NoFrame
<1>3. CASE EnumerateSelf
  BY <1>3, <1>2 DEF EnumerateSelf
<1>4. CASE GetProcessCounters
  BY <1>4, <1>2 DEF GetProcessCounters
<1>5. CASE getCounter
  <2> SUFFICES ASSUME ~disturbed, target # None
               PROVE  /\ Instance(call.name, call.ins)' = target
                      /\ \A s \in Slot : frame'[s] \in {target, Garbage, Untyped}
    BY <1>5 DEF RowInv, getCounter
  <2>1. i > 0 /\ frame \in [Slot -> Value] /\ i \in Slot
    BY <1>5, Slots DEF getCounter, TypeOK
  <2>2. Instance(call.name, call.ins) = target /\ \A s \in Slot : frame[s] \in {target, Garbage, Untyped}
    BY <2>1 DEF RowInv
  <2>3. \A s \in Slot : frame'[s] \in {target, Garbage, Untyped}
    BY <1>5, <2>1, <2>2 DEF getCounter
  <2> QED
    BY <1>5, <2>2, <2>3 DEF getCounter, Instance
<1>6. CASE EndCall
  BY <1>6 DEF RowInv, EndCall
<1> QED
  BY <1>1, <1>3, <1>4, <1>5, <1>6 DEF Program

(* The values of a row of counters are of the process the name meant when  *)
(* the row was begun, unless a process exits at or before that instance.   *)
THEOREM RowsNameOneProcess == Spec => []RowIsOneProcess
<1>1. Init => RowInv
  BY DEF Init, RowInv
<1>2. TypeOK /\ RowInv /\ [Next]_vars => RowInv'
  <2>1. ASSUME RowInv, UNCHANGED vars
        PROVE  RowInv'
    BY <2>1 DEF RowInv, vars, machine, system, main, row, Instance
  <2> QED
    BY <2>1, MachineKeepsRowInv, ProgramKeepsRowInv DEF Next, Terminating
<1>3. RowInv => RowIsOneProcess
  BY DEF RowInv, RowIsOneProcess
<1> QED
  BY TypeCorrect, <1>1, <1>2, <1>3, PTL DEF Spec

-----------------------------------------------------------------------------
(* What the divisions rest on.  In GetSystemCounters: the two times, when  *)
(* both were read, are a second apart.  In a row: a first sample that is   *)
(* left as the stack had it is one that getCounter returned FALSE for.     *)
DivisionInv ==
    /\ CrashOnlyAfterFailure
    /\ pc = "sleep" => sample["first"] \in {clock} \cup Unread(TRUE)
    /\ pc = "second" => sample["first"] \in Unread(TRUE) \/ sample["first"] < clock
    /\ pc = "divide" =>
          \/ sample["first"] \in Unread(TRUE) \/ sample["second"] \in Unread(TRUE)
          \/ sample["first"] # sample["second"]
    /\ i > 0 => \A s \in Slot : s < i /\ Typed(s) /\ frame[s] = Garbage => s \in refused

(* A step of the machine reads nothing.                                    *)
LEMMA MachineKeepsDivisionInv ==
  ASSUME DivisionInv, Machine
  PROVE  DivisionInv'
BY DEF DivisionInv, CrashOnlyAfterFailure, Machine, system, main, row

(* The samples of the system are read in turn, with the sleep between.     *)
LEMMA SystemKeepsDivisionInv ==
  ASSUME TypeOK, DivisionInv, GetSystemCounters
  PROVE  DivisionInv'
<1> USE DEF machine, system, main, row
<1>1. UNCHANGED <<i, frame, refused>> /\ pc' # "rowCrash"
  BY DEF GetSystemCounters, SystemFirst, SystemSleep, SystemSecond, SystemDivides, SystemUpTime
<1>2. SUFFICES
        /\ pc' = "systemCrash" => \E s \in DOMAIN sample' : sample'[s] \in Unread(TRUE)
        /\ pc' = "sleep" => sample'["first"] \in {clock'} \cup Unread(TRUE)
        /\ pc' = "second" => sample'["first"] \in Unread(TRUE) \/ sample'["first"] < clock'
        /\ pc' = "divide" =>
              \/ sample'["first"] \in Unread(TRUE) \/ sample'["second"] \in Unread(TRUE)
              \/ sample'["first"] # sample'["second"]
  BY <1>1 DEF DivisionInv, CrashOnlyAfterFailure
<1>3. /\ clock \in Nat /\ DOMAIN sample = {"first", "second", "up"}
      /\ sample \in [{"first", "second", "up"} -> Nat \cup {Garbage, Untyped}]
  BY DEF TypeOK
<1>4. CASE SystemFirst
  BY <1>3, <1>4 DEF SystemFirst
<1>5. CASE SystemSleep
  <2>1. sample["first"] \in {clock} \cup Unread(TRUE) /\ clock' = clock + 1
        /\ sample' = sample /\ pc' = "second"
    BY <1>5 DEF SystemSleep, DivisionInv
  <2>2. sample["first"] = clock => sample["first"] < clock'
    BY <1>3, <2>1
  <2> QED
    BY <2>1, <2>2
<1>6. CASE SystemSecond
  <2>1. PICK s \in {clock} \cup Unread(FALSE) : sample' = [sample EXCEPT !["second"] = s]
    BY <1>6 DEF SystemSecond
  <2>2. sample'["second"] = s /\ sample'["first"] = sample["first"]
    BY <1>3, <2>1
  <2>3. s \in Unread(TRUE) \/ s = clock
    BY <2>1 DEF Unread
  <2>4. sample["first"] \in Unread(TRUE) \/ sample["first"] < clock
    BY <1>6 DEF SystemSecond, DivisionInv
  <2>5. sample["first"] < clock => sample["first"] # clock
    BY <1>3, ValueAssumption
  <2> QED
    BY <1>6, <2>2, <2>3, <2>4, <2>5 DEF SystemSecond
<1>7. CASE SystemDivides
  <2>1. UNCHANGED sample /\ pc' \in {"up", "systemCrash"}
    BY <1>7 DEF SystemDivides
  <2>2. ASSUME pc' = "systemCrash"
        PROVE  sample["first"] \in Unread(TRUE) \/ sample["second"] \in Unread(TRUE)
    BY <1>7, <2>2 DEF SystemDivides, MayBeEqual, DivisionInv
  <2> QED
    BY <1>3, <2>1, <2>2
<1>8. CASE SystemUpTime
  <2>1. PICK s \in {clock} \cup Unread(TRUE) :
          \/ sample' = NoSample /\ pc' = "ins"
          \/ s = Garbage /\ sample' = [sample EXCEPT !["up"] = s] /\ pc' = "systemCrash"
    BY <1>8 DEF SystemUpTime, DividesByZero
  <2> QED
    BY <1>3, <2>1 DEF Unread
<1> QED
  BY <1>4, <1>5, <1>6, <1>7, <1>8 DEF GetSystemCounters

(* A step of the program that is in no system counter sets the next value, *)
(* or its type, or is told that it has not.                                *)
LEMMA ProgramKeepsDivisionInv ==
  ASSUME TypeOK, DivisionInv, Program
  PROVE  DivisionInv'
<1> USE DEF machine, system, main, row
<1>1. CASE enumObjIns \/ GetProcessCountersEnds
  <2>1. UNCHANGED <<i, frame, refused, system>> /\ pc' \in {"self", "again"}
    BY <1>1 DEF enumObjIns, GetProcessCountersEnds
  <2> QED
    BY <2>1 DEF DivisionInv, CrashOnlyAfterFailure
<1>2. ASSUME NEW n \in Name, NEW k \in 0..1, Begin(n, k), pc' = pc,
             pc \in {"self", "again", "loop"}
      PROVE  DivisionInv'
  <2>1. \A s \in Slot : ~(s < i')
    BY <1>2, Slots DEF Begin
  <2> QED
    BY <1>2, <2>1 DEF Begin, DivisionInv, CrashOnlyAfterFailure
<1>3. CASE EnumerateSelf
  BY <1>3, <1>2 DEF EnumerateSelf
<1>4. CASE GetProcessCounters
  BY <1>4, <1>2 DEF GetProcessCounters
<1>5. CASE getCounter
  <2>1. /\ i \in Slot /\ i > 0 /\ i' = i + 1 /\ UNCHANGED <<pc, system>>
        /\ refused \subseteq refused'
    BY <1>5, Slots DEF getCounter
  <2>2. CrashOnlyAfterFailure'
    BY <2>1 DEF DivisionInv, CrashOnlyAfterFailure
  <2> SUFFICES ASSUME NEW s \in Slot, s < i', Typed(s), frame'[s] = Garbage
               PROVE  s \in refused'
    BY <2>1, <2>2 DEF DivisionInv, Typed
  <2>3. CASE s = i
    <3>1. Instance(call.name, call.ins) \in Process \cup {None}
      BY InstanceType DEF TypeOK, Call
    <3> QED
      BY <1>5, <2>1, <2>3, <3>1 DEF getCounter, TypeOK, Process
  <2>4. CASE s # i
    <3>1. frame'[s] = frame[s]
      BY <1>5, <2>1, <2>4 DEF getCounter, TypeOK
    <3>2. s < i
      BY <2>1, <2>4, Slots
    <3> QED
      BY <2>1, <3>1, <3>2 DEF DivisionInv
  <2> QED
    BY <2>3, <2>4
<1>6. CASE EndCall
  <2>1. i' = 0 /\ UNCHANGED system /\ pc' \in {"done", "loop", "rowCrash"}
    BY <1>6 DEF EndCall
  <2>2. pc' = "rowCrash" => \E t \in 1..TimeCounters : MemoryCounters + t \in refused'
    <3> SUFFICES ASSUME pc' = "rowCrash"
                 PROVE  \E t \in 1..TimeCounters : MemoryCounters + t \in refused'
      OBVIOUS
    <3>1. PICK t \in 1..TimeCounters : frame[MemoryCounters + t] = Garbage /\ refused' = refused
      BY <1>6 DEF EndCall, DividesByZero, FirstSample
    <3>2. /\ MemoryCounters + t \in Slot /\ MemoryCounters + t < i /\ i > 0
          /\ Typed(MemoryCounters + t)
      BY <1>6, Slots DEF EndCall, LastSlot, Typed
    <3> QED
      BY <3>1, <3>2 DEF DivisionInv
  <2>3. CrashOnlyAfterFailure'
    BY <2>1, <2>2 DEF CrashOnlyAfterFailure
  <2>4. ~(i' > 0) /\ pc' # "sleep" /\ pc' # "second" /\ pc' # "divide"
    BY <2>1
  <2> QED
    BY <2>3, <2>4 DEF DivisionInv
<1> QED
  BY <1>1, <1>3, <1>4, <1>5, <1>6, SystemKeepsDivisionInv DEF Program

(* The program divides by zero only when a value was not read: in a row    *)
(* one that getCounter has returned FALSE for, and no other, however       *)
(* processes exit; among the system's counters any, which getCounter need  *)
(* not have told.                                                          *)
THEOREM CrashesOnlyAfterFailure == Spec => []CrashOnlyAfterFailure
<1>1. Init => DivisionInv
  BY DEF Init, DivisionInv, CrashOnlyAfterFailure
<1>2. TypeOK /\ DivisionInv /\ [Next]_vars => DivisionInv'
  <2>1. ASSUME DivisionInv, UNCHANGED vars
        PROVE  DivisionInv'
    BY <2>1 DEF DivisionInv, CrashOnlyAfterFailure, vars, machine, system, main, row
  <2> QED
    BY <2>1, MachineKeepsDivisionInv, ProgramKeepsDivisionInv DEF Next, Terminating
<1>3. DivisionInv => CrashOnlyAfterFailure
  BY DEF DivisionInv
<1> QED
  BY TypeCorrect, <1>1, <1>2, <1>3, PTL DEF Spec

-----------------------------------------------------------------------------
(* The instances of a name are in starting order, ...                      *)
Ascending(q, last) ==
    /\ \A j, k \in DOMAIN q : j < k => q[j] < q[k]
    /\ \A k \in DOMAIN q : q[k] <= last

(* ... and no instance at or after the one that is read is older than a    *)
(* value of the row.                                                       *)
NotAfter(v, q, k) == \A j \in DOMAIN q : k < j => v <= q[j]

ForwardInv ==
    /\ \A n \in Name : Ascending(insts[n], started)
    /\ i > 0 => \A s \in Slot : frame[s] \in Process =>
           /\ s < i /\ frame[s] <= started
           /\ NotAfter(frame[s], insts[call.name], call.ins)
    /\ RowMovesForward

(* A process that starts goes after the others.                            *)
LEMMA AppendAscends ==
  ASSUME NEW q \in Seq(Nat), NEW last \in Nat, Ascending(q, last)
  PROVE  /\ Ascending(Append(q, last + 1), last + 1)
         /\ \A v \in Nat, k \in Nat :
                v <= last /\ NotAfter(v, q, k) => NotAfter(v, Append(q, last + 1), k)
<1> DEFINE a == Append(q, last + 1)
<1>1. /\ Len(q) \in Nat /\ DOMAIN q = 1..Len(q)
      /\ DOMAIN a = 1..(Len(q) + 1)
      /\ \A j \in 1..Len(q) : a[j] = q[j] /\ q[j] \in Nat
      /\ a[Len(q) + 1] = last + 1
  OBVIOUS
<1> HIDE DEF a
<1>2. \A j \in DOMAIN a : \/ j \in DOMAIN q /\ a[j] = q[j]
                          \/ j = Len(q) + 1 /\ a[j] = last + 1
  BY <1>1
<1>3. Ascending(a, last + 1)
  BY <1>1, <1>2 DEF Ascending
<1>4. \A v \in Nat, k \in Nat : v <= last /\ NotAfter(v, q, k) => NotAfter(v, a, k)
  BY <1>1, <1>2 DEF NotAfter
<1> QED
  BY <1>3, <1>4 DEF a

(* A process that exits lets only younger ones move up.                    *)
LEMMA WithoutAscends ==
  ASSUME NEW q \in Seq(Nat), NEW last \in Nat, NEW x \in DOMAIN q, Ascending(q, last)
  PROVE  /\ Ascending(Without(q, x), last)
         /\ \A v \in Nat, k \in Nat : NotAfter(v, q, k) => NotAfter(v, Without(q, x), k)
<1> DEFINE w == Without(q, x)
<1>1. /\ Len(q) \in Nat /\ DOMAIN q = 1..Len(q) /\ x \in 1..Len(q)
      /\ \A j \in 1..Len(q) : q[j] \in Nat
  OBVIOUS
<1>2. /\ DOMAIN w = 1..(Len(q) - 1)
      /\ \A j \in DOMAIN w : w[j] = IF j < x THEN q[j] ELSE q[j + 1]
  BY WithoutIsSeq DEF Without
<1> HIDE DEF w
<1>3. \A j \in DOMAIN w :
          /\ j \in DOMAIN q /\ j + 1 \in DOMAIN q /\ q[j] < q[j + 1]
          /\ w[j] \in {q[j], q[j + 1]}
  BY <1>1, <1>2 DEF Ascending
<1>4. ASSUME NEW j \in DOMAIN w, NEW k \in DOMAIN w, j < k
      PROVE  w[j] < w[k]
  <2>1. q[j] < q[k] /\ q[j + 1] < q[k + 1] /\ q[j] < q[k + 1]
    BY <1>1, <1>2, <1>3, <1>4 DEF Ascending
  <2>2. (j < x /\ k < x) \/ (j < x /\ ~(k < x)) \/ (~(j < x) /\ ~(k < x))
    BY <1>1, <1>2, <1>4
  <2> QED
    BY <1>2, <2>1, <2>2
<1>5. Ascending(w, last)
  BY <1>3, <1>4 DEF Ascending
<1>6. ASSUME NEW v \in Nat, NEW k \in Nat, NotAfter(v, q, k), NEW j \in DOMAIN w, k < j
      PROVE  v <= w[j]
  <2>1. v <= q[j] /\ v <= q[j + 1]
    BY <1>1, <1>2, <1>3, <1>6 DEF NotAfter
  <2> QED
    BY <1>3, <2>1
<1>7. \A v \in Nat, k \in Nat : NotAfter(v, q, k) => NotAfter(v, w, k)
  BY <1>6 DEF NotAfter
<1> QED
  BY <1>5, <1>7 DEF w

(* The machine keeps the starting order, and what the row has read.        *)
LEMMA MachineKeepsForwardInv ==
  ASSUME TypeOK, ForwardInv, Machine
  PROVE  ForwardInv'
<1>1. UNCHANGED <<call, i, frame>>
  BY DEF Machine, system, main, row
<1>2. /\ insts \in [Name -> Seq(Process)] /\ started \in Process
      /\ call.name \in Name /\ call.ins \in Nat /\ i \in Nat
  BY DEF TypeOK, Call
<1>3. Seq(Process) \subseteq Seq(Nat) /\ started \in Nat
  BY <1>2, Processes, SeqMonotonic
<1>4. SUFFICES /\ \A n \in Name : Ascending(insts'[n], started') /\ started <= started'
               /\ \A v \in Nat, n \in Name, k \in Nat :
                      v <= started /\ NotAfter(v, insts[n], k) => NotAfter(v, insts'[n], k)
  <2>1. ASSUME NEW s \in Slot, frame[s] \in Process, i > 0,
               started' \in Nat, started <= started',
               \A v \in Nat, n \in Name, k \in Nat :
                   v <= started /\ NotAfter(v, insts[n], k) => NotAfter(v, insts'[n], k)
        PROVE  /\ s < i /\ frame[s] <= started'
               /\ NotAfter(frame[s], insts'[call.name], call.ins)
    <3>1. s < i /\ frame[s] <= started /\ frame[s] \in Nat
          /\ NotAfter(frame[s], insts[call.name], call.ins)
      BY <2>1, Processes DEF ForwardInv
    <3> QED
      BY <2>1, <3>1, <1>2, <1>3
  <2>2. started' \in Nat
    BY MachineType, Processes DEF TypeOK
  <2> QED
    BY <1>1, <2>1, <2>2 DEF ForwardInv, RowMovesForward, NotAfter
<1>5. CASE \E n \in Name : Start(n)
  <2>1. PICK n \in Name : Start(n)
    BY <1>5
  <2>2. insts' = [insts EXCEPT ![n] = Append(@, started + 1)] /\ started' = started + 1
    BY <2>1 DEF Start
  <2>3. \A m \in Name : Ascending(insts[m], started + 1)
    BY <1>2, <1>3 DEF ForwardInv, Ascending
  <2>4. insts'[n] = Append(insts[n], started + 1) /\ \A m \in Name \ {n} : insts'[m] = insts[m]
    BY <2>2, <1>2
  <2>5. insts[n] \in Seq(Nat) /\ Ascending(insts[n], started)
    BY <1>2, <1>3 DEF ForwardInv
  <2>6. /\ Ascending(insts'[n], started + 1)
        /\ \A v \in Nat, k \in Nat :
               v <= started /\ NotAfter(v, insts[n], k) => NotAfter(v, insts'[n], k)
    BY <2>4, <2>5, <1>3, AppendAscends
  <2> QED
    BY <2>2, <2>3, <2>4, <2>6, <1>3
<1>6. CASE \E n \in Name : \E x \in DOMAIN insts[n] : Exit(n, x)
  <2>1. PICK n \in Name : \E x \in DOMAIN insts[n] : Exit(n, x)
    BY <1>6
  <2>2. PICK x \in DOMAIN insts[n] : Exit(n, x)
    BY <2>1
  <2>3. insts' = [insts EXCEPT ![n] = Without(@, x)] /\ started' = started
    BY <2>2 DEF Exit
  <2>4. insts'[n] = Without(insts[n], x) /\ \A m \in Name \ {n} : insts'[m] = insts[m]
    BY <2>3, <1>2
  <2>5. insts[n] \in Seq(Nat) /\ \A m \in Name : Ascending(insts[m], started)
    BY <1>2, <1>3 DEF ForwardInv
  <2>6. /\ Ascending(insts'[n], started)
        /\ \A v \in Nat, k \in Nat : NotAfter(v, insts[n], k) => NotAfter(v, insts'[n], k)
    BY <2>4, <2>5, <1>3, WithoutAscends
  <2> QED
    BY <2>3, <2>4, <2>5, <2>6, <1>3
<1> QED
  BY <1>5, <1>6 DEF Machine

(* A value read is of the first instance that is still meant, and so of no *)
(* older process than the values before it.                                *)
LEMMA ProgramKeepsForwardInv ==
  ASSUME TypeOK, ForwardInv, Program
  PROVE  ForwardInv'
<1> USE DEF machine, system, main, row
<1>1. UNCHANGED <<insts, started>>
  BY DEF Program, GetSystemCounters, SystemFirst, SystemSleep, SystemSecond, SystemDivides,
         SystemUpTime, enumObjIns, GetProcessCountersEnds, EnumerateSelf, GetProcessCounters, Begin, getCounter, EndCall
<1>2. CASE GetSystemCounters \/ enumObjIns \/ GetProcessCountersEnds
  <2>1. UNCHANGED <<i, frame, call>>
    BY <1>2 DEF GetSystemCounters, SystemFirst, SystemSleep, SystemSecond, SystemDivides,
                SystemUpTime, enumObjIns, GetProcessCountersEnds
  <2> QED
    BY <1>1, <2>1 DEF ForwardInv, RowMovesForward, NotAfter
<1>3. ASSUME NEW n \in Name, NEW k \in 0..1, Begin(n, k)
      PROVE  ForwardInv'
  <2>1. \A s \in Slot : frame'[s] \notin Process
    BY <1>3, Processes DEF Begin, NoFrame, Process
  <2> QED
    BY <1>1, <2>1 DEF ForwardInv, RowMovesForward
<1>4. CASE EnumerateSelf
  BY <1>4, <1>3 DEF EnumerateSelf
<1>5. CASE GetProcessCounters
  BY <1>5, <1>3 DEF GetProcessCounters
<1>6. CASE getCounter
  <2> DEFINE n == call.name
             c == call.ins
             v == Instance(n, c)
  <2>1. /\ i \in Slot /\ i > 0 /\ i' = i + 1 /\ call' = call /\ frame \in [Slot -> Value]
        /\ n \in Name /\ c \in Nat /\ insts \in [Name -> Seq(Process)] /\ started \in Nat
    BY <1>6, Slots, Processes DEF getCounter, TypeOK, Call
  <2>2. \A s \in Slot : s # i => frame'[s] = frame[s]
    BY <1>6, <2>1 DEF getCounter
  <2>3. frame'[i] \in Process =>
            \/ frame'[i] = v /\ c < Len(insts[n]) /\ v = insts[n][c + 1]
            \/ frame'[i] = frame[i]
    BY <1>6, <2>1, InstanceType, Processes DEF getCounter
  <2>4. frame[i] \notin Process
    BY <2>1, Slots DEF ForwardInv
  <2>5. \A j \in DOMAIN insts[n] : insts[n][j] \in Nat /\ insts[n][j] <= started
    <3>1. insts[n] \in Seq(Process) /\ DOMAIN insts[n] = 1..Len(insts[n])
      BY <2>1
    <3>2. \A j \in DOMAIN insts[n] : insts[n][j] \in Process
      BY <3>1, ElementOfSeq
    <3> QED
      BY <2>1, <3>2, Processes DEF ForwardInv, Ascending
  <2>6. frame'[i] \in Process =>
            frame'[i] <= started /\ NotAfter(frame'[i], insts[n], c)
    <3> SUFFICES ASSUME frame'[i] \in Process
                 PROVE  frame'[i] <= started /\ NotAfter(frame'[i], insts[n], c)
      OBVIOUS
    <3>1. frame'[i] = insts[n][c + 1] /\ c + 1 \in DOMAIN insts[n]
      BY <2>1, <2>3, <2>4
    <3>2. \A j \in DOMAIN insts[n] : j \in Nat /\ (c + 1 < j => insts[n][c + 1] < insts[n][j])
      BY <2>1, <3>1 DEF ForwardInv, Ascending
    <3>3. ASSUME NEW j \in DOMAIN insts[n], c < j
          PROVE  insts[n][c + 1] <= insts[n][j]
      <4>1. j \in Nat /\ (j = c + 1 \/ c + 1 < j)
        BY <2>1, <3>2, <3>3
      <4>2. insts[n][c + 1] \in Nat /\ insts[n][j] \in Nat
        BY <2>5, <3>1
      <4> QED
        BY <3>2, <4>1, <4>2
    <3> QED
      BY <2>5, <3>1, <3>3 DEF NotAfter
  <2>7. ASSUME NEW s \in Slot, frame'[s] \in Process
        PROVE  s < i' /\ frame'[s] <= started /\ NotAfter(frame'[s], insts[n], c)
    <3>1. CASE s = i
      BY <2>1, <2>6, <2>7, <3>1, Slots
    <3>2. CASE s # i
      BY <2>1, <2>2, <2>7, <3>2, Slots DEF ForwardInv
    <3> QED
      BY <3>1, <3>2
  <2>8. ASSUME NEW s \in Slot, NEW t \in Slot, s < t,
               frame'[s] \in Process, frame'[t] \in Process
        PROVE  frame'[s] <= frame'[t]
    <3>1. s < i /\ frame'[s] = frame[s]
      BY <2>1, <2>2, <2>7, <2>8, Slots
    <3>2. CASE t = i
      <4>1. frame'[t] = insts[n][c + 1] /\ c + 1 \in DOMAIN insts[n] /\ c < c + 1
        BY <2>1, <2>3, <2>4, <2>8, <3>2
      <4>2. NotAfter(frame[s], insts[n], c)
        BY <2>1, <2>8, <3>1 DEF ForwardInv
      <4> QED
        BY <3>1, <4>1, <4>2 DEF NotAfter
    <3>3. CASE t # i
      BY <2>1, <2>2, <2>8, <3>1, <3>3 DEF ForwardInv, RowMovesForward
    <3> QED
      BY <3>2, <3>3
  <2>9. RowMovesForward'
    BY <2>8 DEF RowMovesForward
  <2>10. \A m \in Name : Ascending(insts[m], started)
    BY DEF ForwardInv
  <2> QED
    BY <1>1, <2>1, <2>7, <2>9, <2>10 DEF ForwardInv
<1>7. CASE EndCall
  <2>1. i' = 0
    BY <1>7 DEF EndCall
  <2> QED
    BY <1>1, <2>1 DEF ForwardInv, RowMovesForward
<1> QED
  BY <1>2, <1>4, <1>5, <1>6, <1>7 DEF Program

(* A row never goes back to an older process, whatever exits under it.     *)
THEOREM RowsMoveForward == Spec => []RowMovesForward
<1>1. Init => ForwardInv
  <2> SUFFICES ASSUME Init PROVE ForwardInv
    OBVIOUS
  <2>1. \A n \in Name : insts[n] \in Increasing(started)
    BY DEF Init, Before
  <2>2. \A q \in Increasing(started) : Ascending(q, started)
    BY Processes DEF Init, Increasing, Ascending
  <2> QED
    BY <2>1, <2>2 DEF Init, ForwardInv, RowMovesForward
<1>2. TypeOK /\ ForwardInv /\ [Next]_vars => ForwardInv'
  <2>1. ASSUME ForwardInv, UNCHANGED vars
        PROVE  ForwardInv'
    BY <2>1 DEF ForwardInv, RowMovesForward, NotAfter, Ascending, vars, machine, system, main, row
  <2> QED
    BY <2>1, MachineKeepsForwardInv, ProgramKeepsForwardInv DEF Next, Terminating
<1>3. ForwardInv => RowMovesForward
  BY DEF ForwardInv
<1> QED
  BY TypeCorrect, <1>1, <1>2, <1>3, PTL DEF Spec
-----------------------------------------------------------------------------
(* The rows made so far are what the report promises, ...                  *)
Fits == \A r \in DOMAIN rows :
            /\ Suits(rows[r])
            /\ r < Len(rows) => mapIns[rows[r].name] > 1
            /\ \A n \in Name : n < rows[r].name /\ mapIns[n] > 0 =>
                   \E q \in 1..(r - 1) : rows[q].name = n

(* ... and either the last of them was of a single instance, ...           *)
Single == \E r \in DOMAIN rows : mapIns[rows[r].name] = 1

(* ... or none was, and no name before the next one is left out.           *)
AllSeveral == \A r \in DOMAIN rows : mapIns[rows[r].name] > 1

Covered(m) == \A n \in Name : n < m /\ mapIns[n] > 0 => \E q \in DOMAIN rows : rows[q].name = n

PrefixInv ==
    /\ pc \notin {"self", "loop", "again"} => i = 0
    /\ pc \in {"first", "sleep", "second", "divide", "up", "ins", "self"} =>
           rows = << >> /\ it = 1
    /\ pc \in {"loop", "again"} => Fits
    /\ pc = "again" => Single \/ Covered(Names + 1)
    /\ pc = "loop" /\ i = 0 =>
         (it = Names + 1 /\ Single) \/ (AllSeveral /\ Covered(it))
    /\ pc = "loop" /\ i > 0 =>
         /\ AllSeveral /\ Covered(call.name) /\ Suits(call)
         /\ \/ mapIns[call.name] = 1 /\ it = Names + 1
            \/ mapIns[call.name] > 1 /\ it = call.name + 1

(* The row of a call follows the rows there are.                           *)
LEMMA RowIsNext ==
  ASSUME TypeOK, Fits, AllSeveral, Covered(call.name), Suits(call),
         rows' = Append(rows, call), mapIns' = mapIns
  PROVE  /\ Fits'
         /\ mapIns[call.name] = 1 => Single'
         /\ mapIns[call.name] > 1 =>
              AllSeveral' /\ \A m : m = call.name + 1 => Covered(m)'
<1>1. PICK l \in Nat :
        /\ l = Len(rows) /\ DOMAIN rows = 1..l
        /\ DOMAIN rows' = 1..(l + 1) /\ Len(rows') = l + 1
        /\ \A r \in 1..l : rows'[r] = rows[r]
        /\ rows'[l + 1] = call /\ call.name \in Name
  <2>1. rows \in Seq(Call) /\ call \in Call /\ call.name \in Name
    BY DEF TypeOK, Call
  <2> HIDE DEF Call
  <2>2. /\ Len(rows) \in Nat /\ DOMAIN rows = 1..Len(rows)
        /\ DOMAIN rows' = 1..(Len(rows) + 1) /\ Len(rows') = Len(rows) + 1
        /\ \A r \in 1..Len(rows) : rows'[r] = rows[r]
        /\ rows'[Len(rows) + 1] = call
    BY <2>1
  <2> QED
    BY <2>1, <2>2
<1>2. \A r \in 1..l : mapIns[rows[r].name] > 1
  BY <1>1 DEF AllSeveral
<1>3. \A n \in Name : n < call.name /\ mapIns[n] > 0 => \E q \in 1..l : rows'[q].name = n
  BY <1>1 DEF Covered
<1>4. \A r \in 1..(l + 1) :
          r \in 1..l \/ (r = l + 1 /\ ~(r < l + 1) /\ 1..(r - 1) = 1..l)
  BY <1>1
<1>5. Fits'
  <2>0. \A c : Suits(c)' <=> Suits(c)
    BY DEF Suits
  <2> SUFFICES ASSUME NEW r \in 1..(l + 1)
               PROVE  /\ Suits(rows'[r])
                      /\ r < l + 1 => mapIns[rows'[r].name] > 1
                      /\ \A n \in Name : n < rows'[r].name /\ mapIns[n] > 0 =>
                             \E q \in 1..(r - 1) : rows'[q].name = n
    BY <1>1, <2>0 DEF Fits, Suits
  <2>1. CASE r \in 1..l
    <3>1. /\ Suits(rows[r])
          /\ \A n \in Name : n < rows[r].name /\ mapIns[n] > 0 =>
                \E q \in 1..(r - 1) : rows[q].name = n
      BY <1>1, <2>1 DEF Fits
    <3>2. 1..(r - 1) \subseteq 1..l
      BY <1>1, <2>1
    <3> QED
      BY <1>1, <1>2, <2>1, <3>1, <3>2
  <2>2. CASE r = l + 1 /\ ~(r < l + 1) /\ 1..(r - 1) = 1..l
    BY <1>1, <1>3, <2>2
  <2> QED
    BY <1>4, <2>1, <2>2
<1>6. ASSUME mapIns[call.name] > 1
      PROVE  AllSeveral' /\ \A m : m = call.name + 1 => Covered(m)'
  <2>1. \A r \in 1..(l + 1) : mapIns[rows'[r].name] > 1
    BY <1>1, <1>2, <1>4, <1>6
  <2>2. ASSUME NEW n \in Name, n < call.name + 1, mapIns[n] > 0
        PROVE  \E q \in 1..(l + 1) : rows'[q].name = n
    <3>1. n < call.name \/ n = call.name
      BY <1>1, <2>2, Processes
    <3>2. 1..l \subseteq 1..(l + 1) /\ l + 1 \in 1..(l + 1)
      BY <1>1
    <3> QED
      BY <1>1, <1>3, <2>2, <3>1, <3>2
  <2> QED
    BY <1>1, <2>1, <2>2 DEF AllSeveral, Covered
<1>7. mapIns[call.name] = 1 => Single'
  <2>1. l + 1 \in DOMAIN rows' /\ rows'[l + 1] = call
    BY <1>1
  <2> QED
    BY <2>1 DEF Single
<1> QED
  BY <1>5, <1>6, <1>7

(* The step of the loop, the rows it may make and its end.                 *)
LEMMA ProgramKeepsPrefixInv ==
  ASSUME TypeOK, PrefixInv, Program
  PROVE  PrefixInv'
<1> USE DEF machine, system, main, row
<1>1. CASE GetSystemCounters \/ enumObjIns
  <2>1. /\ pc \in {"first", "sleep", "second", "divide", "up", "ins"}
        /\ pc' \in {"sleep", "second", "divide", "up", "ins", "self", "systemCrash"}
        /\ UNCHANGED <<rows, it, i>>
    BY <1>1 DEF GetSystemCounters, SystemFirst, SystemSleep, SystemSecond, SystemDivides,
                SystemUpTime, enumObjIns
  <2>2. rows = << >> /\ it = 1 /\ i = 0
    BY <2>1 DEF PrefixInv
  <2> QED
    BY <2>1, <2>2 DEF PrefixInv
<1>2. CASE EnumerateSelf
  <2>1. pc \in {"self", "again"} /\ UNCHANGED <<pc, it, rows, mapIns>>
    BY <1>2 DEF EnumerateSelf, Begin
  <2> QED
    BY <2>1 DEF PrefixInv, Fits, Suits, Single, Covered
<1>3. CASE GetProcessCounters
  <2>1. PICK n \in Name :
          /\ NextName(n)
          /\ \/ mapIns[n] > 1 /\ Begin(n, 1) /\ it' = n + 1
             \/ ~(mapIns[n] > 1) /\ Begin(n, 0) /\ it' = Names + 1
    BY <1>3 DEF GetProcessCounters
  <2>2. /\ pc = "loop" /\ i = 0 /\ pc' = pc /\ i' = 1
        /\ call'.name = n /\ UNCHANGED <<rows, mapIns>>
    BY <1>3, <2>1 DEF GetProcessCounters, Begin
  <2>3. /\ it <= Names /\ it \in Nat /\ n \in Nat /\ it <= n
        /\ \A m \in it..(n - 1) : mapIns[m] = 0
        /\ mapIns[n] > 0 /\ mapIns[n] \in Nat
    BY <2>1, Processes DEF NextName, TypeOK
  <2>4. Fits /\ AllSeveral /\ Covered(it)
    BY <2>2, <2>3 DEF PrefixInv
  <2>5. ASSUME NEW m \in Name, m < n, mapIns[m] > 0
        PROVE  \E q \in DOMAIN rows : rows[q].name = m
    <3>1. m < it
      BY <2>3, <2>5, Processes
    <3> QED
      BY <2>4, <2>5, <3>1 DEF Covered
  <2>6. Covered(n)'
    BY <2>2, <2>5 DEF Covered
  <2>7. \/ mapIns[n] = 1 /\ it' = Names + 1 /\ call'.ins = 0
        \/ mapIns[n] > 1 /\ it' = n + 1 /\ call'.ins = 1
    BY <2>1, <2>3 DEF Begin
  <2>8. Suits(call)'
    BY <2>2, <2>3, <2>7 DEF Suits
  <2>9. Fits' /\ AllSeveral'
    BY <2>2, <2>4 DEF Fits, Suits, AllSeveral
  <2>10. Covered(call.name)'
    BY <2>2, <2>6 DEF Covered
  <2> QED
    BY <2>2, <2>7, <2>8, <2>9, <2>10 DEF PrefixInv
<1>4. CASE GetProcessCountersEnds
  <2>1. /\ pc = "loop" /\ pc' = "again" /\ i = 0 /\ UNCHANGED <<i, it, rows, mapIns>>
        /\ \A n \in it..Names : mapIns[n] = 0
    BY <1>4 DEF GetProcessCountersEnds
  <2>2. Fits' /\ (Single => Single')
    BY <2>1 DEF PrefixInv, Fits, Suits, Single
  <2>3. ASSUME Covered(it)
        PROVE  Covered(Names + 1)'
    <3>1. ASSUME NEW n \in Name, mapIns[n] > 0
          PROVE  \E q \in DOMAIN rows : rows[q].name = n
      <4>1. n < it
        BY <2>1, <3>1 DEF Name, TypeOK
      <4> QED
        BY <2>3, <3>1, <4>1 DEF Covered
    <3> QED
      BY <2>1, <3>1 DEF Covered
  <2>4. Single \/ Covered(it)
    BY <2>1 DEF PrefixInv
  <2> QED
    BY <2>1, <2>2, <2>3, <2>4 DEF PrefixInv
<1>5. CASE getCounter
  <2>1. UNCHANGED <<pc, rows, mapIns, it, call>> /\ i > 0 /\ i' > 0
    BY <1>5, Slots DEF getCounter
  <2> QED
    BY <2>1 DEF PrefixInv, Fits, Suits, Single, AllSeveral, Covered
<1>6. CASE EndCall
  <2>1. i > 0 /\ i' = 0 /\ UNCHANGED <<mapIns, it, call>>
    BY <1>6, Slots DEF EndCall
  <2>0. pc' \in {"loop", "done", "rowCrash"}
    BY <1>6 DEF EndCall
  <2>2. CASE pc' # "loop"
    BY <2>0, <2>1, <2>2 DEF PrefixInv
  <2>3. CASE pc = "loop" /\ pc' = "loop"
    <3>1. /\ rows' = Append(rows, call) /\ Fits /\ AllSeveral
          /\ Covered(call.name) /\ Suits(call)
      BY <1>6, <2>1, <2>3 DEF EndCall, PrefixInv
    <3>2. \/ mapIns[call.name] = 1 /\ it = Names + 1
          \/ mapIns[call.name] > 1 /\ it = call.name + 1
      BY <2>1, <2>3 DEF PrefixInv
    <3>3. /\ Fits'
          /\ mapIns[call.name] = 1 => Single'
          /\ mapIns[call.name] > 1 =>
               AllSeveral' /\ \A m : m = call.name + 1 => Covered(m)'
      BY <2>1, <3>1, RowIsNext
    <3>4. (it = Names + 1 /\ Single') \/ (AllSeveral' /\ Covered(it)')
      BY <2>1, <3>2, <3>3
    <3> QED
      BY <2>1, <2>3, <3>3, <3>4 DEF PrefixInv
  <2>4. CASE pc # "loop" /\ pc' = "loop"
    <3>1. pc = "self" /\ rows' = rows
      BY <1>6, <2>1, <2>4 DEF EndCall, PrefixInv
    <3>2. rows' = << >> /\ it' = 1
      BY <2>1, <3>1 DEF PrefixInv
    <3> QED
      BY <2>1, <2>4, <3>2, Processes DEF PrefixInv, Fits, AllSeveral, Covered, Name
  <2> QED
    BY <2>2, <2>3, <2>4
<1> QED
  BY <1>1, <1>2, <1>3, <1>4, <1>5, <1>6 DEF Program

(* What GetProcessCounters reports when it ends is a first part of the     *)
(* names that were enumerated, each asked for by a name that meant one of  *)
(* its processes then: it leaves out no name before one it has a row of,   *)
(* and stops before the last one only at a name with a single instance.    *)
THEOREM ReportPrefix == Spec => []ReportIsPrefix
<1>1. Init => PrefixInv
  BY DEF Init, PrefixInv
<1>2. TypeOK /\ PrefixInv /\ [Next]_vars => PrefixInv'
  <2>1. ASSUME PrefixInv, UNCHANGED <<main, i, call>>
        PROVE  PrefixInv'
    BY <2>1 DEF PrefixInv, Fits, Suits, Single, AllSeveral, Covered, main
  <2> QED
    BY <2>1, ProgramKeepsPrefixInv DEF Next, Terminating, Machine, vars, row
<1>3. PrefixInv => ReportIsPrefix
  <2> SUFFICES ASSUME PrefixInv, pc = "again"
               PROVE  Fits /\ (Single \/ \A n \in Name : mapIns[n] > 0 =>
                                   \E r \in DOMAIN rows : rows[r].name = n)
    BY DEF ReportIsPrefix, Fits, Single
  <2>1. \A n \in Name : n < Names + 1
    BY DEF Name
  <2> QED
    BY <2>1 DEF PrefixInv, Covered
<1> QED
  BY TypeCorrect, <1>1, <1>2, <1>3, PTL DEF Spec
=============================================================================
