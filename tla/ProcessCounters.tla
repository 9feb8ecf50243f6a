-------------------------- MODULE ProcessCounters --------------------------
(***************************************************************************)
(* pdhProcessEnumerator::Enumerate, the one enumerator that main runs: it  *)
(* lists the instances of the performance object "Process", and then reads *)
(* the counters of some of them, each counter by a name such as            *)
(* \Process(explorer#1)\Thread Count, each read at a time of its own,      *)
(* while processes start and exit.                                         *)
(*                                                                         *)
(* A name says which process is meant only at the moment it is looked up:  *)
(* explorer#1 is the second explorer there is.  And a read that fails      *)
(* leaves its result, a variable of the stack, as it was, whether          *)
(* getCounter says so or not: it tests two of the calls it makes.          *)
(*                                                                         *)
(* A counter's value is abstracted to the process it was read from, and    *)
(* the sample of a counter of the system to the time it was taken at.  One *)
(* of the seven counters of the system stands for them all.                *)
(***************************************************************************)
EXTENDS Naturals, Sequences

CONSTANTS
    Names,          \* process names are 1..Names, in the order of a std::map
    Self,           \* the name of this program
    Me,             \* its process
    MemoryCounters, \* counters read once
    TimeCounters,   \* counters read twice
    MaxProcess,     \* bound: processes there ever are
    MaxChanges,     \* bound: starts and exits under an Enumerate
    Zero,           \* what a counter without an instance reads as
    Garbage,        \* what is on the stack
    Untyped         \* what is on the stack, under a type that has been set to 0

Name == 1..Names
Process == 1..MaxProcess
Slot == 1..(MemoryCounters + 2 * TimeCounters)
Value == Process \cup {Zero, Garbage, Untyped}
None == 0

ASSUME NameAssumption == Names \in Nat /\ Self \in Name
ASSUME ProcessAssumption == MaxProcess \in Nat /\ Me \in Process
ASSUME CounterAssumption == MemoryCounters \in Nat /\ TimeCounters \in Nat \ {0}
ASSUME ChangesAssumption == MaxChanges \in Nat
ASSUME ValueAssumption ==
    /\ Zero \notin Nat /\ Garbage \notin Nat /\ Untyped \notin Nat
    /\ Zero # Garbage /\ Untyped # Zero /\ Untyped # Garbage

VARIABLES
    insts,      \* insts[n]: the processes named n, in the order of the instances
    changes,    \* starts and exits so far
    started,    \* the last process that started
    clock,      \* the seconds since GetSystemCounters was called
    sample,     \* its arrays counter1 and counter2, and the sample of the up time
    pc,         \* where Enumerate is
    mapIns,     \* the number of instances of each name, as enumerated
    it,         \* the iterator over mapIns
    call,       \* the arguments of GetProcessMemoryCounters
    i,          \* the slot it reads next; 0: it is not running
    frame,      \* its arrays counter, counter1 and counter2, end to end
    rows,       \* the calls whose rows are in processCounters.xml
    target,     \* history: the process the name meant when the call began
    disturbed,  \* history: a process at or before that instance has exited
    refused     \* history: the slots of the row that getCounter returned FALSE for

machine == <<insts, changes, started>>
system == <<clock, sample>>
main == <<pc, mapIns, it, rows>>
row == <<call, i, frame, target, refused>>
vars == <<machine, system, main, row, disturbed>>

(* What is in the arrays of a function before it writes to them; they are  *)
(* gone when it returns.                                                   *)
NoSample == [s \in {"first", "second", "up"} |-> Garbage]
NoFrame == [s \in Slot |-> Garbage]

LastSlot == MemoryCounters + 2 * TimeCounters
Call == [name : Name, ins : 0..1]
Label == {"first", "sleep", "second", "divide", "up",
          "ins", "self", "loop", "again", "done", "systemCrash", "rowCrash"}

TypeOK ==
    /\ insts \in [Name -> Seq(Process)]
    /\ changes \in 0..MaxChanges
    /\ started \in Process
    /\ clock \in Nat
    /\ sample \in [{"first", "second", "up"} -> Nat \cup {Garbage, Untyped}]
    /\ pc \in Label
    /\ mapIns \in [Name -> Nat]
    /\ it \in 1..(Names + 1)
    /\ call \in Call
    /\ i \in 0..(LastSlot + 1)
    /\ frame \in [Slot -> Value]
    /\ rows \in Seq(Call)
    /\ target \in Process \cup {None}
    /\ disturbed \in BOOLEAN
    /\ refused \subseteq Slot

-----------------------------------------------------------------------------
(* The machine.                                                            *)

(* The process that instance k of the name n means, counting from 0, or    *)
(* None.                                                                   *)
Instance(n, k) == IF k < Len(insts[n]) THEN insts[n][k + 1] ELSE None

Without(s, k) == [j \in 1..(Len(s) - 1) |-> IF j < k THEN s[j] ELSE s[j + 1]]

(* A new process is the last of its instances.                             *)
Start(n) ==
    /\ changes < MaxChanges /\ started < MaxProcess
    /\ insts' = [insts EXCEPT ![n] = Append(@, started + 1)]
    /\ started' = started + 1
    /\ changes' = changes + 1
    /\ UNCHANGED disturbed

(* The instances after one that exits move up.                             *)
Exit(n, k) ==
    /\ changes < MaxChanges
    /\ insts[n][k] # Me
    /\ insts' = [insts EXCEPT ![n] = Without(@, k)]
    /\ disturbed' = IF i # 0 /\ n = call.name /\ k <= call.ins + 1 THEN TRUE ELSE disturbed
    /\ changes' = changes + 1
    /\ UNCHANGED started

Machine ==
    /\ \E n \in Name : Start(n) \/ \E k \in DOMAIN insts[n] : Exit(n, k)
    /\ UNCHANGED <<system, main, row>>

(* The processes there are when Enumerate is called, in starting order.    *)
Has(s, p) == \E k \in DOMAIN s : s[k] = p

Increasing(m) ==
    {s \in UNION {[1..l -> 1..m] : l \in 0..m} :
        \A j, k \in DOMAIN s : j < k => s[j] < s[k]}

Before(m) ==
    {f \in [Name -> Increasing(m)] :
        /\ Has(f[Self], Me)
        /\ \A p \in 1..m : \E n \in Name :
               Has(f[n], p) /\ \A o \in Name \ {n} : ~Has(f[o], p)}

Init ==
    /\ started \in Process
    /\ insts \in Before(started)
    /\ changes = 0
    /\ clock = 0
    /\ sample = NoSample
    /\ pc = "first"
    /\ mapIns = [n \in Name |-> 0]
    /\ it = 1
    /\ call = [name |-> Self, ins |-> 0]
    /\ i = 0
    /\ frame = NoFrame
    /\ rows = << >>
    /\ target = None
    /\ disturbed = FALSE
    /\ refused = {}

-----------------------------------------------------------------------------
(* getCounter reads nothing when a call of PDH fails.  When it is one of   *)
(* the two whose result is tested, it returns FALSE and sets nothing.      *)
(* When it is a later one, it returns TRUE, and the value is not set       *)
(* either; but the form of it that is given a type has set that to 0.      *)
Unread(typed) == IF typed THEN {Garbage, Untyped} ELSE {Garbage}

(* GetSystemCounters: two samples of every counter, and a second between   *)
(* them.                                                                   *)
SystemFirst ==
    /\ pc = "first" /\ pc' = "sleep"
    /\ \E s \in {clock} \cup Unread(TRUE) : sample' = [sample EXCEPT !["first"] = s]
    /\ UNCHANGED <<machine, clock, mapIns, it, rows, row, disturbed>>

SystemSleep ==
    /\ pc = "sleep" /\ pc' = "second"
    /\ clock' = clock + 1
    /\ UNCHANGED <<machine, sample, mapIns, it, rows, row, disturbed>>

SystemSecond ==
    /\ pc = "second" /\ pc' = "divide"
    /\ \E s \in {clock} \cup Unread(FALSE) : sample' = [sample EXCEPT !["second"] = s]
    /\ UNCHANGED <<machine, clock, mapIns, it, rows, row, disturbed>>

(* Nothing guards the division by the difference of the two times.  The    *)
(* time of a sample that was not read may be any, the other's too.         *)
MayBeEqual(first, second) == first = second \/ {first, second} \cap Unread(TRUE) # {}

Differ(first, second) == first # second \/ {first, second} \cap Unread(TRUE) # {}

SystemDivides ==
    /\ pc = "divide"
    /\ \/ Differ(sample.first, sample.second) /\ pc' = "up"
       \/ MayBeEqual(sample.first, sample.second) /\ pc' = "systemCrash"
    /\ UNCHANGED <<machine, system, mapIns, it, rows, row, disturbed>>

(* getCounterValue divides by zero: never by the difference of two times,  *)
(* which it tests; but the type of a first sample getCounter returned      *)
(* FALSE for is chance, and some types divide by a time base nobody has    *)
(* set.  The type 0 divides by nothing.                                    *)
DividesByZero(first) == first = Garbage

(* The up time is formatted from one sample.                               *)
SystemUpTime ==
    /\ pc = "up"
    /\ \E s \in {clock} \cup Unread(TRUE) :
        \/ sample' = NoSample /\ pc' = "ins"
        \/ /\ DividesByZero(s)
           /\ sample' = [sample EXCEPT !["up"] = s] /\ pc' = "systemCrash"
    /\ UNCHANGED <<machine, clock, mapIns, it, rows, row, disturbed>>

GetSystemCounters ==
    SystemFirst \/ SystemSleep \/ SystemSecond \/ SystemDivides \/ SystemUpTime

(* enumObjIns: the names of the instances are counted; when the list has   *)
(* outgrown its buffers between the two calls there are none.              *)
enumObjIns ==
    /\ pc = "ins" /\ pc' = "self"
    /\ mapIns' \in {[n \in Name |-> Len(insts[n])], [n \in Name |-> 0]}
    /\ UNCHANGED <<machine, system, it, rows, row, disturbed>>

-----------------------------------------------------------------------------
(* GetProcessMemoryCounters.  The call begins: its arrays are whatever the *)
(* stack holds, the values of an earlier call among them.                  *)
Begin(n, k) ==
    /\ i = 0 /\ i' = 1
    /\ call' = [name |-> n, ins |-> k]
    /\ frame' = NoFrame
    /\ target' = Instance(n, k)
    /\ disturbed' = FALSE
    /\ refused' = {}
    /\ UNCHANGED <<machine, system, rows, mapIns>>

(* The slots that are given a type: of the others getCounterValue is not   *)
(* asked, or is told the type of the first sample.                         *)
Typed(s) == s \in (MemoryCounters + 1)..(MemoryCounters + TimeCounters)

(* Seeded faults: the second sample is read without the number of the      *)
(* instance; the loop over the counters goes one too far.                  *)
getCounterFirst ==
    /\ i \in Slot
    /\ LET k == IF i > MemoryCounters + TimeCounters THEN 0 ELSE call.ins
       IN  IF Instance(call.name, k) # None
           THEN frame' = [frame EXCEPT ![i] = Instance(call.name, k)]
           ELSE frame' = [frame EXCEPT ![i] = Zero]
    /\ i' = i + 1
    /\ UNCHANGED <<machine, system, main, call, target, disturbed, refused>>

getCounterPastEnd ==
    /\ i \in 1..(LastSlot + 1)
    /\ IF i \in Slot THEN frame' = [frame EXCEPT ![i] = Zero] ELSE UNCHANGED frame
    /\ i' = i + 1
    /\ UNCHANGED <<machine, system, main, call, target, disturbed, refused>>

(* Seeded faults: a read without an instance is tried again; the type is   *)
(* set only with the value.                                                *)
getCounterRetry ==
    /\ i \in Slot
    /\ IF Instance(call.name, call.ins) # None
       THEN frame' = [frame EXCEPT ![i] = Instance(call.name, call.ins)] /\ i' = i + 1
       ELSE frame' = [frame EXCEPT ![i] = Zero] /\ UNCHANGED i
    /\ UNCHANGED <<machine, system, main, call, target, disturbed, refused>>

getCounterUntyped ==
    /\ i \in Slot
    /\ \/ frame' = [frame EXCEPT ![i] = IF Instance(call.name, call.ins) # None
                                         THEN Instance(call.name, call.ins) ELSE Zero]
       \/ UNCHANGED frame
    /\ i' = i + 1
    /\ UNCHANGED <<machine, system, main, call, target, disturbed, refused>>

(* getCounter: the name is looked up and the value read.  A name without   *)
(* an instance may be accepted, and reads as Zero.                         *)
getCounter ==
    /\ i \in Slot
    /\ \/ /\ Instance(call.name, call.ins) # None
          /\ frame' = [frame EXCEPT ![i] = Instance(call.name, call.ins)]
          /\ UNCHANGED refused
       \/ /\ Instance(call.name, call.ins) = None
          /\ frame' = [frame EXCEPT ![i] = Zero]
          /\ UNCHANGED refused
       \/ /\ refused' = refused \cup {i}
          /\ UNCHANGED frame
       \/ /\ frame' = [frame EXCEPT ![i] = IF Typed(i) THEN Untyped ELSE @]
          /\ UNCHANGED refused
    /\ i' = i + 1
    /\ UNCHANGED <<machine, system, main, call, target, disturbed>>

FirstSample(t) == frame[MemoryCounters + t]

(* The end of the call: the values are formatted, and the row is linked to *)
(* root: the root of processCounters.xml in the loop, that of objins.xml   *)
(* before it, and NULL after it.                                           *)
EndCall ==
    /\ i = LastSlot + 1 /\ i' = 0
    /\ \/ /\ rows' = IF pc = "loop" THEN Append(rows, call) ELSE rows
          /\ pc' = IF pc = "again" THEN "done" ELSE "loop"
          /\ frame' = NoFrame /\ refused' = {}
       \/ /\ \E t \in 1..TimeCounters : DividesByZero(FirstSample(t))
          /\ pc' = "rowCrash"
          /\ UNCHANGED <<rows, frame, refused>>
    /\ UNCHANGED <<machine, system, mapIns, it, call, target, disturbed>>

-----------------------------------------------------------------------------
(* Enumerate: this program, by its name.                                   *)
EnumerateSelf == pc \in {"self", "again"} /\ Begin(Self, 0) /\ UNCHANGED <<pc, it>>

(* GetProcessCounters: the names in the order of the map.  Of a name with  *)
(* several instances one row is made, and a name with one instance ends    *)
(* the loop.                                                               *)
NextName(n) == n \in it..Names /\ mapIns[n] > 0 /\ \A m \in it..(n - 1) : mapIns[m] = 0

GetProcessCountersNoBreak ==
    /\ pc = "loop"
    /\ \E n \in Name :
        /\ NextName(n)
        /\ Begin(n, IF mapIns[n] > 1 THEN 1 ELSE 0) /\ it' = n + 1
    /\ UNCHANGED pc

GetProcessCounters ==
    /\ pc = "loop"
    /\ \E n \in Name :
        /\ NextName(n)
        /\ IF mapIns[n] > 1
           THEN Begin(n, 1) /\ it' = n + 1
           ELSE Begin(n, 0) /\ it' = Names + 1
    /\ UNCHANGED pc

GetProcessCountersEnds ==
    /\ pc = "loop" /\ i = 0
    /\ \A n \in it..Names : mapIns[n] = 0
    /\ pc' = "again"
    /\ UNCHANGED <<machine, system, mapIns, it, rows, row, disturbed>>

Program ==
    \/ GetSystemCounters \/ enumObjIns
    \/ EnumerateSelf \/ GetProcessCounters \/ GetProcessCountersEnds
    \/ getCounter \/ EndCall

Ended == pc \in {"done", "systemCrash", "rowCrash"}

Terminating == Ended /\ UNCHANGED vars

Next == Program \/ (~Ended /\ Machine) \/ Terminating

Spec == Init /\ [][Next]_vars

(* The program has one thread, and no call it makes waits for another      *)
(* process.                                                                *)
FairSpec == Spec /\ WF_vars(Program)

-----------------------------------------------------------------------------
(* GetProcessMemoryCounters reads a row by a name that is looked up again  *)
(* for every value.  All of its values are of the process the name meant   *)
(* when the call began, or were not read at all, unless a process of that  *)
(* name exits at or before that instance: neither a later instance that    *)
(* exits, nor any process that starts, gets into the row.                  *)
RowIsOneProcess ==
    i > 0 /\ ~disturbed /\ target # None
        => \A s \in Slot : frame[s] \in {target, Garbage, Untyped}

(* Whatever exits under it, a row never goes back: a value is of the same  *)
(* process as the values read before it or of a younger one, so that no    *)
(* second sample is of an older process than the first.                    *)
RowMovesForward ==
    i > 0 => \A s, t \in Slot :
                 s < t /\ frame[s] \in Process /\ frame[t] \in Process
                     => frame[s] <= frame[t]

(* What a division by zero needs.  In a row, a first sample that           *)
(* getCounter has returned FALSE for, which the caller ignores: an         *)
(* instance that is gone is not enough, and neither is a failure that      *)
(* getCounter itself ignores, since that sets the type to 0.  In           *)
(* GetSystemCounters, whose divisions nothing guards, any sample that was  *)
(* not read: two that were are a second apart.                             *)
CrashOnlyAfterFailure ==
    /\ pc = "rowCrash" => \E t \in 1..TimeCounters : MemoryCounters + t \in refused
    /\ pc = "systemCrash" => \E s \in DOMAIN sample : sample[s] \in Unread(TRUE)

(* The rows GetProcessCounters has made when it ends are of a first part   *)
(* of the names there were, in their order, each asked for by a name that  *)
(* means one of them; and what ends that part is the first name with a     *)
(* single instance, or the end of the names.                               *)
Suits(c) == mapIns[c.name] > 0 /\ c.ins = IF mapIns[c.name] > 1 THEN 1 ELSE 0

ReportIsPrefix ==
    pc = "again" =>
        /\ \A r \in DOMAIN rows :
            /\ Suits(rows[r])
            /\ r < Len(rows) => mapIns[rows[r].name] > 1
            /\ \A n \in Name : n < rows[r].name /\ mapIns[n] > 0 =>
                   \E q \in 1..(r - 1) : rows[q].name = n
        /\ \/ \E r \in DOMAIN rows : mapIns[rows[r].name] = 1
           \/ \A n \in Name : mapIns[n] > 0 => \E r \in DOMAIN rows : rows[r].name = n

(* Enumerate returns, or the program crashes in it.                        *)
EnumerateEnds == <>Ended
=============================================================================
