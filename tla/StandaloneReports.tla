------------------------- MODULE StandaloneReports -------------------------
(***************************************************************************)
(* The producers that enumerate something other than processes, each from  *)
(* three functions that main calls: DriverEnumerator, PerformanceInfo and  *)
(* pdhProcessEnumerator with the two functions that print a report of      *)
(* their own, GetProcessCounters and SavePerfTypes.                        *)
(*                                                                         *)
(* DriverEnumerator takes the load addresses of the drivers, and then asks *)
(* for the name and for the path of what is at each address, while drivers *)
(* are loaded and unloaded.  A query about an address where a driver is    *)
(* loaded is taken to succeed.  What pdhProcessEnumerator reads, and what  *)
(* can go wrong when it computes with it, is in ProcessCounters; here its  *)
(* rows are only counted.                                                  *)
(***************************************************************************)
EXTENDS MainCalls, FiniteSets

CONSTANTS
    Driver,         \* the files of drivers
    Address,        \* where drivers can be loaded
    BufferEntries,  \* entries of the buffer for addresses (1024 in the code)
    MaxLoads,       \* bound: drivers loaded after the start
    InfoRows,       \* rows of PerformanceInfo (13)
    ObjectRows,     \* rows of objins.xml after processCounters.xml (6)
    MaxProcessRows, \* bound: rows of processCounters.xml
    TypeRows        \* rows of perf_type.xml (39)

DRIVER          == "driver.xml"
PERFORMANCE     == "performance.xml"
OBJINS          == "objins.xml"
PROCESSCOUNTERS == "processCounters.xml"
PERF_TYPE       == "perf_type.xml"

Name == {DRIVER, PERFORMANCE, OBJINS, PROCESSCOUNTERS, PERF_TYPE}

ASSUME DriverAssumption ==
    /\ IsFiniteSet(Driver) /\ Driver # {} /\ "item" \notin Driver
    /\ IsFiniteSet(Address)
ASSUME BoundAssumption ==
    /\ BufferEntries \in Nat \ {0} /\ MaxLoads \in Nat
    /\ InfoRows \in Nat /\ ObjectRows \in Nat
    /\ MaxProcessRows \in Nat /\ TypeRows \in Nat

VARIABLES
    loaded,     \* loaded[a]: the driver at address a, or "item" for none
    loads,      \* how many were loaded so far
    szBuffer,   \* szBuffer: the addresses still to be asked about
    szName,     \* szName: the name of the one being asked about
    seen,       \* history: seen[a]: the drivers at a since Enumerate began
    steady,     \* history: the addresses whose driver stayed since then
    first       \* history: the rows there were when it began

machineVars == <<loaded, loads>>
driverVars == <<szBuffer, szName>>
historyVars == <<seen, steady, first>>
vars == <<machineVars, pc, todo, driverVars, historyVars, callVars, reportVars>>

(* A row of driver.xml has the Name of a driver and a Path.  The rows of   *)
(* the other reports are not told apart.                                   *)
None == "item"
Item == [Name |-> None, Path |-> None]
Row == {Item} \cup [Name : Driver, Path : Driver]

LoadedAt(f) == {a \in Address : f[a] # None}

Init ==
    /\ loaded \in {f \in [Address -> Driver \cup {None}] :
                     \A a, b \in LoadedAt(f) : f[a] = f[b] => a = b}
    /\ loads = 0
    /\ szBuffer = {} /\ szName = << >>
    /\ seen = [a \in Address |-> {}] /\ steady = {} /\ first = 0
    /\ CallInit
    /\ ReportInit(Name)

-----------------------------------------------------------------------------
(* The machine.  An address that is free may be taken by another driver.   *)
(* A step of `todo' looks at none of it, so a change that comes among such *)
(* steps is the same as one after them.                                    *)
Load(d, a) ==
    /\ loaded[a] = None /\ \A b \in Address : loaded[b] # d
    /\ loads < MaxLoads
    /\ loads' = loads + 1
    /\ loaded' = [loaded EXCEPT ![a] = d]
    /\ seen' = IF pc \in {"name", "path"} THEN [seen EXCEPT ![a] = @ \cup {d}] ELSE seen
    /\ UNCHANGED steady

Unload(a) ==
    /\ loaded[a] # None
    /\ loaded' = [loaded EXCEPT ![a] = None]
    /\ steady' = steady \ {a}
    /\ UNCHANGED <<loads, seen>>

Machine ==
    /\ At(pc) /\ pc # "exited"
    /\ \E a \in Address : Unload(a) \/ \E d \in Driver : Load(d, a)
    /\ UNCHANGED <<pc, todo, driverVars, first, callVars, reportVars>>

-----------------------------------------------------------------------------
(* No two of these functions write the same file.                          *)
Call(p, op) ==
    Calling(p, op, {}) /\ UNCHANGED <<machineVars, driverVars>>

AtOnce(p, op) == Call(p, op) /\ UNCHANGED <<pc, todo, historyVars>>

(* A function that comes down to steps on reports.                         *)
Writes(p, op, steps) ==
    Call(p, op) /\ todo' = steps /\ UNCHANGED <<pc, historyVars, reportVars>>

DriverInitialize ==
    AtOnce("DriverEnumerator", "Initialize") /\ InitializeChecked(DRIVER)

DriverFinalize ==
    AtOnce("DriverEnumerator", "Finalize") /\ FinalizeReport(DRIVER)

(* EnumDeviceDrivers, which may fail; a buffer that is too small is the    *)
(* same, and then there is no row at all.                                  *)
DriverEnumerateFails ==
    AtOnce("DriverEnumerator", "Enumerate") /\ UNCHANGED reportVars

DriverEnumerate ==
    /\ Calling("DriverEnumerator", "Enumerate", {})
    /\ Cardinality(LoadedAt(loaded)) <= BufferEntries
    /\ szBuffer' = LoadedAt(loaded)
    /\ pc' = "name"
    /\ seen' = [a \in Address |-> {loaded[a]} \ {None}]
    /\ steady' = LoadedAt(loaded)
    /\ first' = Len(tree[DRIVER])
    /\ UNCHANGED <<machineVars, szName, todo, reportVars>>

Step(label) == At(label) /\ UNCHANGED <<machineVars, callVars, todo>>

(* GetDeviceDriverBaseName of the next address: the name of the driver     *)
(* that is there now.                                                      *)
DriverBaseName ==
    /\ Step("name")
    /\ \E a \in szBuffer :
         /\ szBuffer' = szBuffer \ {a}
         /\ IF loaded[a] # None
            THEN szName' = [at |-> a, of |-> loaded[a]] /\ pc' = "path"
            ELSE UNCHANGED <<szName, pc>>
    /\ UNCHANGED <<historyVars, reportVars>>

(* Seeded fault: a row is linked whether or not there is a path.           *)
DriverFileNameUnchecked ==
    /\ Step("path")
    /\ LinkRow(DRIVER, [Name |-> szName.of, Path |-> loaded[szName.at]])
    /\ szName' = << >> /\ pc' = "name"
    /\ UNCHANGED <<szBuffer, historyVars>>

(* Seeded fault: the loop ends with the first driver that has no path.     *)
DriverFileNameBreak ==
    /\ Step("path")
    /\ IF loaded[szName.at] # None
       THEN LinkRow(DRIVER, [Name |-> szName.of, Path |-> loaded[szName.at]])
            /\ UNCHANGED szBuffer
       ELSE szBuffer' = {} /\ UNCHANGED reportVars
    /\ szName' = << >> /\ pc' = "name"
    /\ UNCHANGED historyVars

(* GetDeviceDriverFileName of the same address, and the row.               *)
DriverFileName ==
    /\ Step("path")
    /\ IF loaded[szName.at] # None
       THEN LinkRow(DRIVER, [Name |-> szName.of, Path |-> loaded[szName.at]])
       ELSE UNCHANGED reportVars
    /\ szName' = << >> /\ pc' = "name"
    /\ UNCHANGED <<szBuffer, historyVars>>

DriverEnumerateEnds ==
    /\ Step("name")
    /\ szBuffer = {}
    /\ pc' = "idle"
    /\ seen' = [a \in Address |-> {}] /\ steady' = {} /\ first' = 0
    /\ UNCHANGED <<driverVars, reportVars>>

-----------------------------------------------------------------------------
Items(n, k) == Rows(n, [i \in 1..k |-> Item])

PerformanceInitialize ==
    AtOnce("PerformanceInfo", "Initialize") /\ InitializeChecked(PERFORMANCE)

(* GetPerformanceInfo fails, or gives all rows.                            *)
PerformanceEnumerate ==
    \E k \in {0, InfoRows} : Writes("PerformanceInfo", "Enumerate", Items(PERFORMANCE, k))

PerformanceFinalize ==
    AtOnce("PerformanceInfo", "Finalize") /\ FinalizeReport(PERFORMANCE)

PdhInitialize ==
    AtOnce("pdhProcessEnumerator", "Initialize") /\ InitializeUnchecked(OBJINS)

(* The instances of "Process" and this program itself; GetProcessCounters, *)
(* a report of its own; and the other objects.                             *)
PdhEnumerate ==
    \E k \in 0..MaxProcessRows :
        Writes("pdhProcessEnumerator", "Enumerate",
               Items(OBJINS, 2)
                 \o Printed(PROCESSCOUNTERS, [i \in 1..k |-> Item])
                 \o Items(OBJINS, ObjectRows))

(* m_bWork is not looked at.                                               *)
PdhFinalize ==
    AtOnce("pdhProcessEnumerator", "Finalize") /\ CloseReport(OBJINS)

SavePerfTypes ==
    Writes("SavePerfTypes", "run", Printed(PERF_TYPE, [i \in 1..TypeRows |-> Item]))

MainReturns ==
    /\ Step("idle")
    /\ pc' = "exited"
    /\ UNCHANGED <<driverVars, historyVars, reportVars>>

WriteReport == Write /\ UNCHANGED <<machineVars, driverVars, historyVars>>

Calls ==
    \/ DriverInitialize \/ DriverEnumerate \/ DriverEnumerateFails \/ DriverFinalize
    \/ PerformanceInitialize \/ PerformanceEnumerate \/ PerformanceFinalize
    \/ PdhInitialize \/ PdhEnumerate \/ PdhFinalize
    \/ SavePerfTypes \/ MainReturns

Steps == DriverBaseName \/ DriverFileName \/ DriverEnumerateEnds \/ WriteReport

Terminating == (crash # {} \/ pc = "exited") /\ UNCHANGED vars

Next == Machine \/ Calls \/ Steps \/ Terminating

Spec == Init /\ [][Next]_vars

-----------------------------------------------------------------------------
(* Correctness.                                                            *)

(* The rows of the Enumerate of DriverEnumerator that runs.                *)
NewRows == {i \in DOMAIN tree[DRIVER] : i > first}

(* A row has the Name and the Path of drivers that were loaded, one after  *)
(* the other or one and the same, at one address while Enumerate ran.      *)
RowsOfOneAddress ==
    pc \in {"name", "path"} =>
        \A i \in NewRows : \E a \in Address :
            {tree[DRIVER][i].Name, tree[DRIVER][i].Path} \subseteq seen[a]

(* When the loop is over every driver that stayed loaded has exactly one   *)
(* row that has its name and its path, whatever came and went around it.   *)
SteadyDriversListed ==
    pc = "name" /\ szBuffer = {} /\ DRIVER \in m_root =>
        \A a \in steady :
            Cardinality({i \in NewRows : tree[DRIVER][i] =
                            [Name |-> loaded[a], Path |-> loaded[a]]}) = 1

(* Only the three producers with a Finalize leave a document behind.       *)
ProducerOf ==
    [n \in {DRIVER, PERFORMANCE, OBJINS} |->
        CASE n = DRIVER -> "DriverEnumerator"
          [] n = PERFORMANCE -> "PerformanceInfo"
          [] n = OBJINS -> "pdhProcessEnumerator"]

UsedInOrderIsSafe == UsedAsShown(ProducerOf)

(* The reports keep the promise of ReportLifecycle.                        *)
Lifecycle == INSTANCE ReportLifecycle WITH
    phase <- [n \in Name |-> phaseOf(n)],
    content <- [n \in Name |-> contentOf(n)]

ImplementsLifecycle == Lifecycle!Spec
=============================================================================
